-------------------------- MODULE AllocatorProofs --------------------------
(***************************************************************************)
(* What hands out indices, byte ranges, rows and texture slots.            *)
(*                                                                         *)
(* SlotAllocator: what its runs check on three threads and three indices,  *)
(* for any finite set of threads, any number of indices and any generation *)
(* width, as long as no index is freed so often that its generation wraps. *)
(*                                                                         *)
(* RangeList: alloc takes its units out of the free ones and no others,    *)
(* free gives back exactly what it is given, and extend_total adds exactly *)
(* the new ones.  VarLenPool, InternedPool over it, and GpuAssets stand on *)
(* it, for any rows, ids and payloads, and for arenas, tables and slots of *)
(* any size.                                                               *)
(*                                                                         *)
(* TieredStorage: contents, residency and the account of VRAM, for any     *)
(* payloads, rows and segments and any budgets.  Whoever moves something   *)
(* moves it within one bundle (the pool, the records, the rows and the     *)
(* account), so each operator is shown to keep a bundle Sound, up to the   *)
(* execution of an intent, and the actions follow.                         *)
(***************************************************************************)
EXTENDS SlotAllocator, InternedPool, GpuAssets, TieredStorage, StackLemmas, FiniteSetTheorems

\* No index is freed often enough to bring its generation round.
NoWrap == MaxFrees < GenMod

----------------------------------------------------------------------------
(* The inductive invariant. *)

\* An index is extended only while the bound leaves room for it.
RoomToExtend == /\ next + Cardinality(Extending) <= MaxSlots
                /\ IsFiniteSet(claimed)

Inside(t) == pc[t] \in {"read", "grow", "count", "push"}

\* Every index anyone holds was issued.
Issued == /\ \A k \in 1 .. Len(free) : free[k] < next
          /\ \A t \in Threads : Inside(t) => hnd[t].index < next

\* What is known of an index's generation: it counts the frees, the claims
\* carry it, handles freed lie below it, and a thread about to return a handle
\* or to free one holds what alloc or free read.
GenerationsTell ==
    /\ \A i \in Index : frees[i] <= MaxFrees
    /\ \A i \in Index : IF HasCell(i) THEN GenerationOf(i) = frees[i] ELSE frees[i] = 0
    /\ \A h \in claimed : IsValid(h)
    /\ \A h \in stale : HasCell(h.index) /\ h.generation < GenerationOf(h.index)
    /\ \A t \in Threads : pc[t] = "count" => IsValid(hnd[t])
    /\ \A t \in Threads : pc[t] = "push" => HasCell(hnd[t].index)
    /\ \A t \in Threads : pc[t] = "cas" =>
           hnd[t] \in claimed \cup stale /\ hnd[t].generation < MaxFrees

SlotInv == SlotTypeOK /\ RoomToExtend /\ Issued /\ GenerationsTell /\ IndexConserved

\* Nothing is issued at the start.
LEMMA InitSlotInv == NoWrap /\ Init => SlotInv
<1> SUFFICES ASSUME Init PROVE SlotInv
  OBVIOUS
<1>1. Extending = {}
  BY DEF Init, Extending
<1>2. Cardinality(Extending) = 0 /\ IsFiniteSet(claimed)
  BY <1>1, FS_EmptySet DEF Init
<1>3. SlotTypeOK
  BY BoundsAssumption DEF Init, NoHandle, Handle, SlotTypeOK, Index, Generation, SlotHandle
<1>4. RoomToExtend
  BY <1>2, BoundsAssumption DEF Init, RoomToExtend
<1>5. Issued
  BY DEF Init, Issued, Inside
<1>6. GenerationsTell
  <2>1. ~\E i \in Index : HasCell(i)
    BY DEF Init, HasCell, Index
  <2>2. \A i \in Index : frees[i] <= MaxFrees
    BY BoundsAssumption DEF Init
  <2> QED
    BY <2>1, <2>2 DEF Init, GenerationsTell
<1>7. IndexConserved
  BY DEF Init, IndexConserved, IsInjective
<1> QED
  BY <1>3, <1>4, <1>5, <1>6, <1>7 DEF SlotInv

\* Only what a thread in alloc or free holds, the claims and the free list
\* decide where an index is.
LEMMA PlacesFrame ==
  ASSUME IndexConserved, UNCHANGED <<free, claimed, next>>,
         \A t \in Threads : Inside(t)' = Inside(t),
         \A t \in Threads : Inside(t) => hnd'[t].index = hnd[t].index
  PROVE  IndexConserved'
<1>1. \A t \in Threads, i \in Int : InTransit(t, i)' <=> InTransit(t, i)
  BY DEF Inside, InTransit
<1>2. \A i \in Int : (OnFreeList(i)' <=> OnFreeList(i)) /\ (IsClaimed(i)' <=> IsClaimed(i))
  BY DEF OnFreeList, IsClaimed
<1> QED
  BY <1>1, <1>2 DEF IndexConserved, IsInjective

\* Resizing keeps every cell's generation and gives the new ones 0.
LEMMA ResizedProperties ==
  ASSUME generations \in Seq(Generation), next \in Nat, Len(generations) <= next,
         NEW n \in Nat \ {0}, n <= next
  PROVE  /\ Resized(n) \in Seq(Generation)
         /\ Len(Resized(n)) \in Nat
         /\ Len(Resized(n)) >= n
         /\ Len(Resized(n)) >= Len(generations)
         /\ Len(Resized(n)) <= next
         /\ \A k \in 1 .. Len(generations) : Resized(n)[k] = generations[k]
         /\ \A k \in Len(generations) + 1 .. Len(Resized(n)) : Resized(n)[k] = 0
         /\ Resized(n)[n] \in Generation
<1> DEFINE m == IF n > Len(generations) THEN n ELSE Len(generations)
<1>1. Len(generations) \in Nat /\ \A k \in 1 .. Len(generations) : generations[k] \in Generation
  BY LenProperties
<1>2. m \in Nat /\ m >= n /\ m >= Len(generations) /\ m <= next
  BY <1>1
<1>3. 0 \in Generation
  BY BoundsAssumption DEF Generation
<1>4. Resized(n) = [k \in 1 .. m |-> IF k <= Len(generations) THEN generations[k] ELSE 0]
  BY DEF Resized, Cells
<1> HIDE DEF m
<1>5. Resized(n) \in Seq(Generation)
  BY <1>1, <1>2, <1>3, <1>4
<1>6. Len(Resized(n)) = m
  BY <1>2, <1>4
<1>7. \A k \in 1 .. m : Resized(n)[k] = IF k <= Len(generations) THEN generations[k] ELSE 0
  BY <1>4
<1>8. n \in 1 .. m
  BY <1>2
<1> QED
  BY <1>1, <1>2, <1>3, <1>5, <1>6, <1>7, <1>8

\* alloc takes the index on top of the free list.
LEMMA AllocPopKeeps ==
  ASSUME NoWrap, SlotInv, NEW t \in Threads, AllocPop(t)
  PROVE  SlotInv'
<1> USE DEF SlotInv
<1>1. SlotTypeOK'
  <2>1. /\ Front(free) \in Seq(Index)
        /\ Last(free) \in Index
    BY FrontLast DEF AllocPop, SlotTypeOK
  <2>2. Handle(Last(free), 0) \in SlotHandle
    BY <2>1, BoundsAssumption DEF Handle, SlotHandle, Generation
  <2> QED
    BY <2>1, <2>2 DEF AllocPop, historyVars, Step, Hold, SlotTypeOK
<1>2. RoomToExtend'
  BY DEF AllocPop, RoomToExtend, Extending, allocVars, historyVars, Step, Hold, Handle, NoHandle, Freed, SlotTypeOK, Index, Generation, SlotHandle
<1>3. Issued'
  <2>1. /\ Len(free) \in Nat \ {0}
        /\ Len(Front(free)) = Len(free) - 1
        /\ \A i \in 1 .. Len(free) - 1 : Front(free)[i] = free[i]
        /\ Last(free) \in Index
        /\ Last(free) = free[Len(free)]
    BY FrontLast DEF AllocPop, SlotTypeOK
  <2>2. \A k \in 1 .. Len(free') : free'[k] < next'
    BY <2>1 DEF AllocPop, Issued, historyVars
  <2>3. Last(free) < next
    BY <2>1 DEF Issued
  <2>4. ASSUME NEW s \in Threads, Inside(s)' PROVE hnd'[s].index < next'
    BY <2>3, <2>4 DEF AllocPop, Inside, Issued, Step, Hold, Handle, SlotTypeOK, Index, Generation, SlotHandle
  <2> QED
    BY <2>2, <2>4 DEF Issued
<1>4. GenerationsTell'
  BY DEF AllocPop, GenerationsTell, HasCell, GenerationOf, IsValid, allocVars, historyVars, Step, Hold, Handle, NoHandle, Freed, SlotTypeOK, Index, Generation, SlotHandle
<1>5. IndexConserved'
  <2> DEFINE x == Last(free)
  <2>1. /\ Len(free) \in Nat \ {0}
        /\ Len(Front(free)) = Len(free) - 1
        /\ \A i \in 1 .. Len(free) - 1 : Front(free)[i] = free[i]
        /\ Last(free) \in Index
        /\ Last(free) = free[Len(free)]
    BY FrontLast DEF AllocPop, SlotTypeOK
  <2>2. free' = Front(free) /\ claimed' = claimed /\ next' = next
    BY DEF AllocPop, historyVars
  <2>3. \A s \in Threads, i \in Int : InTransit(s, i)' <=> InTransit(s, i) \/ (s = t /\ i = x)
    BY DEF AllocPop, InTransit, Step, Hold, Handle, SlotTypeOK
  <2>4. DOMAIN free = 1 .. Len(free) /\ DOMAIN free' = 1 .. Len(free) - 1
    BY <2>1, <2>2, LenProperties DEF SlotTypeOK
  <2>5. \A k \in DOMAIN free' : free'[k] = free[k] /\ k \in DOMAIN free /\ k # Len(free)
    BY <2>1, <2>2, <2>4
  <2>6. IsInjective(free) /\ Len(free) \in DOMAIN free /\ free[Len(free)] = x
    BY <2>1, <2>4 DEF IndexConserved
  <2>7. \A i \in Int : OnFreeList(i)' <=> OnFreeList(i) /\ i # x
    BY <2>1, <2>4, <2>5, <2>6 DEF OnFreeList, IsInjective
  <2>8. OnFreeList(x) /\ x \in 0 .. next - 1
    BY <2>1, <2>4, <2>6 DEF OnFreeList, Issued, SlotTypeOK, Index
  <2>9. IsInjective(free)'
    BY <2>5, <2>6 DEF IsInjective
  <2>10. \A i \in Int : IsClaimed(i)' <=> IsClaimed(i)
    BY <2>2 DEF IsClaimed
  <2> HIDE DEF x
  <2> QED
    BY <2>2, <2>3, <2>7, <2>8, <2>9, <2>10 DEF IndexConserved
<1> QED
  BY <1>1, <1>2, <1>3, <1>4, <1>5

\* alloc finds the free list empty.
LEMMA AllocEmptyKeeps ==
  ASSUME NoWrap, SlotInv, NEW t \in Threads, AllocEmpty(t)
  PROVE  SlotInv'
<1> USE DEF SlotInv
<1>1. SlotTypeOK'
  BY BoundsAssumption DEF AllocEmpty, allocVars, historyVars, Step, Hold, Handle, NoHandle, Freed, SlotTypeOK, Index, Generation, SlotHandle
<1>2. RoomToExtend'
  <2>1. IsFiniteSet(Extending) /\ t \notin Extending
    BY BoundsAssumption, FS_Subset DEF Extending, AllocEmpty, Step
  <2>2. Extending' = Extending \cup {t}
    BY DEF Extending, AllocEmpty, Step, SlotTypeOK
  <2>3. Cardinality(Extending') = Cardinality(Extending) + 1
    BY <2>1, <2>2, FS_AddElement
  <2>4. Cardinality(Extending) \in Nat
    BY <2>1, FS_CardinalityType
  <2> QED
    BY <2>3, <2>4, BoundsAssumption DEF RoomToExtend, AllocEmpty, allocVars, historyVars, SlotTypeOK
<1>3. Issued'
  BY DEF AllocEmpty, Issued, Inside, allocVars, historyVars, Step, Hold, Handle, NoHandle, Freed, SlotTypeOK, Index, Generation, SlotHandle
<1>4. GenerationsTell'
  BY DEF AllocEmpty, GenerationsTell, HasCell, GenerationOf, IsValid, allocVars, historyVars, Step, Hold, Handle, NoHandle, Freed, SlotTypeOK, Index, Generation, SlotHandle
<1>5. IndexConserved'
  BY PlacesFrame DEF AllocEmpty, Inside, allocVars, historyVars, Step, Hold, Handle, NoHandle, Freed, SlotTypeOK, Index, Generation, SlotHandle
<1> QED
  BY <1>1, <1>2, <1>3, <1>4, <1>5

\* alloc issues the next index, which nobody has.
LEMMA AllocExtendKeeps ==
  ASSUME NoWrap, SlotInv, NEW t \in Threads, AllocExtend(t)
  PROVE  SlotInv'
<1> USE DEF SlotInv
<1>1. SlotTypeOK'
  <2>1. IsFiniteSet(Extending) /\ t \in Extending
    BY BoundsAssumption, FS_Subset DEF Extending, AllocExtend, Step
  <2>2. Cardinality(Extending) \in Nat /\ Cardinality(Extending) # 0
    BY <2>1, FS_CardinalityType, FS_EmptySet
  <2>3. next < MaxSlots
    BY <2>2, BoundsAssumption DEF RoomToExtend, SlotTypeOK
  <2> QED
    BY <2>3, BoundsAssumption DEF AllocExtend, allocVars, historyVars, Step, Hold, Handle, NoHandle, Freed, SlotTypeOK, Index, Generation, SlotHandle
<1>2. RoomToExtend'
  <2>1. IsFiniteSet(Extending) /\ t \in Extending
    BY BoundsAssumption, FS_Subset DEF Extending, AllocExtend, Step
  <2>2. Extending' = Extending \ {t}
    BY DEF Extending, AllocExtend, Step, SlotTypeOK
  <2>3. Cardinality(Extending') = Cardinality(Extending) - 1
    BY <2>1, <2>2, FS_RemoveElement
  <2>4. Cardinality(Extending) \in Nat
    BY <2>1, FS_CardinalityType
  <2> QED
    BY <2>3, <2>4, BoundsAssumption DEF RoomToExtend, AllocExtend, historyVars, SlotTypeOK
<1>3. Issued'
  <2>1. next' = next + 1 /\ next \in Int /\ free' = free
    BY DEF AllocExtend, SlotTypeOK
  <2>2. \A k \in 1 .. Len(free) : free[k] \in Int
    BY LenProperties DEF SlotTypeOK, Index
  <2>3. \A k \in 1 .. Len(free') : free'[k] < next'
    BY <2>1, <2>2 DEF Issued
  <2>4. ASSUME NEW s \in Threads, Inside(s)' PROVE hnd'[s].index < next'
    <3>1. hnd[s].index \in Int
      BY DEF SlotTypeOK, SlotHandle, Index
    <3>2. CASE s = t
      BY <2>1, <3>2 DEF AllocExtend, Hold, Handle, SlotTypeOK
    <3>3. CASE s # t
      BY <2>1, <2>4, <3>1, <3>3 DEF AllocExtend, Inside, Issued, Step, Hold, SlotTypeOK
    <3> QED
      BY <3>2, <3>3
  <2> QED
    BY <2>3, <2>4 DEF Issued
<1>4. GenerationsTell'
  BY DEF AllocExtend, GenerationsTell, HasCell, GenerationOf, IsValid, allocVars, historyVars, Step, Hold, Handle, NoHandle, Freed, SlotTypeOK, Index, Generation, SlotHandle
<1>5. IndexConserved'
  <2>1. next' = next + 1 /\ next \in Nat /\ free' = free /\ claimed' = claimed
    BY DEF AllocExtend, historyVars, SlotTypeOK
  <2>2. \A s \in Threads, i \in Int : InTransit(s, i)' <=> InTransit(s, i) \/ (s = t /\ i = next)
    BY DEF AllocExtend, InTransit, Step, Hold, Handle, SlotTypeOK
  <2>3. IsInjective(free)' /\ \A i \in Int : OnFreeList(i)' <=> OnFreeList(i)
    BY <2>1 DEF IndexConserved, IsInjective, OnFreeList
  <2>4. \A i \in Int : IsClaimed(i)' <=> IsClaimed(i)
    BY <2>1 DEF IsClaimed
  <2>5. ~OnFreeList(next)
    BY <2>1, LenProperties DEF OnFreeList, Issued, SlotTypeOK
  <2>6. ~IsClaimed(next)
    BY <2>1 DEF IsClaimed, GenerationsTell, IsValid, HasCell, SlotTypeOK, SlotHandle, Index
  <2>7. \A s \in Threads : ~InTransit(s, next)
    BY <2>1 DEF InTransit, Inside, Issued, SlotTypeOK
  <2> QED
    BY <2>1, <2>2, <2>3, <2>4, <2>5, <2>6, <2>7 DEF IndexConserved
<1> QED
  BY <1>1, <1>2, <1>3, <1>4, <1>5

\* alloc reads the generation of an index that has a cell.
LEMMA AllocReadKeeps ==
  ASSUME NoWrap, SlotInv, NEW t \in Threads, AllocRead(t)
  PROVE  SlotInv'
<1> USE DEF SlotInv
<1>1. SlotTypeOK'
  <2>1. hnd[t] \in SlotHandle /\ hnd[t].index \in Nat
    BY DEF SlotTypeOK, SlotHandle, Index
  <2>2. \A k \in 1 .. Len(generations) : generations[k] \in Generation
    BY LenProperties DEF SlotTypeOK
  <2>3. GenerationOf(hnd[t].index) \in Generation
    BY <2>1, <2>2 DEF AllocRead, HasCell, GenerationOf
  <2>4. Handle(hnd[t].index, GenerationOf(hnd[t].index)) \in SlotHandle
    BY <2>1, <2>3 DEF Handle, SlotHandle
  <2> QED
    BY <2>4 DEF AllocRead, allocVars, historyVars, Step, Hold, SlotTypeOK
<1>2. RoomToExtend'
  BY DEF AllocRead, RoomToExtend, Extending, allocVars, historyVars, Step, Hold, Handle, NoHandle, Freed, SlotTypeOK, Index, Generation, SlotHandle
<1>3. Issued'
  BY DEF AllocRead, Issued, Inside, allocVars, historyVars, Step, Hold, Handle, NoHandle, Freed, SlotTypeOK, Index, Generation, SlotHandle
<1>4. GenerationsTell'
  BY DEF AllocRead, GenerationsTell, HasCell, GenerationOf, IsValid, allocVars, historyVars, Step, Hold, Handle, NoHandle, Freed, SlotTypeOK, Index, Generation, SlotHandle
<1>5. IndexConserved'
  BY PlacesFrame DEF AllocRead, Inside, allocVars, historyVars, Step, Hold, Handle, NoHandle, Freed, SlotTypeOK, Index, Generation, SlotHandle
<1> QED
  BY <1>1, <1>2, <1>3, <1>4, <1>5

\* alloc finds that its index has no cell yet.
LEMMA AllocMissingKeeps ==
  ASSUME NoWrap, SlotInv, NEW t \in Threads, AllocMissing(t)
  PROVE  SlotInv'
<1> USE DEF SlotInv
<1>1. SlotTypeOK'
  BY BoundsAssumption DEF AllocMissing, allocVars, historyVars, Step, Hold, Handle, NoHandle, Freed, SlotTypeOK, Index, Generation, SlotHandle
<1>2. RoomToExtend'
  BY DEF AllocMissing, RoomToExtend, Extending, allocVars, historyVars, Step, Hold, Handle, NoHandle, Freed, SlotTypeOK, Index, Generation, SlotHandle
<1>3. Issued'
  BY DEF AllocMissing, Issued, Inside, allocVars, historyVars, Step, Hold, Handle, NoHandle, Freed, SlotTypeOK, Index, Generation, SlotHandle
<1>4. GenerationsTell'
  BY DEF AllocMissing, GenerationsTell, HasCell, GenerationOf, IsValid, allocVars, historyVars, Step, Hold, Handle, NoHandle, Freed, SlotTypeOK, Index, Generation, SlotHandle
<1>5. IndexConserved'
  BY PlacesFrame DEF AllocMissing, Inside, allocVars, historyVars, Step, Hold, Handle, NoHandle, Freed, SlotTypeOK, Index, Generation, SlotHandle
<1> QED
  BY <1>1, <1>2, <1>3, <1>4, <1>5

\* alloc gives its index a cell; what other cells hold stays.
LEMMA AllocGrowKeeps ==
  ASSUME NoWrap, SlotInv, NEW t \in Threads, AllocGrow(t)
  PROVE  SlotInv'
<1> USE DEF SlotInv
<1>1. SlotTypeOK'
  <2>1. hnd[t] \in SlotHandle /\ hnd[t].index \in Nat /\ hnd[t].index < next
    BY DEF SlotTypeOK, SlotHandle, Index, AllocGrow, Step, Issued, Inside
  <2>2. /\ Resized(hnd[t].index + 1) \in Seq(Generation)
        /\ Len(Resized(hnd[t].index + 1)) > hnd[t].index
        /\ Len(Resized(hnd[t].index + 1)) <= next
        /\ Len(Resized(hnd[t].index + 1)) \in Nat
        /\ Resized(hnd[t].index + 1)[hnd[t].index + 1] \in Generation
    BY <2>1, ResizedProperties DEF SlotTypeOK
  <2>3. Handle(hnd[t].index, Resized(hnd[t].index + 1)[hnd[t].index + 1]) \in SlotHandle
    BY <2>1, <2>2 DEF Handle, SlotHandle
  <2> QED
    BY <2>2, <2>3 DEF AllocGrow, historyVars, Step, Hold, SlotTypeOK
<1>2. RoomToExtend'
  BY DEF AllocGrow, RoomToExtend, Extending, allocVars, historyVars, Step, Hold, Handle, NoHandle, Freed, SlotTypeOK, Index, Generation, SlotHandle
<1>3. Issued'
  BY DEF AllocGrow, Issued, Inside, allocVars, historyVars, Step, Hold, Handle, NoHandle, Freed, SlotTypeOK, Index, Generation, SlotHandle
<1>4. GenerationsTell'
  <2> DEFINE x == hnd[t].index
             R == Resized(x + 1)
  <2>1. x \in Nat /\ x < next /\ hnd[t] \in SlotHandle
    BY DEF SlotTypeOK, SlotHandle, Index, AllocGrow, Step, Issued, Inside
  <2>2. /\ Len(R) \in Nat /\ Len(R) > x /\ Len(R) >= Len(generations) /\ Len(generations) \in Nat
        /\ Len(R) <= next
        /\ \A k \in 1 .. Len(generations) : R[k] = generations[k]
        /\ \A k \in Len(generations) + 1 .. Len(R) : R[k] = 0
    BY SMTT(40), <2>1, ResizedProperties, LenProperties DEF SlotTypeOK
  <2>3. \A i \in Index : HasCell(i) => HasCell(i)' /\ GenerationOf(i)' = GenerationOf(i)
    BY <2>2 DEF AllocGrow, HasCell, GenerationOf, Index
  <2>4. ASSUME NEW i \in Index, HasCell(i)'
        PROVE  GenerationOf(i)' = frees[i]
    <3>1. CASE HasCell(i)
      BY <2>3, <3>1 DEF GenerationsTell
    <3>2. CASE ~HasCell(i)
      <4>1. GenerationOf(i)' = 0
        BY <2>2, <2>4, <3>2 DEF AllocGrow, HasCell, GenerationOf, Index
      <4> QED
        BY <3>2, <4>1 DEF GenerationsTell
    <3> QED
      BY <3>1, <3>2
  <2>5. UNCHANGED <<claimed, stale, frees>>
    BY DEF AllocGrow, historyVars
  <2>15. \A i \in Index : IF HasCell(i)' THEN GenerationOf(i)' = frees'[i] ELSE frees'[i] = 0
    BY <2>3, <2>4, <2>5 DEF GenerationsTell
  <2>6. \A h \in claimed \cup stale : h.index \in Index /\ HasCell(h.index)
    BY DEF GenerationsTell, SlotTypeOK, SlotHandle, IsValid
  <2>7. \A h \in claimed : IsValid(h)'
    BY <2>3, <2>6 DEF GenerationsTell, IsValid
  <2>8. \A h \in stale : HasCell(h.index)' /\ h.generation < GenerationOf(h.index)'
    BY <2>3, <2>6 DEF GenerationsTell
  <2>9. IsValid(hnd[t])'
    BY <2>1, <2>2 DEF AllocGrow, Hold, Handle, IsValid, HasCell, GenerationOf, SlotTypeOK
  <2>10. ASSUME NEW s \in Threads, s # t
         PROVE  pc'[s] = pc[s] /\ hnd'[s] = hnd[s] /\ hnd[s].index \in Index
    BY <2>10 DEF AllocGrow, Step, Hold, SlotTypeOK, SlotHandle
  <2>11. \A s \in Threads : pc'[s] = "count" => IsValid(hnd[s])'
    BY <2>3, <2>9, <2>10 DEF GenerationsTell, IsValid
  <2>12. pc'[t] = "count"
    BY DEF AllocGrow, Step, SlotTypeOK
  <2>13. \A s \in Threads : pc'[s] = "push" => HasCell(hnd[s].index)'
    BY <2>3, <2>10, <2>12 DEF GenerationsTell
  <2>14. \A s \in Threads : pc'[s] = "cas" =>
             hnd'[s] \in claimed \cup stale /\ hnd'[s].generation < MaxFrees
    BY <2>10, <2>12 DEF GenerationsTell
  <2> QED
    BY <2>5, <2>7, <2>8, <2>11, <2>13, <2>14, <2>15 DEF GenerationsTell
<1>5. IndexConserved'
  BY PlacesFrame DEF AllocGrow, Inside, allocVars, historyVars, Step, Hold, Handle, NoHandle, Freed, SlotTypeOK, Index, Generation, SlotHandle
<1> QED
  BY <1>1, <1>2, <1>3, <1>4, <1>5

\* alloc counts the index and returns its handle.
LEMMA AllocCountKeeps ==
  ASSUME NoWrap, SlotInv, NEW t \in Threads, AllocCount(t)
  PROVE  SlotInv'
<1> USE DEF SlotInv
<1>1. SlotTypeOK'
  BY SMTT(40), BoundsAssumption DEF AllocCount, allocVars, historyVars, Step, Hold, Handle, NoHandle, Freed, SlotTypeOK, Index, Generation, SlotHandle
<1>2. RoomToExtend'
  <2>1. Extending' = Extending
    BY DEF Extending, AllocCount, Step, SlotTypeOK
  <2>2. IsFiniteSet(claimed \cup {hnd[t]})
    BY FS_AddElement DEF RoomToExtend
  <2> QED
    BY <2>1, <2>2 DEF AllocCount, RoomToExtend
<1>3. Issued'
  BY DEF AllocCount, Issued, Inside, allocVars, historyVars, Step, Hold, Handle, NoHandle, Freed, SlotTypeOK, Index, Generation, SlotHandle
<1>4. GenerationsTell'
  BY DEF AllocCount, GenerationsTell, HasCell, GenerationOf, IsValid, allocVars, historyVars, Step, Hold, Handle, NoHandle, Freed, SlotTypeOK, Index, Generation, SlotHandle
<1>5. IndexConserved'
  <2> DEFINE x == hnd[t].index
  <2>1. free' = free /\ claimed' = claimed \cup {hnd[t]} /\ next' = next
    BY DEF AllocCount
  <2>2. InTransit(t, x) /\ x \in 0 .. next - 1
    BY DEF AllocCount, InTransit, Inside, Issued, Step, SlotTypeOK, Index, Generation, SlotHandle
  <2>3. \A s \in Threads, i \in Int : InTransit(s, i)' <=> InTransit(s, i) /\ s # t
    BY DEF AllocCount, InTransit, Step, Hold, SlotTypeOK
  <2>4. \A i \in Int : InTransit(t, i) => i = x
    BY DEF InTransit
  <2>5. \A i \in Int : IsClaimed(i)' <=> IsClaimed(i) \/ i = x
    BY <2>1 DEF IsClaimed
  <2>6. \A h, k \in claimed' : h.index = k.index => h = k
    BY <2>1, <2>2 DEF IndexConserved, IsClaimed
  <2>7. IsInjective(free)' /\ \A i \in Int : OnFreeList(i)' <=> OnFreeList(i)
    BY <2>1 DEF IndexConserved, IsInjective, OnFreeList
  <2> HIDE DEF x
  <2> QED
    BY <2>1, <2>2, <2>3, <2>4, <2>5, <2>6, <2>7 DEF IndexConserved
<1> QED
  BY <1>1, <1>2, <1>3, <1>4, <1>5

\* free loads the generation and compares it.
LEMMA FreeLoadKeeps ==
  ASSUME NoWrap, SlotInv, NEW t \in Threads, FreeLoad(t)
  PROVE  SlotInv'
<1> USE DEF SlotInv
<1>1. SlotTypeOK'
  BY BoundsAssumption DEF FreeLoad, allocVars, historyVars, Step, Hold, Handle, NoHandle, Freed, SlotTypeOK, Index, Generation, SlotHandle
<1>2. RoomToExtend'
  BY DEF FreeLoad, RoomToExtend, Extending, allocVars, historyVars, Step, Hold, Handle, NoHandle, Freed, SlotTypeOK, Index, Generation, SlotHandle
<1>3. Issued'
  BY DEF FreeLoad, Issued, Inside, allocVars, historyVars, Step, Hold, Handle, NoHandle, Freed, SlotTypeOK, Index, Generation, SlotHandle
<1>4. GenerationsTell'
  BY SMTT(40) DEF FreeLoad, GenerationsTell, HasCell, GenerationOf, IsValid, allocVars, historyVars, Step, Hold, Handle, NoHandle, Freed, SlotTypeOK, Index, Generation, SlotHandle
<1>5. IndexConserved'
  BY PlacesFrame DEF FreeLoad, Inside, allocVars, historyVars, Step, Hold, Handle, NoHandle, Freed, SlotTypeOK, Index, Generation, SlotHandle
<1> QED
  BY <1>1, <1>2, <1>3, <1>4, <1>5

\* free lost the exchange: another free was first.
LEMMA FreeLostKeeps ==
  ASSUME NoWrap, SlotInv, NEW t \in Threads, FreeLost(t)
  PROVE  SlotInv'
<1> USE DEF SlotInv
<1>1. SlotTypeOK'
  BY BoundsAssumption DEF FreeLost, allocVars, historyVars, Step, Hold, Handle, NoHandle, Freed, SlotTypeOK, Index, Generation, SlotHandle
<1>2. RoomToExtend'
  BY DEF FreeLost, RoomToExtend, Extending, allocVars, historyVars, Step, Hold, Handle, NoHandle, Freed, SlotTypeOK, Index, Generation, SlotHandle
<1>3. Issued'
  BY DEF FreeLost, Issued, Inside, allocVars, historyVars, Step, Hold, Handle, NoHandle, Freed, SlotTypeOK, Index, Generation, SlotHandle
<1>4. GenerationsTell'
  BY DEF FreeLost, GenerationsTell, HasCell, GenerationOf, IsValid, allocVars, historyVars, Step, Hold, Handle, NoHandle, Freed, SlotTypeOK, Index, Generation, SlotHandle
<1>5. IndexConserved'
  BY PlacesFrame DEF FreeLost, Inside, allocVars, historyVars, Step, Hold, Handle, NoHandle, Freed, SlotTypeOK, Index, Generation, SlotHandle
<1> QED
  BY <1>1, <1>2, <1>3, <1>4, <1>5

\* A compare-and-swap that succeeds frees a claim, and wraps nothing.
LEMMA FreeCasFacts ==
  ASSUME NoWrap, SlotInv, NEW t \in Threads, FreeCas(t)
  PROVE  /\ hnd[t] \in claimed /\ hnd[t] \in SlotHandle
         /\ hnd[t].index \in Index /\ hnd[t].index < Len(generations) /\ hnd[t].index < next
         /\ hnd[t].generation \in Nat /\ hnd[t].generation < MaxFrees
         /\ generations[hnd[t].index + 1] = hnd[t].generation
         /\ frees[hnd[t].index] = hnd[t].generation
         /\ Bumped(hnd[t].generation) = hnd[t].generation + 1
         /\ hnd[t].generation + 1 \in Generation
         /\ Len(generations) \in Nat /\ Len(generations) <= next
         /\ generations' = [generations EXCEPT ![hnd[t].index + 1] = hnd[t].generation + 1]
<1> USE DEF SlotInv
<1>1. hnd[t] \in SlotHandle /\ hnd[t].index \in Index /\ hnd[t].generation \in Generation
  BY DEF SlotTypeOK, SlotHandle
<1>2. HasCell(hnd[t].index) /\ GenerationOf(hnd[t].index) = hnd[t].generation /\ pc[t] = "cas"
  BY DEF FreeCas, IsValid, Step
<1>3. hnd[t] \in claimed \cup stale /\ hnd[t].generation < MaxFrees
  BY <1>2 DEF GenerationsTell
<1>4. hnd[t] \notin stale
  BY <1>1, <1>2 DEF GenerationsTell, Generation
<1>5. frees[hnd[t].index] = hnd[t].generation
  BY <1>1, <1>2 DEF GenerationsTell
<1>6. Len(generations) \in Nat /\ Len(generations) <= next /\ next \in Nat
  BY LenProperties DEF SlotTypeOK
<1>7. Bumped(hnd[t].generation) = hnd[t].generation + 1 /\ hnd[t].generation + 1 \in Generation
  BY <1>1, <1>3, BoundsAssumption DEF Bumped, NoWrap, Generation
<1>8. generations' = [generations EXCEPT ![hnd[t].index + 1] = Bumped(hnd[t].generation)]
  BY DEF FreeCas
<1>9. hnd[t].index < Len(generations) /\ generations[hnd[t].index + 1] = hnd[t].generation
  BY <1>2 DEF HasCell, GenerationOf
<1> QED
  BY <1>1, <1>3, <1>4, <1>5, <1>6, <1>7, <1>8, <1>9 DEF Index, Generation

\* free won the exchange: the generation moves and the claim goes.
LEMMA FreeCasKeeps ==
  ASSUME NoWrap, SlotInv, NEW t \in Threads, FreeCas(t)
  PROVE  SlotInv'
<1>0. /\ hnd[t] \in claimed /\ hnd[t] \in SlotHandle
      /\ hnd[t].index \in Index /\ hnd[t].index < Len(generations) /\ hnd[t].index < next
      /\ hnd[t].generation \in Nat /\ hnd[t].generation < MaxFrees
      /\ generations[hnd[t].index + 1] = hnd[t].generation
      /\ frees[hnd[t].index] = hnd[t].generation
      /\ Bumped(hnd[t].generation) = hnd[t].generation + 1
      /\ hnd[t].generation + 1 \in Generation
      /\ Len(generations) \in Nat /\ Len(generations) <= next
      /\ generations' = [generations EXCEPT ![hnd[t].index + 1] = hnd[t].generation + 1]
  BY FreeCasFacts
<1> USE DEF SlotInv
<1>1. SlotTypeOK'
  <2>1. generations' \in Seq(Generation) /\ Len(generations') = Len(generations)
    BY <1>0, ExceptSeq DEF SlotTypeOK, Index
  <2>2. frees' \in [Index -> Nat] /\ claimed' \in SUBSET SlotHandle /\ stale' \in SUBSET SlotHandle
    BY <1>0 DEF FreeCas, Freed, SlotTypeOK
  <2> QED
    BY <2>1, <2>2 DEF FreeCas, Step, SlotTypeOK
<1>2. RoomToExtend'
  <2>1. Extending' = Extending
    BY DEF Extending, FreeCas, Step, SlotTypeOK
  <2>2. IsFiniteSet(claimed \ {hnd[t]})
    BY FS_RemoveElement DEF RoomToExtend
  <2> QED
    BY <2>1, <2>2 DEF FreeCas, Freed, RoomToExtend
<1>3. Issued'
  BY <1>0 DEF FreeCas, Step, Issued, Inside, SlotTypeOK
<1>4. GenerationsTell'
  <2> DEFINE x == hnd[t].index
             g == hnd[t].generation
  <2>1. /\ hnd[t] \in claimed /\ hnd[t] \in SlotHandle /\ x \in Index /\ x < Len(generations)
        /\ g \in Nat /\ g < MaxFrees /\ frees[x] = g /\ x < next
        /\ Len(generations) \in Nat /\ generations' = [generations EXCEPT ![x + 1] = g + 1]
    BY <1>0
  <2>2. /\ claimed' = claimed \ {hnd[t]} /\ stale' = stale \cup {hnd[t]}
        /\ frees' = [frees EXCEPT ![x] = g + 1] /\ hnd' = hnd
        /\ pc[t] = "cas" /\ pc' = [pc EXCEPT ![t] = "push"]
    BY <2>1 DEF FreeCas, Freed, Step
  <2>3. \A i \in Index : HasCell(i)' <=> HasCell(i)
    BY <2>1 DEF HasCell, SlotTypeOK
  <2>4. \A i \in Index : HasCell(i) => GenerationOf(i)' = IF i = x THEN g + 1 ELSE GenerationOf(i)
    BY <2>1 DEF HasCell, GenerationOf, Index, SlotTypeOK
  <2>5. \A i \in Index : frees'[i] = IF i = x THEN g + 1 ELSE frees[i]
    BY <2>2 DEF SlotTypeOK
  <2>6. HasCell(x) /\ GenerationOf(x) = g
    BY <2>1 DEF HasCell, GenerationsTell
  <2>7. \A h \in claimed \cup stale : h.index \in Index /\ h.generation \in Nat /\ HasCell(h.index)
    BY DEF GenerationsTell, IsValid, SlotTypeOK, SlotHandle, Generation
  <2> HIDE DEF x, g
  <2>8. \A i \in Index : frees'[i] <= MaxFrees
    BY <2>1, <2>5, BoundsAssumption DEF GenerationsTell
  <2>9. \A i \in Index : IF HasCell(i)' THEN GenerationOf(i)' = frees'[i] ELSE frees'[i] = 0
    BY <2>3, <2>4, <2>5, <2>6 DEF GenerationsTell
  <2>10. \A h \in claimed' : IsValid(h)'
    <3>1. ASSUME NEW h \in claimed, h # hnd[t] PROVE h.index # x
      BY <2>1, <3>1 DEF IndexConserved, x
    <3> QED
      BY <2>2, <2>3, <2>4, <2>7, <3>1 DEF GenerationsTell, IsValid
  <2>11. \A h \in stale' : HasCell(h.index)' /\ h.generation < GenerationOf(h.index)'
    <3>1. hnd[t].index = x /\ hnd[t].generation = g
      BY DEF x, g
    <3>2. HasCell(hnd[t].index)' /\ hnd[t].generation < GenerationOf(hnd[t].index)'
      BY <2>1, <2>2, <2>3, <2>4, <2>6, <3>1
    <3>3. ASSUME NEW h \in stale
          PROVE  HasCell(h.index)' /\ h.generation < GenerationOf(h.index)'
      <4>1. h.index \in Index /\ h.generation \in Nat /\ HasCell(h.index) /\ h.generation < GenerationOf(h.index)
        BY <2>7 DEF GenerationsTell
      <4>2. h.index = x => h.generation < g + 1
        BY <2>1, <2>6, <4>1
      <4> QED
        BY <2>3, <2>4, <4>1, <4>2
    <3> QED
      BY <2>2, <3>2, <3>3
  <2>12. \A s \in Threads : pc'[s] = "count" => IsValid(hnd[s])'
    <3>1. SUFFICES ASSUME NEW s \in Threads, pc[s] = "count" PROVE IsValid(hnd[s])'
      BY <2>2 DEF SlotTypeOK
    <3>2. hnd[s].index \in Index /\ hnd[s].index \in 0 .. next - 1 /\ InTransit(s, hnd[s].index)
      BY <3>1 DEF InTransit, Inside, Issued, SlotTypeOK, SlotHandle, Index
    <3>3. ~IsClaimed(hnd[s].index)
      BY <3>2 DEF IndexConserved
    <3>4. hnd[s].index # x
      BY <2>1, <3>3 DEF IsClaimed, x
    <3>5. HasCell(hnd[s].index) /\ GenerationOf(hnd[s].index) = hnd[s].generation
      BY <3>1 DEF GenerationsTell, IsValid
    <3>6. HasCell(hnd[s].index)' /\ GenerationOf(hnd[s].index)' = hnd'[s].generation
      BY <2>2, <2>3, <2>4, <3>2, <3>4, <3>5
    <3> QED
      BY <2>2, <3>6 DEF IsValid
  <2>13. \A s \in Threads : pc'[s] = "push" => HasCell(hnd[s].index)'
    <3>1. \A s \in Threads : hnd[s].index \in Index
      BY DEF SlotTypeOK, SlotHandle
    <3>2. \A s \in Threads : s # t => pc'[s] = pc[s]
      BY <2>2 DEF SlotTypeOK
    <3>3. HasCell(hnd[t].index)
      BY <2>1, <2>7
    <3> QED
      BY <2>2, <2>3, <3>1, <3>2, <3>3 DEF GenerationsTell
  <2>14. \A s \in Threads : pc'[s] = "cas" =>
             hnd'[s] \in claimed' \cup stale' /\ hnd'[s].generation < MaxFrees
    BY <2>2 DEF GenerationsTell, SlotTypeOK
  <2> QED
    BY <2>8, <2>9, <2>10, <2>11, <2>12, <2>13, <2>14 DEF GenerationsTell
<1>5. IndexConserved'
  <2> DEFINE x == hnd[t].index
  <2>1. hnd[t] \in claimed /\ x \in 0 .. next - 1
    BY <1>0 DEF Index, SlotTypeOK
  <2>2. free' = free /\ claimed' = claimed \ {hnd[t]} /\ next' = next
    BY DEF FreeCas, Freed
  <2>3. \A s \in Threads, i \in Int : InTransit(s, i)' <=> InTransit(s, i) \/ (s = t /\ i = x)
    BY DEF FreeCas, InTransit, Step, SlotTypeOK
  <2>4. \A h, k \in claimed : h.index = k.index => h = k
    BY DEF IndexConserved
  <2>5. \A i \in Int : IsClaimed(i)' <=> IsClaimed(i) /\ i # x
    BY <2>1, <2>2, <2>4 DEF IsClaimed
  <2>6. IsClaimed(x)
    BY <2>1 DEF IsClaimed
  <2>7. IsInjective(free)' /\ \A i \in Int : OnFreeList(i)' <=> OnFreeList(i)
    BY <2>2 DEF IndexConserved, IsInjective, OnFreeList
  <2> HIDE DEF x
  <2> QED
    BY <2>1, <2>2, <2>3, <2>4, <2>5, <2>6, <2>7 DEF IndexConserved
<1> QED
  BY <1>1, <1>2, <1>3, <1>4, <1>5

\* free puts its index on the free list.
LEMMA FreePushKeeps ==
  ASSUME NoWrap, SlotInv, NEW t \in Threads, FreePush(t)
  PROVE  SlotInv'
<1> USE DEF SlotInv
<1>1. SlotTypeOK'
  BY BoundsAssumption DEF FreePush, allocVars, historyVars, Step, Hold, Handle, NoHandle, Freed, SlotTypeOK, Index, Generation, SlotHandle
<1>2. RoomToExtend'
  BY DEF FreePush, RoomToExtend, Extending, allocVars, historyVars, Step, Hold, Handle, NoHandle, Freed, SlotTypeOK, Index, Generation, SlotHandle
<1>3. Issued'
  BY DEF FreePush, Issued, Inside, allocVars, historyVars, Step, Hold, Handle, NoHandle, Freed, SlotTypeOK, Index, Generation, SlotHandle
<1>4. GenerationsTell'
  BY DEF FreePush, GenerationsTell, HasCell, GenerationOf, IsValid, allocVars, historyVars, Step, Hold, Handle, NoHandle, Freed, SlotTypeOK, Index, Generation, SlotHandle
<1>5. IndexConserved'
  <2> DEFINE x == hnd[t].index
  <2>1. /\ free' = Append(free, x) /\ claimed' = claimed /\ next' = next
        /\ x \in Index /\ Len(free) \in Nat
    BY LenProperties DEF FreePush, historyVars, SlotTypeOK, SlotHandle
  <2>2. InTransit(t, x) /\ x \in 0 .. next - 1
    BY DEF FreePush, InTransit, Inside, Issued, Step, SlotTypeOK, SlotHandle, Index
  <2>3. \A s \in Threads, i \in Int : InTransit(s, i)' <=> InTransit(s, i) /\ s # t
    BY DEF FreePush, InTransit, Step, SlotTypeOK
  <2>4. \A i \in Int : InTransit(t, i) => i = x
    BY DEF InTransit
  <2>5. /\ DOMAIN free = 1 .. Len(free) /\ DOMAIN free' = 1 .. Len(free) + 1
        /\ \A k \in 1 .. Len(free) : free'[k] = free[k]
        /\ free'[Len(free) + 1] = x
    BY <2>1, AppendProperties, LenProperties DEF SlotTypeOK
  <2>6. ~OnFreeList(x) /\ ~IsClaimed(x)
    BY <2>2 DEF IndexConserved
  <2> HIDE DEF x
  <2>7. \A i \in Int : OnFreeList(i)' <=> OnFreeList(i) \/ i = x
    BY <2>1, <2>5 DEF OnFreeList
  <2>8. IsInjective(free)
    BY DEF IndexConserved
  <2>9. IsInjective(free')
    BY <2>1, <2>5, <2>6, <2>8 DEF IsInjective, OnFreeList
  <2>10. \A i \in Int : IsClaimed(i)' <=> IsClaimed(i)
    BY <2>1 DEF IsClaimed
  <2> QED
    BY <2>1, <2>2, <2>3, <2>4, <2>6, <2>7, <2>9, <2>10 DEF IndexConserved
<1> QED
  BY <1>1, <1>2, <1>3, <1>4, <1>5

\* free counts the index no more.
LEMMA FreeSubKeeps ==
  ASSUME NoWrap, SlotInv, NEW t \in Threads, FreeSub(t)
  PROVE  SlotInv'
<1> USE DEF SlotInv
<1>1. SlotTypeOK'
  BY BoundsAssumption DEF FreeSub, allocVars, historyVars, Step, Hold, Handle, NoHandle, Freed, SlotTypeOK, Index, Generation, SlotHandle
<1>2. RoomToExtend'
  BY DEF FreeSub, RoomToExtend, Extending, allocVars, historyVars, Step, Hold, Handle, NoHandle, Freed, SlotTypeOK, Index, Generation, SlotHandle
<1>3. Issued'
  BY DEF FreeSub, Issued, Inside, allocVars, historyVars, Step, Hold, Handle, NoHandle, Freed, SlotTypeOK, Index, Generation, SlotHandle
<1>4. GenerationsTell'
  BY DEF FreeSub, GenerationsTell, HasCell, GenerationOf, IsValid, allocVars, historyVars, Step, Hold, Handle, NoHandle, Freed, SlotTypeOK, Index, Generation, SlotHandle
<1>5. IndexConserved'
  BY PlacesFrame DEF FreeSub, Inside, allocVars, historyVars, Step, Hold, Handle, NoHandle, Freed, SlotTypeOK, Index, Generation, SlotHandle
<1> QED
  BY <1>1, <1>2, <1>3, <1>4, <1>5

\* A handle a thread is about to return is not a claim yet.
LEMMA CountedOnce ==
  ASSUME SlotInv, NEW t \in Threads, pc[t] = "count"
  PROVE  hnd[t] \notin claimed
<1>1. hnd[t].index \in Index /\ InTransit(t, hnd[t].index) /\ hnd[t].index < next
  BY DEF SlotInv, SlotTypeOK, SlotHandle, InTransit, Issued, Inside
<1>2. hnd[t].index \in 0 .. next - 1
  BY <1>1 DEF SlotInv, SlotTypeOK, Index
<1>3. ~IsClaimed(hnd[t].index)
  BY <1>1, <1>2 DEF SlotInv, IndexConserved
<1> QED
  BY <1>3 DEF IsClaimed

Freeing == {t \in Threads : pc[t] \in {"push", "sub"}}

\* The live counter follows the claims and the frees under way.
LEMMA LiveCountedStep ==
  ASSUME NoWrap, SlotInv, LiveCounted, NEW t \in Threads,
         \/ AllocPop(t) \/ AllocEmpty(t) \/ AllocExtend(t) \/ AllocRead(t) \/ AllocMissing(t)
         \/ AllocGrow(t) \/ AllocCount(t) \/ FreeLoad(t) \/ FreeLost(t) \/ FreeCas(t)
         \/ FreePush(t) \/ FreeSub(t)
  PROVE  LiveCounted'
<1>1. /\ pc \in [Threads -> {"idle", "extend", "read", "grow", "count", "cas", "push", "sub"}]
      /\ IsFiniteSet(Freeing) /\ IsFiniteSet(claimed) /\ live \in Int
      /\ live = Cardinality(claimed) + Cardinality(Freeing)
  BY BoundsAssumption, FS_Subset DEF SlotInv, SlotTypeOK, RoomToExtend, Freeing, LiveCounted
<1>2. Cardinality(Freeing) \in Nat /\ Cardinality(claimed) \in Nat
  BY <1>1, FS_CardinalityType
<1>3. SUFFICES live' = Cardinality(claimed') + Cardinality(Freeing')
  BY DEF LiveCounted, Freeing
<1>4. CASE AllocCount(t)
  <2>1. Freeing' = Freeing
    BY <1>1, <1>4 DEF AllocCount, Step, Freeing
  <2>2. hnd[t] \notin claimed
    BY <1>4, CountedOnce DEF AllocCount, Step
  <2>3. Cardinality(claimed \cup {hnd[t]}) = Cardinality(claimed) + 1
    BY <1>1, <2>2, FS_AddElement
  <2> QED
    BY <1>1, <1>2, <1>4, <2>1, <2>3 DEF AllocCount
<1>5. CASE FreeCas(t)
  <2>1. hnd[t] \in claimed
    BY <1>5, FreeCasFacts
  <2>2. Freeing' = Freeing \cup {t} /\ t \notin Freeing
    BY <1>1, <1>5 DEF FreeCas, Step, Freeing
  <2>3. Cardinality(claimed \ {hnd[t]}) = Cardinality(claimed) - 1
    BY <1>1, <2>1, FS_RemoveElement
  <2>4. Cardinality(Freeing \cup {t}) = Cardinality(Freeing) + 1
    BY <1>1, <2>2, FS_AddElement
  <2> QED
    BY <1>1, <1>2, <1>5, <2>2, <2>3, <2>4 DEF FreeCas, Freed
<1>6. CASE FreeSub(t)
  <2>1. Freeing' = Freeing \ {t} /\ t \in Freeing
    BY <1>1, <1>6 DEF FreeSub, Step, Freeing
  <2>2. Cardinality(Freeing \ {t}) = Cardinality(Freeing) - 1
    BY <1>1, <2>1, FS_RemoveElement
  <2> QED
    BY <1>1, <1>2, <1>6, <2>1, <2>2 DEF FreeSub, historyVars
<1>7. CASE FreePush(t)
  <2>1. Freeing' = Freeing
    BY <1>1, <1>7 DEF FreePush, Step, Freeing
  <2> QED
    BY <1>1, <1>7, <2>1 DEF FreePush, historyVars
<1>8. CASE AllocPop(t) \/ AllocEmpty(t) \/ AllocExtend(t) \/ AllocRead(t) \/ AllocMissing(t)
           \/ AllocGrow(t) \/ FreeLoad(t) \/ FreeLost(t)
  <2>1. live' = live /\ claimed' = claimed
    BY <1>8 DEF AllocPop, AllocEmpty, AllocExtend, AllocRead, AllocMissing, AllocGrow, FreeLoad,
       FreeLost, allocVars, historyVars
  <2>2. \E a \in {"idle", "extend", "read", "grow", "cas"}, b \in {"idle", "extend", "read", "grow", "count", "cas"} :
            Step(t, a, b)
    BY <1>8 DEF AllocPop, AllocEmpty, AllocExtend, AllocRead, AllocMissing, AllocGrow, FreeLoad, FreeLost
  <2>3. Freeing' = Freeing
    BY <1>1, <2>2 DEF Step, Freeing
  <2> QED
    BY <1>1, <2>1, <2>3
<1> QED
  BY <1>4, <1>5, <1>6, <1>7, <1>8

----------------------------------------------------------------------------
(* The theorems. *)

\* What every thread and every index can rely on, whoever moves next.
THEOREM Inductive == ASSUME NoWrap PROVE Spec => []SlotInv
<1>1. Init => SlotInv
  BY NoWrap, InitSlotInv
<1>2. SlotInv /\ [Next]_slotVars => SlotInv'
  <2> SUFFICES ASSUME SlotInv, [Next]_slotVars PROVE SlotInv'
    OBVIOUS
  <2>1. CASE UNCHANGED slotVars
    BY <2>1 DEF slotVars, SlotInv, SlotTypeOK, RoomToExtend, Extending, Issued, Inside, GenerationsTell,
       IsValid, HasCell, GenerationOf, IndexConserved, OnFreeList, InTransit, IsClaimed
  <2>2. ASSUME NEW t \in Threads, FreeRejected(t) PROVE UNCHANGED slotVars
    BY <2>2 DEF FreeRejected
  <2> QED
    BY <2>1, <2>2, NoWrap, AllocPopKeeps, AllocEmptyKeeps, AllocExtendKeeps, AllocReadKeeps, AllocMissingKeeps,
       AllocGrowKeeps, AllocCountKeeps, FreeLoadKeeps, FreeLostKeeps, FreeCasKeeps, FreePushKeeps,
       FreeSubKeeps DEF Next
<1> QED
  BY <1>1, <1>2, PTL DEF Spec

\* Every variable keeps its type (the generations keep the cells of everything
\* returned) in every behaviour of alloc and free.
THEOREM TypesHold == ASSUME NoWrap PROVE Spec => []SlotTypeOK
<1>1. SlotInv => SlotTypeOK
  BY DEF SlotInv
<1> QED
  BY <1>1, Inductive, PTL

\* However many threads race in alloc and free, no index is ever live twice,
\* pushed twice or lost, short of a wrap of its generation.
THEOREM NoIndexTwice == ASSUME NoWrap PROVE Spec => []IndexConserved
<1>1. SlotInv => IndexConserved
  BY DEF SlotInv
<1> QED
  BY <1>1, Inductive, PTL

\* is_valid tells the live claims from the freed handles exactly, short of a
\* wrap of the index's generation.
THEOREM StaleNeverValid == ASSUME NoWrap PROVE Spec => []StaleDetected
<1>1. SlotInv => StaleDetected
  <2> SUFFICES ASSUME SlotInv PROVE StaleDetected
    OBVIOUS
  <2>1. ASSUME NEW h \in stale PROVE ~IsValid(h)
    <3>1. h \in SlotHandle /\ h.generation < GenerationOf(h.index)
      BY DEF SlotInv, SlotTypeOK, GenerationsTell
    <3>2. h.generation \in Int
      BY <3>1 DEF SlotHandle, Generation
    <3> QED
      BY <3>1, <3>2 DEF IsValid
  <2> QED
    BY <2>1 DEF SlotInv, GenerationsTell, StaleDetected
<1> QED
  BY <1>1, Inductive, PTL

\* The counter of live_count is exactly the claims and the frees that are past
\* their compare-and-swap, and so never below zero, short of a wrap.
THEOREM LiveCountExact == ASSUME NoWrap PROVE Spec => []LiveCounted
<1>1. Init => LiveCounted
  <2> SUFFICES ASSUME Init PROVE LiveCounted
    OBVIOUS
  <2>1. {t \in Threads : pc[t] \in {"push", "sub"}} = {}
    BY DEF Init
  <2>2. Cardinality({}) = 0
    BY FS_EmptySet
  <2>3. live = 0 /\ claimed = {}
    BY DEF Init
  <2> QED
    BY <2>1, <2>2, <2>3 DEF LiveCounted
<1>2. SlotInv /\ LiveCounted /\ [Next]_slotVars => LiveCounted'
  <2> SUFFICES ASSUME SlotInv, LiveCounted, [Next]_slotVars PROVE LiveCounted'
    OBVIOUS
  <2>1. CASE UNCHANGED slotVars
    BY <2>1 DEF slotVars, LiveCounted
  <2>2. ASSUME NEW t \in Threads, FreeRejected(t) PROVE LiveCounted'
    BY <2>2 DEF FreeRejected, slotVars, LiveCounted
  <2>3. CASE Next
    <3>1. PICK t \in Threads :
              \/ AllocPop(t) \/ AllocEmpty(t) \/ AllocExtend(t) \/ AllocRead(t) \/ AllocMissing(t)
              \/ AllocGrow(t) \/ AllocCount(t) \/ FreeRejected(t) \/ FreeLoad(t) \/ FreeLost(t)
              \/ FreeCas(t) \/ FreePush(t) \/ FreeSub(t)
      BY <2>3 DEF Next
    <3> QED
      BY <2>2, <3>1, NoWrap, LiveCountedStep
  <2> QED
    BY <2>1, <2>3
<1> QED
  BY <1>1, <1>2, Inductive, PTL DEF Spec

----------------------------------------------------------------------------
(* RangeList.                                                              *)

\* A free list over [0, n): spans of their own, none empty unless there is no
\* room at all.
IsSoundList(gaps, n) ==
  /\ gaps \subseteq Span
  /\ \A s \in gaps : End(s) <= n /\ (s.len = 0 => n = 0)
  /\ \A s, u \in gaps : s # u => End(s) <= u.off \/ End(u) <= s.off

\* Rounding up goes to a multiple and by less than one step.
LEMMA AlignUpBounds ==
  ASSUME NEW x \in Nat, NEW align \in Nat \ {0}
  PROVE  /\ AlignUp(x, align) \in Nat
         /\ x <= AlignUp(x, align) /\ AlignUp(x, align) < x + align
         /\ \E k \in Nat : AlignUp(x, align) = k * align
<1> DEFINE y == x + align - 1
           k == y \div align
<1>1. y \in Nat
  OBVIOUS
<1>2. k \in Nat /\ y % align \in 0 .. align - 1 /\ y = align * k + (y % align)
  BY <1>1
<1>3. AlignUp(x, align) = k * align
  BY DEF AlignUp
<1>4. k * align \in Nat /\ align * k = k * align
  BY <1>2
<1> DEFINE m == k * align
<1>5. m \in Nat /\ m <= y /\ y < m + align
  <2>1. m \in Nat /\ y = m + (y % align)
    BY <1>2, <1>4
  <2> HIDE DEF m
  <2> QED
    BY <1>1, <1>2, <2>1
<1>6. x <= m /\ m < x + align
  <2> HIDE DEF m
  <2> QED
    BY <1>5
<1> QED
  BY <1>2, <1>3, <1>5, <1>6

\* The first span that fits, when one does.
LEMMA FirstFits ==
  ASSUME NEW gaps \in SUBSET Span, NEW len \in Nat, NEW align \in Nat \ {0},
         Fitting(gaps, len, align) # {}
  PROVE  FirstFit(gaps, len, align) \in Fitting(gaps, len, align)
<1> DEFINE F == Fitting(gaps, len, align)
           offs == {s.off : s \in F}
<1>1. F \subseteq Span
  BY DEF Fitting
<1>2. offs \subseteq Nat /\ offs # {}
  BY <1>1 DEF Span
<1>3. Min(offs) \in offs /\ \A p \in offs : Min(offs) <= p
  <2> HIDE DEF offs
  <2> QED
    BY <1>2, LeastIsIn
<1>4. \E s \in F : \A u \in F : s.off <= u.off
  BY <1>3
<1> QED
  BY <1>4 DEF FirstFit

\* A unit is covered when one of the spans has it.
LEMMA UnitsCovered ==
  ASSUME NEW S, NEW i
  PROVE  i \in Covered(S) <=> \E s \in S : i \in s.off .. (s.off + s.len - 1)
BY DEF Covered, Units

\* RangeList::alloc takes its units out of the free ones and nothing else.
LEMMA AllocTakes ==
  ASSUME NEW n \in Nat, NEW gaps, IsSoundList(gaps, n), NEW len \in Nat, NEW align \in Nat \ {0},
         Fitting(gaps, len, align) # {}
  PROVE  LET at == AllocOffset(gaps, len, align)
         IN /\ at \in Nat /\ at + len <= n
            /\ \E k \in Nat : at = k * align
            /\ at .. (at + len - 1) \subseteq Covered(gaps)
            /\ IsSoundList(AfterAlloc(gaps, len, align), n)
            /\ Covered(AfterAlloc(gaps, len, align)) = Covered(gaps) \ (at .. (at + len - 1))
<1> DEFINE at == AllocOffset(gaps, len, align)
           s == FirstFit(gaps, len, align)
           pad == SpanOf(s.off, at - s.off)
           tail == SpanOf(at + len, End(s) - (at + len))
           rest == (gaps \ {s}) \cup NonEmpty({pad, tail})
<1>1. s \in gaps /\ s \in Span /\ Fits(s, len, align)
  <2>1. gaps \subseteq Span
    BY DEF IsSoundList
  <2> QED
    BY <2>1, FirstFits DEF Fitting
<1>2. at = AlignUp(s.off, align) /\ AfterAlloc(gaps, len, align) = rest
  BY DEF AllocOffset, AfterAlloc
<1>3. /\ s.off \in Nat /\ s.len \in Nat /\ at \in Nat /\ s.off <= at
      /\ \E k \in Nat : at = k * align
  BY <1>1, <1>2, AlignUpBounds DEF Span
<1>4. at + len <= s.off + s.len /\ s.off + s.len <= n
  BY <1>1, <1>2, <1>3 DEF Fits, Pad, IsSoundList, End
<1> HIDE DEF at, s
<1>5. /\ pad.off = s.off /\ pad.len = at - s.off /\ pad \in Span
      /\ tail.off = at + len /\ tail.len = s.off + s.len - (at + len) /\ tail \in Span
  BY <1>3, <1>4 DEF SpanOf, Span, End
<1> HIDE DEF pad, tail
<1>6. \A u \in rest : \/ u \in gaps /\ u # s
                      \/ u = pad /\ u.len > 0
                      \/ u = tail /\ u.len > 0
  BY DEF NonEmpty
<1>7. \A u \in gaps : u \in Span /\ u.off \in Nat /\ u.len \in Nat
  BY DEF IsSoundList, Span
<1>8. \A u \in gaps : u # s => u.off + u.len <= s.off \/ s.off + s.len <= u.off
  BY <1>1, <1>7 DEF IsSoundList, End
<1>9. IsSoundList(rest, n)
  <2>1. rest \subseteq Span
    BY <1>5, <1>6, <1>7
  <2>2. \A u \in rest : End(u) <= n /\ (u.len = 0 => n = 0)
    BY <1>3, <1>4, <1>5, <1>6, <1>7 DEF IsSoundList, End
  <2>3. ASSUME NEW u \in rest, NEW v \in rest, u # v
        PROVE  End(u) <= v.off \/ End(v) <= u.off
    <3>1. CASE u \in gaps /\ v \in gaps
      BY <2>3, <3>1 DEF IsSoundList
    <3>2. CASE u \in gaps /\ u # s /\ v \in {pad, tail}
      BY <1>3, <1>4, <1>5, <1>7, <1>8, <3>2 DEF End
    <3>3. CASE v \in gaps /\ v # s /\ u \in {pad, tail}
      BY <1>3, <1>4, <1>5, <1>7, <1>8, <3>3 DEF End
    <3>4. CASE u \in {pad, tail} /\ v \in {pad, tail}
      BY <1>3, <1>4, <1>5, <2>3, <3>4 DEF End
    <3> QED
      BY <1>6, <3>1, <3>2, <3>3, <3>4
  <2> QED
    BY <2>1, <2>2, <2>3 DEF IsSoundList
<1>10. at .. (at + len - 1) \subseteq s.off .. (s.off + s.len - 1)
  BY <1>3, <1>4
<1>11. at .. (at + len - 1) \subseteq Covered(gaps)
  BY <1>1, <1>10, UnitsCovered
<1>12. ASSUME NEW i
       PROVE  i \in Covered(rest) <=> i \in Covered(gaps) /\ i \notin at .. (at + len - 1)
  <2>1. ASSUME i \in Covered(rest)
        PROVE  i \in Covered(gaps) /\ i \notin at .. (at + len - 1)
    <3>1. PICK u \in rest : i \in u.off .. (u.off + u.len - 1)
      BY <2>1, UnitsCovered
    <3>2. CASE u \in gaps /\ u # s
      <4>1. i \in Covered(gaps)
        BY <3>1, <3>2, UnitsCovered
      <4> QED
        BY <1>3, <1>4, <1>7, <1>8, <3>1, <3>2, <4>1
    <3>3. CASE u \in {pad, tail}
      <4>1. i \in s.off .. (s.off + s.len - 1) /\ i \notin at .. (at + len - 1)
        BY <1>3, <1>4, <1>5, <3>1, <3>3
      <4> QED
        BY <1>1, <4>1, UnitsCovered
    <3> QED
      BY <1>6, <3>2, <3>3
  <2>2. ASSUME i \in Covered(gaps), i \notin at .. (at + len - 1)
        PROVE  i \in Covered(rest)
    <3>1. PICK u \in gaps : i \in u.off .. (u.off + u.len - 1)
      BY <2>2, UnitsCovered
    <3>2. CASE u # s
      BY <3>1, <3>2, UnitsCovered
    <3>3. CASE u = s
      <4>1. \/ i \in pad.off .. (pad.off + pad.len - 1) /\ pad.len > 0
            \/ i \in tail.off .. (tail.off + tail.len - 1) /\ tail.len > 0
        BY <1>3, <1>4, <1>5, <2>2, <3>1, <3>3
      <4>2. (pad.len > 0 => pad \in rest) /\ (tail.len > 0 => tail \in rest)
        BY DEF NonEmpty
      <4> QED
        BY <4>1, <4>2, UnitsCovered
    <3> QED
      BY <3>2, <3>3
  <2> QED
    BY <2>1, <2>2
<1>13. Covered(rest) = Covered(gaps) \ (at .. (at + len - 1))
  BY <1>12
<1>14. at + len <= n
  BY <1>3, <1>4
<1> QED
  BY <1>2, <1>3, <1>9, <1>11, <1>13, <1>14 DEF at

\* RangeList::free gives back exactly the units it is given.
LEMMA FreeGives ==
  ASSUME NEW n \in Nat, NEW gaps, IsSoundList(gaps, n), NEW off \in Nat, NEW len \in Nat,
         off + len <= n, (off .. (off + len - 1)) \cap Covered(gaps) = {}
  PROVE  /\ IsSoundList(AfterFree(gaps, off, len), n)
         /\ Covered(AfterFree(gaps, off, len)) = Covered(gaps) \cup (off .. (off + len - 1))
<1>1. CASE len = 0
  <2>1. off .. (off + len - 1) = {}
    BY <1>1
  <2> QED
    BY <1>1, <2>1 DEF AfterFree
<1>2. CASE len > 0
  <2> DEFINE succ == {s \in gaps : s.off = off + len}
             prev == {s \in gaps : End(s) = off}
             lo == IF prev = {} THEN off ELSE (CHOOSE s \in prev : TRUE).off
             hi == IF succ = {} THEN off + len ELSE End(CHOOSE s \in succ : TRUE)
             joined == SpanOf(lo, hi - lo)
             rest == (gaps \ (succ \cup prev)) \cup {joined}
  <2>1. AfterFree(gaps, off, len) = rest
    BY <1>2 DEF AfterFree
  <2>2. \A u \in gaps : u \in Span /\ u.off \in Nat /\ u.len \in Nat \ {0} /\ u.off + u.len <= n
    BY <1>2 DEF IsSoundList, Span, End
  <2>3. \A u, v \in gaps : u # v => u.off + u.len <= v.off \/ v.off + v.len <= u.off
    BY DEF IsSoundList, End
  <2>4. \A u \in gaps : u.off + u.len <= off \/ off + len <= u.off
    <3> SUFFICES ASSUME NEW u \in gaps, off < u.off + u.len, u.off < off + len
                 PROVE  FALSE
      BY <2>2
    <3> DEFINE i == IF u.off <= off THEN off ELSE u.off
    <3>1. i \in off .. (off + len - 1) /\ i \in u.off .. (u.off + u.len - 1)
      BY <1>2, <2>2
    <3> QED
      BY <3>1, UnitsCovered
  <2>5. \/ prev = {} /\ lo = off
        \/ \E p \in gaps : prev = {p} /\ lo = p.off /\ p.off + p.len = off
    <3>1. CASE prev = {}
      BY <3>1
    <3>2. CASE prev # {}
      <4>1. PICK p \in prev : TRUE
        BY <3>2
      <4>2. \A q \in prev : q = p
        BY <2>2, <2>3, <4>1 DEF End
      <4>3. prev = {p}
        BY <4>1, <4>2
      <4>4. lo = p.off
        BY <3>2, <4>2
      <4> QED
        BY <4>1, <4>3, <4>4 DEF End
    <3> QED
      BY <3>1, <3>2
  <2>6. \/ succ = {} /\ hi = off + len
        \/ \E q \in gaps : succ = {q} /\ hi = q.off + q.len /\ q.off = off + len
    <3>1. CASE succ = {}
      BY <3>1
    <3>2. CASE succ # {}
      <4>1. PICK q \in succ : TRUE
        BY <3>2
      <4>2. \A p \in succ : p = q
        BY <2>2, <2>3, <4>1
      <4>3. succ = {q}
        BY <4>1, <4>2
      <4>4. hi = End(q)
        BY <3>2, <4>2
      <4> QED
        BY <4>1, <4>3, <4>4 DEF End
    <3> QED
      BY <3>1, <3>2
  <2>7. /\ lo \in Nat /\ hi \in Nat /\ lo <= off /\ off + len <= hi /\ hi <= n
        /\ \A u \in gaps : u.off + u.len <= lo \/ off <= u.off \/ u \in prev
        /\ \A u \in gaps : hi <= u.off \/ u.off + u.len <= off + len \/ u \in succ
    <3>1. /\ lo \in Nat /\ lo <= off
          /\ \A u \in gaps : u.off + u.len <= lo \/ off <= u.off \/ u \in prev
      <4>1. CASE prev = {} /\ lo = off
        <5> HIDE DEF lo, prev
        <5> QED
          BY <2>2, <2>4, <1>2, <4>1
      <4>2. ASSUME NEW p \in gaps, prev = {p}, lo = p.off, p.off + p.len = off
            PROVE  /\ lo \in Nat /\ lo <= off
                   /\ \A u \in gaps : u.off + u.len <= lo \/ off <= u.off \/ u \in prev
        <5> HIDE DEF lo, prev
        <5> QED
          BY <2>2, <2>3, <2>4, <4>2
      <4> QED
        BY <2>5, <4>1, <4>2
    <3>2. /\ hi \in Nat /\ off + len <= hi /\ hi <= n
          /\ \A u \in gaps : hi <= u.off \/ u.off + u.len <= off + len \/ u \in succ
      <4>1. CASE succ = {} /\ hi = off + len
        <5> HIDE DEF hi, succ
        <5> QED
          BY <2>2, <2>4, <1>2, <4>1
      <4>2. ASSUME NEW q \in gaps, succ = {q}, hi = q.off + q.len, q.off = off + len
            PROVE  /\ hi \in Nat /\ off + len <= hi /\ hi <= n
                   /\ \A u \in gaps : hi <= u.off \/ u.off + u.len <= off + len \/ u \in succ
        <5> HIDE DEF hi, succ
        <5> QED
          BY <2>2, <2>3, <2>4, <4>2
      <4> QED
        BY <2>6, <4>1, <4>2
    <3> QED
      BY <3>1, <3>2
  <2>8. joined.off = lo /\ joined.len = hi - lo /\ joined \in Span /\ joined.len > 0
    <3> HIDE DEF lo, hi
    <3> QED
      BY <1>2, <2>7 DEF SpanOf, Span
  <2>9. \A u \in gaps \ (succ \cup prev) : u.off + u.len <= lo \/ hi <= u.off
    <3> HIDE DEF lo, hi, succ, prev
    <3> QED
      BY <1>2, <2>2, <2>4, <2>7
  <2>10. IsSoundList(rest, n)
    <3> HIDE DEF lo, hi, succ, prev, joined
    <3>1. \A u \in rest : u = joined \/ u \in gaps \ (succ \cup prev)
      OBVIOUS
    <3>2. \A u \in rest : u \in Span /\ End(u) <= n /\ u.len # 0
      BY <2>2, <2>7, <2>8, <3>1 DEF End
    <3>3. \A u, v \in rest : u # v => End(u) <= v.off \/ End(v) <= u.off
      BY <2>2, <2>3, <2>7, <2>8, <2>9, <3>1 DEF End
    <3> QED
      BY <3>2, <3>3 DEF IsSoundList
  <2>11. ASSUME NEW i
         PROVE  i \in Covered(rest) <=> i \in Covered(gaps) \/ i \in off .. (off + len - 1)
    <3>1. (\E u \in prev : i \in u.off .. (u.off + u.len - 1)) <=> i \in lo .. (off - 1)
      <4>1. CASE prev = {} /\ lo = off
        <5> HIDE DEF lo, prev
        <5> QED
          BY <4>1
      <4>2. ASSUME NEW p \in gaps, prev = {p}, lo = p.off, p.off + p.len = off
            PROVE  (\E u \in prev : i \in u.off .. (u.off + u.len - 1)) <=> i \in lo .. (off - 1)
        <5> HIDE DEF lo, prev
        <5> QED
          BY <2>2, <4>2
      <4> QED
        BY <2>5, <4>1, <4>2
    <3>2. (\E u \in succ : i \in u.off .. (u.off + u.len - 1)) <=> i \in (off + len) .. (hi - 1)
      <4>1. CASE succ = {} /\ hi = off + len
        <5> HIDE DEF hi, succ
        <5> QED
          BY <4>1
      <4>2. ASSUME NEW q \in gaps, succ = {q}, hi = q.off + q.len, q.off = off + len
            PROVE  (\E u \in succ : i \in u.off .. (u.off + u.len - 1)) <=> i \in (off + len) .. (hi - 1)
        <5> HIDE DEF hi, succ
        <5> QED
          BY <2>2, <4>2
      <4> QED
        BY <2>6, <4>1, <4>2
    <3>3. i \in lo .. (hi - 1) <=> \/ i \in lo .. (off - 1) \/ i \in off .. (off + len - 1)
                                   \/ i \in (off + len) .. (hi - 1)
      <4> HIDE DEF lo, hi
      <4> QED
        BY <2>7
    <3>4. prev \subseteq gaps /\ succ \subseteq gaps
      OBVIOUS
    <3>5. i \in lo .. (hi - 1) <=> i \in joined.off .. (joined.off + joined.len - 1)
      <4> HIDE DEF lo, hi, joined
      <4> QED
        BY <2>7, <2>8
    <3> HIDE DEF lo, hi, succ, prev, joined
    <3>6. i \in Covered(rest) <=> \/ \E u \in gaps \ (succ \cup prev) : i \in u.off .. (u.off + u.len - 1)
                                  \/ i \in joined.off .. (joined.off + joined.len - 1)
      BY UnitsCovered
    <3>7. i \in Covered(gaps) <=> \/ \E u \in gaps \ (succ \cup prev) : i \in u.off .. (u.off + u.len - 1)
                                  \/ \E u \in prev : i \in u.off .. (u.off + u.len - 1)
                                  \/ \E u \in succ : i \in u.off .. (u.off + u.len - 1)
      BY <3>4, UnitsCovered
    <3> QED
      BY <3>1, <3>2, <3>3, <3>5, <3>6, <3>7
  <2> HIDE DEF rest
  <2>12. Covered(rest) = Covered(gaps) \cup (off .. (off + len - 1))
    BY <2>11
  <2> QED
    BY <2>1, <2>10, <2>12
<1> QED
  BY <1>1, <1>2

\* RangeList::extend_total frees the units that were not there.
LEMMA ExtendGives ==
  ASSUME NEW n \in Nat, NEW m \in Nat, n <= m, NEW gaps, IsSoundList(gaps, n)
  PROVE  /\ IsSoundList(AfterExtend(gaps, n, m), m)
         /\ Covered(AfterExtend(gaps, n, m)) = Covered(gaps) \cup (n .. (m - 1))
<1>1. CASE m = n
  <2>1. n .. (m - 1) = {}
    BY <1>1
  <2> QED
    BY <1>1, <2>1 DEF AfterExtend
<1>2. CASE m > n
  <2> DEFINE last == {s \in gaps : End(s) = n}
  <2>1. \A u \in gaps : u \in Span /\ u.off \in Nat /\ u.len \in Nat /\ u.off + u.len <= n
                        /\ (u.len = 0 => n = 0)
    BY DEF IsSoundList, Span, End
  <2>2. \A u, v \in gaps : u # v => u.off + u.len <= v.off \/ v.off + v.len <= u.off
    BY DEF IsSoundList, End
  <2>3. CASE last = {}
    <3> DEFINE new == SpanOf(n, m - n)
    <3>1. AfterExtend(gaps, n, m) = gaps \cup {new}
      BY <1>2, <2>3 DEF AfterExtend
    <3>2. new \in Span /\ new.off = n /\ new.len = m - n /\ new.len > 0
      BY <1>2 DEF Span, SpanOf
    <3> HIDE DEF new
    <3>3. \A u \in gaps : u.off + u.len < n /\ u.len > 0
      BY <2>1, <2>3 DEF End
    <3>4. IsSoundList(gaps \cup {new}, m)
      <4>1. \A u \in gaps \cup {new} : u \in Span /\ End(u) <= m /\ u.len # 0
        BY <1>2, <2>1, <3>2, <3>3 DEF End
      <4>2. \A u, v \in gaps \cup {new} : u # v => End(u) <= v.off \/ End(v) <= u.off
        BY <2>1, <2>2, <3>2, <3>3 DEF End
      <4> QED
        BY <4>1, <4>2 DEF IsSoundList
    <3>5. \A i : i \in Covered(gaps \cup {new}) <=> i \in Covered(gaps) \/ i \in n .. (m - 1)
      <4>1. n + (m - n) - 1 = m - 1
        OBVIOUS
      <4> QED
        BY <3>2, <4>1, UnitsCovered
    <3>6. Covered(gaps \cup {new}) = Covered(gaps) \cup (n .. (m - 1))
      BY <3>5
    <3> QED
      BY <3>1, <3>4, <3>6
  <2>4. CASE last # {}
    <3>1. PICK p \in last : TRUE
      BY <2>4
    <3>2. \A q \in last : q = p
      <4> SUFFICES ASSUME NEW q \in last, q # p PROVE FALSE
        OBVIOUS
      <4>1. p \in gaps /\ q \in gaps /\ p.off + p.len = n /\ q.off + q.len = n
        BY <3>1 DEF End
      <4>2. p.len = 0 \/ q.len = 0
        BY <2>1, <2>2, <4>1
      <4>3. p.off = 0 /\ q.off = 0 /\ p.len = 0 /\ q.len = 0
        <5>1. n = 0
          BY <2>1, <4>1, <4>2
        <5> QED
          BY <2>1, <4>1, <5>1
      <4> QED
        BY <2>1, <4>1, <4>3 DEF Span
    <3> DEFINE new == SpanOf(p.off, m - p.off)
    <3>3. AfterExtend(gaps, n, m) = (gaps \ {p}) \cup {new}
      <4>0. m # n
        BY <1>2
      <4>1. (CHOOSE u \in last : TRUE) = p
        BY <3>1, <3>2
      <4> QED
        BY <4>0, <2>4, <4>1, Zenon DEF AfterExtend
    <3>4. p \in gaps /\ p.off \in Nat /\ p.len \in Nat /\ p.off + p.len = n
      BY <2>1, <3>1 DEF End
    <3>5. new \in Span /\ new.off = p.off /\ new.len = m - p.off /\ new.len > 0
      BY <1>2, <3>4 DEF Span, SpanOf
    <3> HIDE DEF new
    <3>6. \A u \in gaps \ {p} : u.off + u.len <= p.off
      <4> SUFFICES ASSUME NEW u \in gaps, u # p, ~(u.off + u.len <= p.off) PROVE FALSE
        OBVIOUS
      <4>1. p.off + p.len <= u.off
        BY <2>2, <3>4
      <4>2. u.off + u.len = n /\ u.len = 0
        BY <2>1, <3>4, <4>1
      <4>3. u \in last
        BY <4>2 DEF End
      <4> QED
        BY <3>2, <4>3
    <3>6a. \A u \in gaps \ {p} : u.len # 0
      <4> SUFFICES ASSUME NEW u \in gaps, u # p, u.len = 0 PROVE FALSE
        OBVIOUS
      <4>1. n = 0 /\ u.off + u.len = n
        BY <2>1
      <4> QED
        BY <3>2, <4>1 DEF End
    <3>7. IsSoundList((gaps \ {p}) \cup {new}, m)
      <4>1. \A u \in (gaps \ {p}) \cup {new} : u \in Span /\ End(u) <= m /\ u.len # 0
        BY <1>2, <2>1, <3>4, <3>5, <3>6a DEF End
      <4>2. \A u, v \in (gaps \ {p}) \cup {new} : u # v => End(u) <= v.off \/ End(v) <= u.off
        BY <2>1, <2>2, <3>5, <3>6 DEF End
      <4> QED
        BY <4>1, <4>2 DEF IsSoundList
    <3>8. ASSUME NEW i
          PROVE  i \in Covered((gaps \ {p}) \cup {new}) <=> i \in Covered(gaps) \/ i \in n .. (m - 1)
      <4>1. i \in new.off .. (new.off + new.len - 1)
              <=> i \in p.off .. (p.off + p.len - 1) \/ i \in n .. (m - 1)
        BY <1>2, <3>4, <3>5
      <4>2. i \in Covered((gaps \ {p}) \cup {new})
              <=> \/ \E u \in gaps \ {p} : i \in u.off .. (u.off + u.len - 1)
                  \/ i \in new.off .. (new.off + new.len - 1)
        BY UnitsCovered
      <4>3. i \in Covered(gaps)
              <=> \/ \E u \in gaps \ {p} : i \in u.off .. (u.off + u.len - 1)
                  \/ i \in p.off .. (p.off + p.len - 1)
        BY <3>4, UnitsCovered
      <4> QED
        BY <4>1, <4>2, <4>3
    <3>9. Covered((gaps \ {p}) \cup {new}) = Covered(gaps) \cup (n .. (m - 1))
      BY <3>8
    <3> QED
      BY <3>3, <3>7, <3>9
  <2> QED
    BY <2>3, <2>4
<1> QED
  BY <1>1, <1>2

\* RangeList::new: everything is free.
LEMMA NewRangeSound ==
  ASSUME NEW n \in Nat
  PROVE  IsSoundList(NewRange(n), n) /\ Covered(NewRange(n)) = 0 .. (n - 1)
<1>1. NewRange(n) = {SpanOf(0, n)} /\ SpanOf(0, n) \in Span
      /\ SpanOf(0, n).off = 0 /\ SpanOf(0, n).len = n
  BY DEF NewRange, SpanOf, Span
<1>2. \A i : i \in Covered(NewRange(n)) <=> i \in 0 .. (n - 1)
  BY <1>1, UnitsCovered
<1>3. Covered(NewRange(n)) = 0 .. (n - 1)
  BY <1>2
<1>4. IsSoundList(NewRange(n), n)
  BY <1>1 DEF IsSoundList, End
<1> QED
  BY <1>3, <1>4

\* Doubling reaches what is asked for.
LEMMA DoubledCovers ==
  ASSUME NEW cap \in Nat, NEW min \in Nat
  PROVE  Doubled(cap, min) \in Nat /\ min <= Doubled(cap, min)
<1> DEFINE one == IF cap = 0 THEN 1 ELSE cap
<1>1. one \in Nat \ {0}
  OBVIOUS
<1> HIDE DEF one
<1>2. Doubled(cap, min) = Min({n \in {one * 2 ^ k : k \in 0 .. min} : n >= min})
  BY DEF Doubled, Min, one
<1> QED
  BY <1>1, <1>2, DoublingReaches

---------------------------------------------------------------------------
(* VarLenPool.                                                             *)

Aligned(x) == \E k \in Nat : x = k * ElemAlign

\* Every free span starts where a payload may.
IsPool(p) ==
  /\ p = [cap |-> p.cap, free |-> p.free, mem |-> p.mem] /\ p.cap \in Nat
  /\ IsSoundList(p.free, p.cap) /\ \A s \in p.free : Aligned(s.off)
  /\ p.mem = [i \in 0 .. p.cap - 1 |-> p.mem[i]]

IsPlace(h, n) ==
  /\ h.offset \in Nat /\ h.count \in Nat /\ Aligned(h.offset)
  /\ h.offset + PaddedLen(h.count) <= n

\* The owners' ranges and the free spans share the pool out.
Shares(p, own) ==
  /\ \A o \in DOMAIN own : IsPlace(own[o], p.cap)
  /\ \A o, u \in DOMAIN own : o # u => OwnedRows(own[o]) \cap OwnedRows(own[u]) = {}
  /\ \A i : i \in Covered(p.free) <=>
              i \in 0 .. p.cap - 1 /\ ~\E o \in DOMAIN own : i \in OwnedRows(own[o])

Says(p, own, said) ==
  \A o \in DOMAIN own : own[o].count > 0 =>
    o \in DOMAIN said /\ ReadRange(p, own[o]) = said[o]

IsPayload(data) == Len(data) \in Nat /\ data = [i \in 1 .. Len(data) |-> data[i]]

\* Aligned numbers are closed under addition.
LEMMA AlignedSum ==
  ASSUME NEW x, NEW y, Aligned(x), Aligned(y)
  PROVE  x + y \in Nat /\ Aligned(x + y)
<1>1. PICK j \in Nat : x = j * ElemAlign
  BY DEF Aligned
<1>2. PICK k \in Nat : y = k * ElemAlign
  BY DEF Aligned
<1>3. x + y = (j + k) * ElemAlign /\ x + y \in Nat
  <2>1. CASE ElemAlign = 1
    BY <1>1, <1>2, <2>1
  <2>2. CASE ElemAlign = 2
    BY <1>1, <1>2, <2>2
  <2>3. CASE ElemAlign = 4
    BY <1>1, <1>2, <2>3
  <2> QED
    BY <2>1, <2>2, <2>3, PoolAssumption
<1>4. j + k \in Nat
  OBVIOUS
<1> QED
  BY <1>3, <1>4 DEF Aligned

\* Padding goes to the next boundary, and no further when there is one.
LEMMA PaddedBounds ==
  ASSUME NEW n \in Nat
  PROVE  /\ PaddedLen(n) \in Nat /\ n <= PaddedLen(n) /\ Aligned(PaddedLen(n))
         /\ PaddedLen(0) = 0
         /\ Aligned(n) => AlignUp(n, ElemAlign) = n
<1>1. ElemAlign \in Nat \ {0}
  BY PoolAssumption
<1>2. /\ AlignUp(n, ElemAlign) \in Nat /\ n <= AlignUp(n, ElemAlign)
      /\ AlignUp(n, ElemAlign) < n + ElemAlign
      /\ \E k \in Nat : AlignUp(n, ElemAlign) = k * ElemAlign
  BY <1>1, AlignUpBounds
<1>3. Aligned(n) => AlignUp(n, ElemAlign) = n
  <2> SUFFICES ASSUME NEW j \in Nat, n = j * ElemAlign
               PROVE  AlignUp(n, ElemAlign) = n
    BY DEF Aligned
  <2>1. PICK k \in Nat : AlignUp(n, ElemAlign) = k * ElemAlign
    BY <1>2
  <2>2. CASE ElemAlign = 1
    BY <1>2, <2>1, <2>2
  <2>3. CASE ElemAlign = 2
    BY <1>2, <2>1, <2>3
  <2>4. CASE ElemAlign = 4
    BY <1>2, <2>1, <2>4
  <2> QED
    BY <2>2, <2>3, <2>4, PoolAssumption
<1>4. PaddedLen(0) = 0
  <2>1. CASE ElemAlign = 1
    BY <2>1 DEF PaddedLen, AlignUp
  <2>2. CASE ElemAlign = 2
    BY <2>2 DEF PaddedLen, AlignUp
  <2>3. CASE ElemAlign = 4
    BY <2>3 DEF PaddedLen, AlignUp
  <2> QED
    BY <2>1, <2>2, <2>3, PoolAssumption
<1> QED
  BY <1>2, <1>3, <1>4 DEF PaddedLen, Aligned

\* Nobody owns a row through an empty range.
LEMMA EmptyOwnsNothing ==
  ASSUME NEW h, h.count = 0, h.offset \in Nat
  PROVE  OwnedRows(h) = {}
<1>1. PaddedLen(h.count) = 0
  BY PaddedBounds
<1> QED
  BY <1>1 DEF OwnedRows

\* A release gives back what one owner had.
LEMMA ReleaseGives ==
  ASSUME NEW p, NEW own, IsPool(p), Shares(p, own), NEW o \in DOMAIN own
  PROVE  /\ IsPool(Release(p, own[o]))
         /\ Shares(Release(p, own[o]), Forgotten(own, o))
         /\ Release(p, own[o]).mem = p.mem /\ Release(p, own[o]).cap = p.cap
<1> DEFINE h == own[o]
           len == PaddedLen(h.count)
           q == Release(p, h)
           rest == Forgotten(own, o)
<1>1. /\ h.offset \in Nat /\ h.count \in Nat /\ Aligned(h.offset)
      /\ h.offset + len <= p.cap /\ len \in Nat /\ Aligned(len)
      /\ p.cap \in Nat /\ (h.count > 0 => len > 0)
  BY PaddedBounds DEF Shares, IsPlace, IsPool
<1>2. DOMAIN rest = DOMAIN own \ {o} /\ \A u \in DOMAIN rest : rest[u] = own[u]
  BY DEF Forgotten
<1>3. CASE h.count = 0
  <2>1. q = p
    BY <1>3 DEF Release
  <2>2. OwnedRows(h) = {}
    BY <1>1, <1>3, EmptyOwnsNothing
  <2>3. Shares(p, rest)
    <3> HIDE DEF rest
    <3> QED
      BY <1>2, <2>2 DEF Shares
  <2> QED
    BY <2>1, <2>3
<1>4. CASE h.count # 0
  <2>1. q = [p EXCEPT !.free = AfterFree(p.free, h.offset, len)]
    BY <1>4 DEF Release
  <2>2. /\ q = [cap |-> q.cap, free |-> q.free, mem |-> q.mem]
        /\ q.cap = p.cap /\ q.mem = p.mem /\ q.free = AfterFree(p.free, h.offset, len)
    BY <2>1 DEF IsPool
  <2> HIDE DEF q
  <2>3. OwnedRows(h) = h.offset .. (h.offset + len - 1)
    BY DEF OwnedRows
  <2> HIDE DEF h, len
  <2>4. (h.offset .. (h.offset + len - 1)) \cap Covered(p.free) = {}
    BY <2>3 DEF Shares, h
  <2>5. /\ IsSoundList(q.free, p.cap)
        /\ Covered(q.free) = Covered(p.free) \cup OwnedRows(h)
    BY <1>1, <2>2, <2>3, <2>4, FreeGives DEF IsPool
  <2>6. \A s \in q.free : Aligned(s.off)
    <3>1. \A s \in q.free : s \in p.free \/ s.off = h.offset \/ \E u \in p.free : s.off = u.off
      <4> DEFINE after == {s \in p.free : s.off = h.offset + len}
                 prev == {s \in p.free : End(s) = h.offset}
                 lo == IF prev = {} THEN h.offset ELSE (CHOOSE s \in prev : TRUE).off
                 hi == IF after = {} THEN h.offset + len ELSE End(CHOOSE s \in after : TRUE)
                 joined == SpanOf(lo, hi - lo)
      <4>1. q.free = (p.free \ (after \cup prev)) \cup {joined}
        <5>1. len # 0
          BY <1>1, <1>4
        <5> QED
          BY <2>2, <5>1 DEF AfterFree
      <4>2. joined.off = lo
        BY DEF SpanOf
      <4>3. prev # {} => (CHOOSE s \in prev : TRUE) \in p.free
        OBVIOUS
      <4>4. lo = h.offset \/ \E u \in p.free : lo = u.off
        BY <4>3
      <4> HIDE DEF after, prev, lo, hi, joined
      <4> QED
        BY <4>1, <4>2, <4>4
    <3> QED
      BY <1>1, <3>1 DEF IsPool
  <2>7. IsPool(q)
    BY <2>2, <2>5, <2>6 DEF IsPool
  <2>8. Shares(q, rest)
    <3> HIDE DEF rest
    <3>1. \A u \in DOMAIN rest : IsPlace(rest[u], q.cap)
      BY <1>2, <2>2 DEF Shares
    <3>2. \A u, v \in DOMAIN rest : u # v => OwnedRows(rest[u]) \cap OwnedRows(rest[v]) = {}
      BY <1>2 DEF Shares
    <3>3. OwnedRows(h) \subseteq 0 .. p.cap - 1
      BY <1>1, <2>3
    <3>4. ASSUME NEW i
          PROVE  i \in Covered(q.free) <=>
                   i \in 0 .. q.cap - 1 /\ ~\E u \in DOMAIN rest : i \in OwnedRows(rest[u])
      <4>1. i \in Covered(q.free) <=> i \in Covered(p.free) \/ i \in OwnedRows(h)
        BY <2>5
      <4>2. i \in Covered(p.free) <=>
              i \in 0 .. p.cap - 1 /\ ~\E u \in DOMAIN own : i \in OwnedRows(own[u])
        BY DEF Shares
      <4>3. \A u \in DOMAIN rest : i \in OwnedRows(h) => i \notin OwnedRows(rest[u])
        BY <1>2 DEF Shares, h
      <4> QED
        BY <1>2, <2>2, <3>3, <4>1, <4>2, <4>3 DEF h
    <3> QED
      BY <3>1, <3>2, <3>4 DEF Shares
  <2> QED
    BY <2>2, <2>7, <2>8 DEF q, h
<1> QED
  BY <1>1, <1>3, <1>4

\* Growth gives the new rows to nobody, and enough of them.
LEMMA RoomGives ==
  ASSUME NEW p, NEW own, IsPool(p), Shares(p, own),
         NEW len \in Nat \ {0}, Aligned(len), Reservable(p, len)
  PROVE  LET q == WithRoom(p, len)
         IN /\ IsPool(q) /\ Shares(q, own) /\ Fitting(q.free, len, ElemAlign) # {}
            /\ p.cap <= q.cap /\ \A i \in 0 .. p.cap - 1 : q.mem[i] = p.mem[i]
<1>1. CASE Fitting(p.free, len, ElemAlign) # {}
  <2>1. WithRoom(p, len) = p /\ p.cap <= p.cap
    BY <1>1 DEF WithRoom, IsPool
  <2> QED
    BY <1>1, <2>1
<1>2. CASE Fitting(p.free, len, ElemAlign) = {}
  <2> DEFINE n == p.cap
             m == GrownCapacity(n, n + len)
             q == WithRoom(p, len)
             last == {s \in p.free : End(s) = n}
  <2>1. n \in Nat /\ n + len \in Nat /\ n + len > n /\ CanHold(n + len)
    BY <1>2 DEF IsPool, Reservable
  <2>2. m \in Nat /\ n + len <= m
    BY <2>1, DoubledCovers, BufferAssumption DEF GrownCapacity, CanHold
  <2>3. q = Regrown(p, m)
    BY <1>2 DEF WithRoom
  <2> HIDE DEF m
  <2>4. /\ q.cap = m /\ q.free = AfterExtend(p.free, n, m)
        /\ q = [cap |-> q.cap, free |-> q.free, mem |-> q.mem]
        /\ q.mem = [i \in 0 .. m - 1 |-> IF i < n THEN p.mem[i] ELSE Blank]
    BY <2>3 DEF Regrown
  <2> HIDE DEF q
  <2>5. /\ IsSoundList(q.free, m)
        /\ Covered(q.free) = Covered(p.free) \cup (n .. (m - 1))
    <3> HIDE DEF n
    <3>1. IsSoundList(p.free, n)
      BY DEF IsPool, n
    <3> QED
      BY <2>1, <2>2, <2>4, <3>1, ExtendGives
  <2>6. \A s \in p.free : s \in Span /\ s.off \in Nat /\ s.len \in Nat /\ s.off + s.len <= n
    BY DEF IsPool, IsSoundList, Span, End
  <2>7. last = {} => Aligned(n)
    <3> SUFFICES ASSUME ~Aligned(n) PROVE last # {}
      OBVIOUS
    <3>1. Aligned(0)
      <4>1. 0 = 0 * ElemAlign
        BY PoolAssumption
      <4> QED
        BY <4>1 DEF Aligned
    <3>2. n > 0 /\ n - 1 \in 0 .. n - 1
      BY <2>1, <3>1
    <3>3. ASSUME NEW o \in DOMAIN own, n - 1 \in OwnedRows(own[o])
          PROVE  FALSE
      <4> DEFINE h == own[o]
      <4>1. h.offset \in Nat /\ PaddedLen(h.count) \in Nat /\ h.offset + PaddedLen(h.count) <= n
            /\ Aligned(h.offset) /\ Aligned(PaddedLen(h.count))
        BY PaddedBounds DEF Shares, IsPlace
      <4>2. n - 1 \in h.offset .. (h.offset + PaddedLen(h.count) - 1)
        BY <3>3 DEF OwnedRows
      <4> HIDE DEF h, n
      <4>3. n = h.offset + PaddedLen(h.count)
        BY <2>1, <4>1, <4>2
      <4>4. Aligned(n)
        BY <4>1, <4>3, AlignedSum
      <4> QED
        BY <4>4
    <3>4. n - 1 \in Covered(p.free)
      BY <3>2, <3>3 DEF Shares
    <3>5. PICK s \in p.free : n - 1 \in s.off .. (s.off + s.len - 1)
      BY <3>4, UnitsCovered
    <3>6. s.off + s.len = n
      BY <2>1, <2>6, <3>5
    <3> QED
      BY <3>5, <3>6 DEF End
  <2>8. \E s \in q.free : /\ s.off \in Nat /\ s.off <= n /\ Aligned(s.off) /\ s.len = m - s.off
                          /\ \A u \in q.free : u = s \/ u \in p.free
    <3>1. m # n
      BY <2>1, <2>2
    <3>2. CASE last = {}
      <4>1. q.free = p.free \cup {SpanOf(n, m - n)}
        BY <2>4, <3>1, <3>2 DEF AfterExtend
      <4>2. SpanOf(n, m - n).off = n /\ SpanOf(n, m - n).len = m - n
        BY DEF SpanOf
      <4> QED
        BY <2>1, <2>7, <3>2, <4>1, <4>2
    <3>3. CASE last # {}
      <4> DEFINE s == CHOOSE u \in last : TRUE
      <4>1. s \in last
        BY <3>3
      <4>2. q.free = (p.free \ {s}) \cup {SpanOf(s.off, m - s.off)}
        BY <2>4, <3>1, <3>3 DEF AfterExtend
      <4>3. s \in p.free
        BY <4>1
      <4> HIDE DEF s
      <4>4. SpanOf(s.off, m - s.off).off = s.off /\ SpanOf(s.off, m - s.off).len = m - s.off
        BY DEF SpanOf
      <4>5. s.off \in Nat /\ s.off <= n /\ Aligned(s.off)
        BY <2>1, <2>6, <4>3 DEF IsPool
      <4> QED
        BY <4>2, <4>4, <4>5
    <3> QED
      BY <3>2, <3>3
  <2>9. Fitting(q.free, len, ElemAlign) # {}
    <3>1. PICK s \in q.free : s.off \in Nat /\ s.off <= n /\ Aligned(s.off) /\ s.len = m - s.off
      BY <2>8
    <3>2. AlignUp(s.off, ElemAlign) = s.off
      BY <3>1, PaddedBounds
    <3>3. Fits(s, len, ElemAlign)
      <4>1. AlignUp(s.off, ElemAlign) - s.off + len <= s.len
        <5> HIDE DEF n
        <5> QED
          BY <2>1, <2>2, <3>1, <3>2
      <4> QED
        BY <4>1 DEF Fits, Pad
    <3> QED
      BY <3>3 DEF Fitting
  <2>10. IsPool(q)
    <3>1. \A u \in q.free : Aligned(u.off)
      BY <2>8 DEF IsPool
    <3>2. q.mem = [i \in 0 .. q.cap - 1 |-> q.mem[i]]
      BY <2>4
    <3> QED
      BY <2>2, <2>4, <2>5, <3>1, <3>2 DEF IsPool
  <2>11. Shares(q, own)
    <3>1. \A o \in DOMAIN own : IsPlace(own[o], q.cap)
      <4> SUFFICES ASSUME NEW o \in DOMAIN own PROVE IsPlace(own[o], q.cap)
        OBVIOUS
      <4>1. IsPlace(own[o], n)
        BY DEF Shares
      <4>2. PaddedLen(own[o].count) \in Nat
        BY <4>1, PaddedBounds DEF IsPlace
      <4> HIDE DEF n
      <4> QED
        BY <2>1, <2>2, <2>4, <4>1, <4>2 DEF IsPlace
    <3>2. \A o \in DOMAIN own : OwnedRows(own[o]) \subseteq 0 .. n - 1
      <4> SUFFICES ASSUME NEW o \in DOMAIN own PROVE OwnedRows(own[o]) \subseteq 0 .. n - 1
        OBVIOUS
      <4>1. IsPlace(own[o], n)
        BY DEF Shares
      <4>2. PaddedLen(own[o].count) \in Nat
        BY <4>1, PaddedBounds DEF IsPlace
      <4> HIDE DEF n
      <4> QED
        BY <2>1, <4>1, <4>2 DEF IsPlace, OwnedRows
    <3>3. ASSUME NEW i
          PROVE  i \in Covered(q.free) <=>
                   i \in 0 .. q.cap - 1 /\ ~\E o \in DOMAIN own : i \in OwnedRows(own[o])
      <4>1. i \in Covered(q.free) <=> i \in Covered(p.free) \/ i \in n .. m - 1
        BY <2>5
      <4>2. i \in Covered(p.free) <=>
              i \in 0 .. n - 1 /\ ~\E o \in DOMAIN own : i \in OwnedRows(own[o])
        BY DEF Shares
      <4>3. i \in 0 .. m - 1 <=> i \in 0 .. n - 1 \/ i \in n .. m - 1
        BY <2>1, <2>2
      <4>4. i \in n .. m - 1 => i \notin 0 .. n - 1
        BY <2>1, <2>2
      <4> QED
        BY <2>4, <3>2, <4>1, <4>2, <4>3, <4>4
    <3> QED
      BY <3>1, <3>3 DEF Shares
  <2>12. n <= q.cap /\ \A i \in 0 .. n - 1 : q.mem[i] = p.mem[i]
    BY <2>1, <2>2, <2>4
  <2> QED
    BY <2>9, <2>10, <2>11, <2>12 DEF q
<1> QED
  BY <1>1, <1>2

\* write_var_row for an owner without a range: it gets rows nobody had, they
\* hold the payload, and nobody else's change.
LEMMA WriteGives ==
  ASSUME NEW p, NEW own, NEW said, IsPool(p), Shares(p, own), Says(p, own, said),
         NEW o, o \notin DOMAIN own, NEW data, IsPayload(data), Writable(p, NoHandleRange, data)
  PROVE  LET w == WriteVarRow(p, NoHandleRange, data)
         IN /\ IsPool(w.pool) /\ Shares(w.pool, Remembered(own, o, w.handle))
            /\ Says(w.pool, Remembered(own, o, w.handle), Remembered(said, o, data))
<1> DEFINE w == WriteVarRow(p, NoHandleRange, data)
           all == Remembered(own, o, w.handle)
           words == Remembered(said, o, data)
           n == Len(data)
           len == PaddedLen(n)
<1>1. Release(p, NoHandleRange) = p
  BY DEF Release, NoHandleRange
<1>2. /\ DOMAIN all = DOMAIN own \cup {o} /\ all[o] = w.handle /\ words[o] = data
      /\ \A u \in DOMAIN own : all[u] = own[u]
      /\ \A u \in DOMAIN own : own[u] = own[u]
  BY DEF Remembered
<1>3. p.cap \in Nat /\ Aligned(0)
  <2>1. 0 = 0 * ElemAlign
    BY PoolAssumption
  <2> QED
    BY <2>1 DEF IsPool, Aligned
<1>4. CASE data = <<>>
  <2>1. w.pool = p /\ w.handle = NoHandleRange
    BY <1>1, <1>4 DEF WriteVarRow
  <2>2. NoHandleRange.offset = 0 /\ NoHandleRange.count = 0
    BY DEF NoHandleRange
  <2>3. OwnedRows(NoHandleRange) = {} /\ IsPlace(NoHandleRange, p.cap)
    <3>1. PaddedLen(0) = 0
      BY PaddedBounds
    <3> QED
      BY <1>3, <2>2, <3>1, EmptyOwnsNothing DEF IsPlace
  <2> HIDE DEF w, all
  <2>4. Shares(p, all)
    BY <1>2, <2>1, <2>3 DEF Shares
  <2>5. Says(p, all, words)
    <3> SUFFICES ASSUME NEW u \in DOMAIN own, own[u].count > 0
                 PROVE  u \in DOMAIN words /\ ReadRange(p, own[u]) = words[u]
      BY <1>2, <2>1, <2>2 DEF Says
    <3>1. u # o /\ u \in DOMAIN said /\ ReadRange(p, own[u]) = said[u]
      BY DEF Says
    <3> QED
      BY <3>1 DEF Remembered
  <2> QED
    BY <2>1, <2>4, <2>5 DEF w, all
<1>5. CASE data # <<>>
  <2> DEFINE q == WithRoom(p, len)
             at == ReservedAt(p, len)
             r == Reserve(p, len)
  <2>1. n \in Nat \ {0}
    <3>1. n = 0 => data = [i \in {} |-> data[i]]
      BY DEF IsPayload
    <3>2. [i \in {} |-> data[i]] = <<>>
      OBVIOUS
    <3> QED
      BY <1>5, <3>1, <3>2 DEF IsPayload
  <2>2. len \in Nat \ {0} /\ Aligned(len) /\ n <= len /\ Reservable(p, len)
    <3>1. Reservable(p, len)
      BY <1>1, <1>5 DEF Writable
    <3> HIDE DEF n
    <3> QED
      BY <2>1, <3>1, PaddedBounds
  <2>3. w.pool = WritePadded(r, at, data) /\ w.handle = [offset |-> at, count |-> n]
    BY <1>1, <1>5 DEF WriteVarRow
  <2> HIDE DEF w, len
  <2>4. /\ IsPool(q) /\ Shares(q, own) /\ Fitting(q.free, len, ElemAlign) # {}
        /\ p.cap <= q.cap /\ \A i \in 0 .. p.cap - 1 : q.mem[i] = p.mem[i]
    BY <2>2, RoomGives
  <2>5. /\ at = AllocOffset(q.free, len, ElemAlign)
        /\ r = [q EXCEPT !.free = AfterAlloc(q.free, len, ElemAlign)]
    BY DEF ReservedAt, Reserve
  <2> HIDE DEF at, r, q
  <2>6. /\ r = [cap |-> r.cap, free |-> r.free, mem |-> r.mem]
        /\ r.cap = q.cap /\ r.mem = q.mem /\ r.free = AfterAlloc(q.free, len, ElemAlign)
    BY <2>4, <2>5 DEF IsPool
  <2>7. /\ at \in Nat /\ at + len <= q.cap /\ Aligned(at)
        /\ at .. (at + len - 1) \subseteq Covered(q.free)
        /\ IsSoundList(r.free, q.cap)
        /\ Covered(r.free) = Covered(q.free) \ (at .. (at + len - 1))
    <3>1. q.cap \in Nat /\ IsSoundList(q.free, q.cap) /\ ElemAlign \in Nat \ {0}
      BY <2>4, PoolAssumption DEF IsPool
    <3> QED
      BY <2>2, <2>4, <2>5, <2>6, <3>1, AllocTakes DEF Aligned
  <2>8. \A u \in r.free : Aligned(u.off)
    <3> DEFINE s == FirstFit(q.free, len, ElemAlign)
               pad == SpanOf(s.off, at - s.off)
               tail == SpanOf(at + len, End(s) - (at + len))
    <3>1. r.free = (q.free \ {s}) \cup NonEmpty({pad, tail})
      BY <2>5, <2>6 DEF AfterAlloc, AllocOffset
    <3>2. s \in q.free
      <4>1. q.free \in SUBSET Span /\ ElemAlign \in Nat \ {0}
        BY <2>4, PoolAssumption DEF IsPool, IsSoundList
      <4> QED
        BY <2>2, <2>4, <4>1, FirstFits DEF Fitting
    <3>3. pad.off = s.off /\ tail.off = at + len
      BY DEF SpanOf
    <3>4. Aligned(s.off) /\ Aligned(at + len)
      BY <2>2, <2>4, <2>7, <3>2, AlignedSum DEF IsPool
    <3> HIDE DEF s, pad, tail
    <3> QED
      BY <2>4, <3>1, <3>3, <3>4 DEF IsPool, NonEmpty
  <2>9. /\ w.pool = [cap |-> w.pool.cap, free |-> w.pool.free, mem |-> w.pool.mem]
        /\ w.pool.cap = q.cap /\ w.pool.free = r.free
        /\ w.pool.mem = [i \in 0 .. q.cap - 1 |->
             IF i \notin at .. (at + len - 1) THEN q.mem[i]
             ELSE IF i - at < n THEN data[i - at + 1] ELSE Blank]
    <3>1. DOMAIN r.mem = 0 .. q.cap - 1
      BY <2>4, <2>6 DEF IsPool
    <3> QED
      BY <2>3, <2>6, <3>1 DEF WritePadded, len
  <2>10. IsPool(w.pool)
    <3>1. w.pool.mem = [i \in 0 .. w.pool.cap - 1 |-> w.pool.mem[i]]
      BY <2>9
    <3> QED
      BY <2>4, <2>7, <2>8, <2>9, <3>1 DEF IsPool
  <2>11. /\ w.handle.offset = at /\ w.handle.count = n
         /\ OwnedRows(w.handle) = at .. (at + len - 1) /\ IsPlace(w.handle, q.cap)
    BY <2>1, <2>3, <2>7 DEF OwnedRows, IsPlace, len
  <2>12. \A u \in DOMAIN own : OwnedRows(own[u]) \cap (at .. (at + len - 1)) = {}
    BY <2>4, <2>7 DEF Shares
  <2> HIDE DEF all
  <2>13. Shares(w.pool, all)
    <3>1. \A u \in DOMAIN all : IsPlace(all[u], w.pool.cap)
      BY <1>2, <2>4, <2>9, <2>11 DEF Shares
    <3>2. \A u, v \in DOMAIN all : u # v => OwnedRows(all[u]) \cap OwnedRows(all[v]) = {}
      BY <1>2, <2>4, <2>11, <2>12 DEF Shares
    <3>3. ASSUME NEW i
          PROVE  i \in Covered(w.pool.free) <=>
                   i \in 0 .. w.pool.cap - 1 /\ ~\E u \in DOMAIN all : i \in OwnedRows(all[u])
      <4>1. i \in Covered(q.free) <=>
              i \in 0 .. q.cap - 1 /\ ~\E u \in DOMAIN own : i \in OwnedRows(own[u])
        BY <2>4 DEF Shares
      <4>2. i \in Covered(w.pool.free) <=> i \in Covered(q.free) /\ i \notin OwnedRows(w.handle)
        BY <2>7, <2>9, <2>11
      <4> QED
        BY <1>2, <2>9, <4>1, <4>2
    <3> QED
      BY <3>1, <3>2, <3>3 DEF Shares
  <2>14. ReadRange(w.pool, w.handle) = data
    <3>1. \A i \in 1 .. n : w.pool.mem[at + i - 1] = data[i]
      <4> SUFFICES ASSUME NEW i \in 1 .. n PROVE w.pool.mem[at + i - 1] = data[i]
        OBVIOUS
      <4> DEFINE k == at + i - 1
      <4>1. k \in 0 .. q.cap - 1 /\ k \in at .. (at + len - 1) /\ k - at < n /\ k - at + 1 = i
        BY <2>1, <2>2, <2>4, <2>7 DEF IsPool
      <4> HIDE DEF k, n
      <4> QED
        BY <2>9, <4>1 DEF k
    <3>2. ReadRange(w.pool, w.handle) = [i \in 1 .. n |-> w.pool.mem[at + i - 1]]
      BY <2>11 DEF ReadRange
    <3> QED
      BY <3>1, <3>2 DEF IsPayload
  <2>15. ASSUME NEW u \in DOMAIN own, own[u].count > 0
         PROVE  u \in DOMAIN said /\ ReadRange(w.pool, own[u]) = said[u]
    <3> DEFINE h == own[u]
    <3>1. IsPlace(h, p.cap) /\ u \in DOMAIN said /\ ReadRange(p, h) = said[u]
      BY <2>15 DEF Shares, Says
    <3>2. OwnedRows(h) \cap (at .. (at + len - 1)) = {}
      BY <2>12
    <3> HIDE DEF h
    <3>3. \A i \in 1 .. h.count : w.pool.mem[h.offset + i - 1] = p.mem[h.offset + i - 1]
      <4> SUFFICES ASSUME NEW i \in 1 .. h.count
                   PROVE  w.pool.mem[h.offset + i - 1] = p.mem[h.offset + i - 1]
        OBVIOUS
      <4> DEFINE k == h.offset + i - 1
      <4>1. h.count <= PaddedLen(h.count) /\ PaddedLen(h.count) \in Nat
            /\ h.offset \in Nat /\ h.count \in Nat /\ h.offset + PaddedLen(h.count) <= p.cap
        BY <3>1, PaddedBounds DEF IsPlace
      <4>2. k \in OwnedRows(h) /\ k \in 0 .. p.cap - 1 /\ k \in 0 .. q.cap - 1
        BY <1>3, <2>4, <4>1 DEF OwnedRows, IsPool
      <4>3. k \notin at .. (at + len - 1) /\ q.mem[k] = p.mem[k]
        BY <2>4, <3>2, <4>2
      <4> HIDE DEF k
      <4> QED
        BY <2>9, <4>2, <4>3 DEF k
    <3> QED
      BY <3>1, <3>3 DEF ReadRange, h
  <2>16. Says(w.pool, all, words)
    <3>1. ASSUME NEW u \in DOMAIN own, own[u].count > 0
          PROVE  u # o /\ u \in DOMAIN words /\ words[u] = said[u]
      <4>1. u # o /\ u \in DOMAIN said
        BY <2>15, <3>1
      <4> QED
        BY <4>1 DEF Remembered
    <3>2. o \in DOMAIN words
      BY DEF Remembered
    <3> QED
      BY <1>2, <2>14, <2>15, <3>1, <3>2 DEF Says
  <2> QED
    BY <2>10, <2>13, <2>16 DEF w, all
<1> QED
  BY <1>4, <1>5

---------------------------------------------------------------------------
(* InternedPool: one reference on an entry, or one private range, more or  *)
(* less.                                                                   *)

Users == InternRows \cup InternLeases

\* The users that refs sends to id.
UsersOf(refs, id) == {x \in Users : refs[x] = id}

\* The entries' ranges and the private ones.
Joined(e, priv) ==
  [o \in DOMAIN e \cup DOMAIN priv |-> IF o \in DOMAIN priv THEN priv[o] ELSE e[o].range]

IsEntries(e) ==
  /\ DOMAIN e \subseteq Ids
  /\ e = [id \in DOMAIN e |-> [range |-> e[id].range, refcount |-> e[id].refcount]]
  /\ \A id \in DOMAIN e : e[id].refcount \in Nat \ {0}

Counted(e, refs) ==
  \A id \in Ids : IF id \in DOMAIN e THEN e[id].refcount = Cardinality(UsersOf(refs, id))
                                     ELSE UsersOf(refs, id) = {}

TableHolds(t, refs, priv) ==
  /\ t = [pool |-> t.pool, entries |-> t.entries, meant |-> t.meant]
  /\ IsPool(t.pool) /\ Shares(t.pool, Joined(t.entries, priv))
  /\ Says(t.pool, Joined(t.entries, priv), t.meant)
  /\ IsEntries(t.entries) /\ Counted(t.entries, refs)
  /\ DOMAIN priv \subseteq Users /\ refs \in [Users -> Ids \cup {NoId}]

\* Entries that were there before and are after lie where they did.
KeptRanges(e, f) == \A id \in DOMAIN e \cap DOMAIN f : f[id].range = e[id].range

\* The users can be counted, and none of them is taken for an id.
LEMMA UsersFinite ==
  ASSUME NEW refs, NEW id
  PROVE  IsFiniteSet(Users) /\ IsFiniteSet(UsersOf(refs, id)) /\ Ids \cap Users = {}
<1>1. IsFiniteSet(Users) /\ Ids \cap Users = {}
  BY InternAssumption, FS_Union DEF Users
<1>2. UsersOf(refs, id) \subseteq Users
  BY DEF UsersOf
<1> QED
  BY <1>1, <1>2, FS_Subset

\* An id somebody uses has an entry.
LEMMA EntryUsed ==
  ASSUME NEW t, NEW refs, NEW priv, TableHolds(t, refs, priv), NEW x \in Users, refs[x] \in Ids
  PROVE  refs[x] \in DOMAIN t.entries
<1>1. x \in UsersOf(refs, refs[x])
  BY DEF UsersOf
<1> QED
  BY <1>1 DEF TableHolds, Counted

\* decref_locked takes one reference away, and the entry with the last.
LEMMA DecrefHolds ==
  ASSUME NEW t, NEW refs, NEW priv, TableHolds(t, refs, priv), NEW x \in Users, refs[x] \in Ids
  PROVE  LET u == Decref(t, refs[x])
         IN TableHolds(u, [refs EXCEPT ![x] = NoId], priv) /\ KeptRanges(t.entries, u.entries)
<1> DEFINE id == refs[x]
           e == t.entries
           u == Decref(t, id)
           after == [refs EXCEPT ![x] = NoId]
<1>1. id \in DOMAIN e /\ id \in Ids /\ NoId # id /\ NoId \notin Ids /\ id \notin DOMAIN priv
  BY EntryUsed, UsersFinite, InternAssumption DEF TableHolds
<1>2. /\ IsEntries(e) /\ Counted(e, refs) /\ refs \in [Users -> Ids \cup {NoId}]
      /\ t = [pool |-> t.pool, entries |-> e, meant |-> t.meant] /\ DOMAIN priv \subseteq Users
      /\ IsPool(t.pool) /\ Shares(t.pool, Joined(e, priv)) /\ Says(t.pool, Joined(e, priv), t.meant)
  BY DEF TableHolds
<1>3. e[id].refcount = Cardinality(UsersOf(refs, id)) /\ e[id].refcount \in Nat \ {0}
  BY <1>1, <1>2 DEF IsEntries, Counted
<1>4. /\ after \in [Users -> Ids \cup {NoId}]
      /\ UsersOf(after, id) = UsersOf(refs, id) \ {x} /\ x \in UsersOf(refs, id)
      /\ \A i \in Ids \ {id} : UsersOf(after, i) = UsersOf(refs, i)
  BY <1>1, <1>2 DEF UsersOf
<1>5. Cardinality(UsersOf(after, id)) = e[id].refcount - 1
  <2>1. IsFiniteSet(UsersOf(refs, id))
    BY UsersFinite
  <2> QED
    BY <1>3, <1>4, <2>1, FS_RemoveElement
<1> HIDE DEF after, id
<1>6. CASE e[id].refcount > 1
  <2> DEFINE f == [e EXCEPT ![id].refcount = @ - 1]
  <2>1. u = [t EXCEPT !.entries[id].refcount = @ - 1]
    BY <1>1, <1>6 DEF Decref
  <2>2. u = [pool |-> t.pool, entries |-> f, meant |-> t.meant]
    BY <1>2, <2>1
  <2>3. /\ DOMAIN f = DOMAIN e
        /\ \A i \in DOMAIN e : f[i].range = e[i].range
        /\ \A i \in DOMAIN e : f[i].refcount = IF i = id THEN e[i].refcount - 1 ELSE e[i].refcount
        /\ f = [i \in DOMAIN f |-> [range |-> f[i].range, refcount |-> f[i].refcount]]
    BY <1>2 DEF IsEntries
  <2> HIDE DEF f
  <2>4. Joined(f, priv) = Joined(e, priv)
    BY <2>3 DEF Joined
  <2>5. IsEntries(f)
    BY <1>2, <1>3, <1>6, <2>3 DEF IsEntries
  <2>6. Counted(f, after)
    BY <1>1, <1>2, <1>4, <1>5, <2>3 DEF Counted
  <2>7. u.pool = t.pool /\ u.entries = f /\ u.meant = t.meant
    BY <2>2
  <2> QED
    BY <1>2, <1>4, <2>2, <2>3, <2>4, <2>5, <2>6, <2>7 DEF TableHolds, KeptRanges, id, after
<1>7. CASE ~(e[id].refcount > 1)
  <2> DEFINE f == Forgotten(e, id)
             own == Joined(e, priv)
             h == e[id].range
  <2>1. u = [pool |-> Release(t.pool, h), entries |-> f, meant |-> Forgotten(t.meant, id)]
    BY <1>1, <1>7 DEF Decref
  <2>2. DOMAIN f = DOMAIN e \ {id} /\ \A i \in DOMAIN f : f[i] = e[i]
    BY DEF Forgotten
  <2>3. id \in DOMAIN own /\ own[id] = h
    BY <1>1 DEF Joined
  <2>4. Joined(f, priv) = Forgotten(own, id)
    BY <1>1 DEF Joined, Forgotten
  <2> HIDE DEF h, own
  <2>5. /\ IsPool(Release(t.pool, h)) /\ Shares(Release(t.pool, h), Forgotten(own, id))
        /\ Release(t.pool, h).mem = t.pool.mem
    BY <1>2, <2>3, ReleaseGives DEF own
  <2>6. Says(Release(t.pool, h), Forgotten(own, id), Forgotten(t.meant, id))
    BY <1>2, <2>5 DEF Says, Forgotten, ReadRange, own
  <2>7. IsEntries(f)
    <3>1. f = [i \in DOMAIN f |-> [range |-> f[i].range, refcount |-> f[i].refcount]]
      <4>1. f = [i \in DOMAIN f |-> f[i]]
        BY DEF Forgotten
      <4>2. \A i \in DOMAIN f : f[i] = [range |-> f[i].range, refcount |-> f[i].refcount]
        BY <1>2, <2>2 DEF IsEntries
      <4> HIDE DEF f
      <4> QED
        BY <4>1, <4>2
    <3> HIDE DEF f
    <3> QED
      BY <1>2, <2>2, <3>1 DEF IsEntries
  <2>8. UsersOf(after, id) = {}
    <3>1. Cardinality(UsersOf(after, id)) = 0
      BY <1>3, <1>5, <1>7
    <3> QED
      BY <3>1, UsersFinite, FS_EmptySet
  <2> HIDE DEF f
  <2>9. Counted(f, after)
    BY <1>2, <1>4, <2>2, <2>8 DEF Counted
  <2>10. /\ u.pool = Release(t.pool, h) /\ u.entries = f /\ u.meant = Forgotten(t.meant, id)
         /\ u = [pool |-> u.pool, entries |-> u.entries, meant |-> u.meant]
    BY <2>1
  <2> QED
    BY <1>2, <1>4, <2>2, <2>4, <2>5, <2>6, <2>7, <2>9, <2>10 DEF TableHolds, KeptRanges, id, after
<1> QED
  BY <1>6, <1>7

\* intern_locked: one more reference, on the entry that is there or a new one.
LEMMA InternHolds ==
  ASSUME NEW t, NEW refs, NEW priv, TableHolds(t, refs, priv), NEW x \in Users, refs[x] = NoId,
         NEW id \in Ids, NEW data, IsPayload(data),
         id \in DOMAIN t.entries \/ Writable(t.pool, NoHandleRange, data)
  PROVE  LET w == InternLocked(t, id, data)
         IN /\ TableHolds(w.table, [refs EXCEPT ![x] = id], priv)
            /\ KeptRanges(t.entries, w.table.entries)
            /\ id \in DOMAIN w.table.entries /\ w.range = w.table.entries[id].range
<1> DEFINE e == t.entries
           w == InternLocked(t, id, data)
           after == [refs EXCEPT ![x] = id]
<1>1. NoId # id /\ NoId \notin Ids /\ id \notin DOMAIN priv
  BY UsersFinite, InternAssumption DEF TableHolds
<1>2. /\ IsEntries(e) /\ Counted(e, refs) /\ refs \in [Users -> Ids \cup {NoId}]
      /\ t = [pool |-> t.pool, entries |-> e, meant |-> t.meant] /\ DOMAIN priv \subseteq Users
      /\ IsPool(t.pool) /\ Shares(t.pool, Joined(e, priv)) /\ Says(t.pool, Joined(e, priv), t.meant)
  BY DEF TableHolds
<1>3. /\ after \in [Users -> Ids \cup {NoId}]
      /\ UsersOf(after, id) = UsersOf(refs, id) \cup {x} /\ x \notin UsersOf(refs, id)
      /\ \A i \in Ids \ {id} : UsersOf(after, i) = UsersOf(refs, i)
  BY <1>1, <1>2 DEF UsersOf
<1>4. /\ Cardinality(UsersOf(refs, id)) \in Nat
      /\ Cardinality(UsersOf(after, id)) = Cardinality(UsersOf(refs, id)) + 1
  <2>1. IsFiniteSet(UsersOf(refs, id))
    BY UsersFinite
  <2> QED
    BY <1>3, <2>1, FS_AddElement, FS_CardinalityType
<1> HIDE DEF after
<1>5. CASE id \in DOMAIN e
  <2> DEFINE f == [e EXCEPT ![id].refcount = @ + 1]
  <2>1. w = [table |-> [t EXCEPT !.entries[id].refcount = @ + 1], range |-> e[id].range]
    BY <1>5 DEF InternLocked
  <2>2. w.table = [pool |-> t.pool, entries |-> f, meant |-> t.meant] /\ w.range = e[id].range
    BY <1>2, <2>1
  <2>3. /\ DOMAIN f = DOMAIN e
        /\ \A i \in DOMAIN e : f[i].range = e[i].range
        /\ \A i \in DOMAIN e : f[i].refcount = IF i = id THEN e[i].refcount + 1 ELSE e[i].refcount
        /\ f = [i \in DOMAIN f |-> [range |-> f[i].range, refcount |-> f[i].refcount]]
    BY <1>2 DEF IsEntries
  <2> HIDE DEF f, w
  <2>4. Joined(f, priv) = Joined(e, priv)
    BY <2>3 DEF Joined
  <2>5. IsEntries(f)
    <3>1. \A i \in DOMAIN e : e[i].refcount \in Nat \ {0}
      BY <1>2 DEF IsEntries
    <3>2. \A i \in DOMAIN f : f[i].refcount \in Nat \ {0}
      BY <2>3, <3>1
    <3> QED
      BY <1>2, <2>3, <3>2 DEF IsEntries
  <2>6. Counted(f, after)
    BY <1>2, <1>3, <1>4, <1>5, <2>3 DEF Counted
  <2>7. w.table.pool = t.pool /\ w.table.entries = f /\ w.table.meant = t.meant
    BY <2>2
  <2> QED
    BY <1>2, <1>3, <1>5, <2>2, <2>3, <2>4, <2>5, <2>6, <2>7 DEF TableHolds, KeptRanges, after, w
<1>6. CASE id \notin DOMAIN e
  <2> DEFINE v == WriteVarRow(t.pool, NoHandleRange, data)
             new == [range |-> v.handle, refcount |-> 1]
             f == Remembered(e, id, new)
             own == Joined(e, priv)
  <2>1. w = [table |-> [pool |-> v.pool, entries |-> f, meant |-> Remembered(t.meant, id, data)],
             range |-> v.handle]
    BY <1>6 DEF InternLocked
  <2>2. /\ new.range = v.handle /\ new.refcount = 1
        /\ new = [range |-> new.range, refcount |-> new.refcount]
    OBVIOUS
  <2> HIDE DEF v, new, w
  <2>3. /\ DOMAIN f = DOMAIN e \cup {id} /\ f[id] = new
        /\ \A i \in DOMAIN e : f[i] = e[i]
        /\ f = [i \in DOMAIN f |-> f[i]]
    BY <1>6 DEF Remembered
  <2>4. id \notin DOMAIN own
    BY <1>1, <1>6 DEF Joined
  <2>5. Joined(f, priv) = Remembered(own, id, v.handle)
    BY <1>1, <2>2 DEF Joined, Remembered
  <2> HIDE DEF f, own
  <2>6. /\ IsPool(v.pool) /\ Shares(v.pool, Remembered(own, id, v.handle))
        /\ Says(v.pool, Remembered(own, id, v.handle), Remembered(t.meant, id, data))
    <3>1. Writable(t.pool, NoHandleRange, data)
      BY <1>6
    <3>2. Shares(t.pool, own) /\ Says(t.pool, own, t.meant)
      BY <1>2 DEF own
    <3> QED
      BY <1>2, <2>4, <3>1, <3>2, WriteGives DEF v
  <2>7. IsEntries(f)
    <3>1. \A i \in DOMAIN f : f[i] = [range |-> f[i].range, refcount |-> f[i].refcount]
      BY <1>2, <2>2, <2>3 DEF IsEntries
    <3> QED
      BY <1>2, <2>2, <2>3, <3>1 DEF IsEntries
  <2>8. Counted(f, after)
    <3>1. UsersOf(refs, id) = {}
      BY <1>2, <1>6 DEF Counted
    <3>2. Cardinality(UsersOf(after, id)) = 1
      BY <1>4, <3>1, FS_EmptySet
    <3> QED
      BY <1>2, <1>3, <2>2, <2>3, <3>2 DEF Counted
  <2>9. /\ w.table.pool = v.pool /\ w.table.entries = f /\ w.range = v.handle
        /\ w.table.meant = Remembered(t.meant, id, data)
        /\ w.table = [pool |-> w.table.pool, entries |-> w.table.entries, meant |-> w.table.meant]
    BY <2>1
  <2> QED
    BY <1>2, <1>3, <2>2, <2>3, <2>5, <2>6, <2>7, <2>8, <2>9 DEF TableHolds, KeptRanges, after, w
<1> QED
  BY <1>5, <1>6

\* u is t without the private range of o.
GivesUp(t, u, o, range) ==
  /\ u.pool = Release(t.pool, range) /\ u.entries = t.entries /\ u.meant = Forgotten(t.meant, o)
  /\ u = [pool |-> u.pool, entries |-> u.entries, meant |-> u.meant]

\* What the code's update of a table gives.
LEMMA UpdateGivesUp ==
  ASSUME NEW t, t = [pool |-> t.pool, entries |-> t.entries, meant |-> t.meant],
         NEW o, NEW range
  PROVE  GivesUp(t, [t EXCEPT !.pool = Release(@, range), !.meant = Forgotten(@, o)], o, range)
<1> DEFINE u == [t EXCEPT !.pool = Release(@, range), !.meant = Forgotten(@, o)]
           a == Release(t.pool, range)
           m == Forgotten(t.meant, o)
<1>1. u = [t EXCEPT !.pool = a, !.meant = m]
  OBVIOUS
<1> HIDE DEF a, m, u
<1>2. u = [pool |-> a, entries |-> t.entries, meant |-> m]
  BY <1>1
<1> QED
  BY <1>2 DEF a, m, u, GivesUp

\* A private range is given up, and nothing shared with it.
LEMMA PrivateGoes ==
  ASSUME NEW t, NEW refs, NEW priv, TableHolds(t, refs, priv), NEW o \in DOMAIN priv,
         NEW u, GivesUp(t, u, o, priv[o])
  PROVE  TableHolds(u, refs, Forgotten(priv, o)) /\ u.entries = t.entries
<1> DEFINE own == Joined(t.entries, priv)
<1>1. o \notin DOMAIN t.entries
  BY UsersFinite DEF TableHolds, IsEntries
<1>2. /\ IsPool(t.pool) /\ Shares(t.pool, own) /\ Says(t.pool, own, t.meant)
      /\ IsEntries(t.entries) /\ Counted(t.entries, refs)
      /\ DOMAIN priv \subseteq Users /\ refs \in [Users -> Ids \cup {NoId}]
  BY DEF TableHolds
<1>3. o \in DOMAIN own /\ own[o] = priv[o]
  BY DEF Joined
<1>4. Joined(t.entries, Forgotten(priv, o)) = Forgotten(own, o)
  BY <1>1 DEF Joined, Forgotten
<1> HIDE DEF own
<1>5. /\ IsPool(Release(t.pool, priv[o])) /\ Shares(Release(t.pool, priv[o]), Forgotten(own, o))
      /\ Release(t.pool, priv[o]).mem = t.pool.mem
  BY <1>2, <1>3, ReleaseGives
<1>6. Says(Release(t.pool, priv[o]), Forgotten(own, o), Forgotten(t.meant, o))
  BY <1>2, <1>5 DEF Says, Forgotten, ReadRange
<1>7. DOMAIN Forgotten(priv, o) \subseteq Users
  BY <1>2 DEF Forgotten
<1>8. /\ u.pool = Release(t.pool, priv[o]) /\ u.entries = t.entries /\ u.meant = Forgotten(t.meant, o)
      /\ u = [pool |-> u.pool, entries |-> u.entries, meant |-> u.meant]
  BY DEF GivesUp
<1> QED
  BY <1>2, <1>4, <1>5, <1>6, <1>7, <1>8 DEF TableHolds

\* write_var_row for a user without a range.
LEMMA PrivateComes ==
  ASSUME NEW t, NEW refs, NEW priv, TableHolds(t, refs, priv),
         NEW o \in Users, o \notin DOMAIN priv,
         NEW data, IsPayload(data), Writable(t.pool, NoHandleRange, data)
  PROVE  LET w == PrivateWrite(t, o, NoHandleRange, data)
         IN /\ TableHolds(w.table, refs, Remembered(priv, o, w.range))
            /\ w.table.entries = t.entries
<1> DEFINE w == PrivateWrite(t, o, NoHandleRange, data)
           v == WriteVarRow(t.pool, NoHandleRange, data)
           own == Joined(t.entries, priv)
<1>1. o \notin DOMAIN t.entries
  BY UsersFinite DEF TableHolds, IsEntries
<1>2. /\ t = [pool |-> t.pool, entries |-> t.entries, meant |-> t.meant]
      /\ IsPool(t.pool) /\ Shares(t.pool, own) /\ Says(t.pool, own, t.meant)
      /\ IsEntries(t.entries) /\ Counted(t.entries, refs)
      /\ DOMAIN priv \subseteq Users /\ refs \in [Users -> Ids \cup {NoId}]
  BY DEF TableHolds
<1>3. /\ w.table = [t EXCEPT !.pool = v.pool, !.meant = Remembered(@, o, data)]
      /\ w.range = v.handle
  BY DEF PrivateWrite
<1> HIDE DEF w, v
<1>4. w.table = [pool |-> v.pool, entries |-> t.entries, meant |-> Remembered(t.meant, o, data)]
  BY <1>2, <1>3
<1>5. o \notin DOMAIN own
  BY <1>1 DEF Joined
<1>6. Joined(t.entries, Remembered(priv, o, v.handle)) = Remembered(own, o, v.handle)
  BY DEF Joined, Remembered
<1> HIDE DEF own
<1>7. /\ IsPool(v.pool) /\ Shares(v.pool, Remembered(own, o, v.handle))
      /\ Says(v.pool, Remembered(own, o, v.handle), Remembered(t.meant, o, data))
  BY <1>2, <1>5, WriteGives DEF v
<1>8. DOMAIN Remembered(priv, o, v.handle) \subseteq Users
  BY <1>2 DEF Remembered
<1>9. /\ w.table.pool = v.pool /\ w.table.entries = t.entries
      /\ w.table.meant = Remembered(t.meant, o, data)
      /\ w.table = [pool |-> w.table.pool, entries |-> w.table.entries, meant |-> w.table.meant]
  BY <1>4
<1> QED
  BY <1>2, <1>3, <1>6, <1>7, <1>8, <1>9 DEF TableHolds, w

\* A row that has nothing has an empty range of its own.
LEMMA EmptyComes ==
  ASSUME NEW t, NEW refs, NEW priv, TableHolds(t, refs, priv),
         NEW o \in Users, o \notin DOMAIN priv
  PROVE  TableHolds(t, refs, Remembered(priv, o, NoHandleRange))
<1> DEFINE own == Joined(t.entries, priv)
           all == Remembered(own, o, NoHandleRange)
<1>1. o \notin DOMAIN own
  BY UsersFinite DEF TableHolds, IsEntries, Joined
<1>2. Joined(t.entries, Remembered(priv, o, NoHandleRange)) = all
  BY DEF Joined, Remembered
<1>3. NoHandleRange.offset = 0 /\ NoHandleRange.count = 0
  BY DEF NoHandleRange
<1>4. OwnedRows(NoHandleRange) = {} /\ IsPlace(NoHandleRange, t.pool.cap)
  <2>1. PaddedLen(0) = 0
    BY PaddedBounds
  <2>2. 0 = 0 * ElemAlign
    BY PoolAssumption
  <2>3. t.pool.cap \in Nat
    BY DEF TableHolds, IsPool
  <2> QED
    BY <1>3, <2>1, <2>2, <2>3, EmptyOwnsNothing DEF IsPlace, Aligned
<1>5. /\ DOMAIN all = DOMAIN own \cup {o} /\ all[o] = NoHandleRange
      /\ \A u \in DOMAIN own : all[u] = own[u]
  BY <1>1 DEF Remembered
<1>6. Shares(t.pool, own) /\ Says(t.pool, own, t.meant)
  BY DEF TableHolds
<1> HIDE DEF own, all
<1>7. Shares(t.pool, all)
  BY <1>4, <1>5, <1>6 DEF Shares
<1>8. Says(t.pool, all, t.meant)
  BY <1>3, <1>5, <1>6 DEF Says
<1>9. DOMAIN Remembered(priv, o, NoHandleRange) \subseteq Users
  BY DEF TableHolds, Remembered
<1> QED
  BY <1>2, <1>7, <1>8, <1>9 DEF TableHolds

\* write_var_row over what the user had: the old range is released first.
LEMMA PrivateReplaced ==
  ASSUME NEW t, NEW refs, NEW priv, TableHolds(t, refs, priv), NEW o \in DOMAIN priv,
         NEW data, IsPayload(data), Writable(t.pool, priv[o], data)
  PROVE  LET w == PrivateWrite(t, o, priv[o], data)
         IN /\ TableHolds(w.table, refs, Remembered(priv, o, w.range))
            /\ w.table.entries = t.entries
<1> DEFINE u == [t EXCEPT !.pool = Release(@, priv[o]), !.meant = Forgotten(@, o)]
           w == PrivateWrite(t, o, priv[o], data)
           x == PrivateWrite(u, o, NoHandleRange, data)
<1>1. t = [pool |-> t.pool, entries |-> t.entries, meant |-> t.meant]
      /\ o \in Users
  BY DEF TableHolds
<1>0. GivesUp(t, u, o, priv[o])
  BY <1>1, UpdateGivesUp
<1> HIDE DEF u
<1>2. /\ u.pool = Release(t.pool, priv[o]) /\ u.entries = t.entries
      /\ u.meant = Forgotten(t.meant, o)
      /\ u = [pool |-> u.pool, entries |-> u.entries, meant |-> u.meant]
  BY <1>0 DEF GivesUp
<1>3. TableHolds(u, refs, Forgotten(priv, o)) /\ o \notin DOMAIN Forgotten(priv, o)
  <2>1. TableHolds(u, refs, Forgotten(priv, o))
    BY <1>0, PrivateGoes
  <2>2. o \notin DOMAIN Forgotten(priv, o)
    BY DEF Forgotten
  <2> QED
    BY <2>1, <2>2
<1>4. \A p : Release(p, NoHandleRange) = p
  BY DEF Release, NoHandleRange
<1>5. Writable(u.pool, NoHandleRange, data)
  BY <1>2, <1>4 DEF Writable
<1>6. WriteVarRow(u.pool, NoHandleRange, data) = WriteVarRow(t.pool, priv[o], data)
  BY <1>2, <1>4 DEF WriteVarRow
<1>7. Remembered(u.meant, o, data) = Remembered(t.meant, o, data)
  BY <1>2 DEF Remembered, Forgotten
<1>8. w = x
  <2> DEFINE v == WriteVarRow(t.pool, priv[o], data)
             m == Remembered(t.meant, o, data)
  <2>1. w = [table |-> [t EXCEPT !.pool = v.pool, !.meant = m], range |-> v.handle]
    BY DEF PrivateWrite
  <2>2. x = [table |-> [u EXCEPT !.pool = v.pool, !.meant = m], range |-> v.handle]
    BY <1>6, <1>7 DEF PrivateWrite
  <2> HIDE DEF v, m
  <2>3. [u EXCEPT !.pool = v.pool, !.meant = m] = [t EXCEPT !.pool = v.pool, !.meant = m]
    BY <1>1, <1>2
  <2> QED
    BY <2>1, <2>2, <2>3
<1>9. /\ TableHolds(x.table, refs, Remembered(Forgotten(priv, o), o, x.range))
      /\ x.table.entries = u.entries
  BY <1>1, <1>3, <1>5, PrivateComes
<1>10. Remembered(Forgotten(priv, o), o, x.range) = Remembered(priv, o, x.range)
  BY DEF Remembered, Forgotten
<1> QED
  BY <1>2, <1>8, <1>9, <1>10

---------------------------------------------------------------------------
(* Rows and leases.                                                        *)

IdOf == [x \in Users |-> IF x \in InternRows THEN idByRow[x]
                         ELSE IF gpuLease[x].live THEN gpuLease[x].id ELSE NoId]

Private ==
  [x \in {r \in InternRows : idByRow[r] = NoId}
           \cup {l \in InternLeases : gpuLease[l].live /\ gpuLease[l].id = NoId}
     |-> IF x \in InternRows THEN privateByRow[x] ELSE gpuLease[x].range]

UsersTypeOK ==
  /\ idByRow \in [InternRows -> Ids \cup {NoId}]
  /\ privateByRow = [r \in InternRows |-> privateByRow[r]]
  /\ \A r \in InternRows : idByRow[r] # NoId => privateByRow[r] = NoHandleRange
  /\ gpuLease = [l \in InternLeases |-> gpuLease[l]]
  /\ \A l \in InternLeases : gpuLease[l].live => gpuLease[l].id \in Ids \cup {NoId}

\* A lease on an entry has the entry's range.
LeasesPoint(e) ==
  \A l \in InternLeases : gpuLease[l].live /\ gpuLease[l].id # NoId
    => gpuLease[l].id \in DOMAIN e /\ gpuLease[l].range = e[gpuLease[l].id].range

InternInv == UsersTypeOK /\ TableHolds(Table, IdOf, Private) /\ LeasesPoint(entries)

\* The table is the pool, the entries and what was written, side by side.
LEMMA TableParts ==
  Table.pool = shared /\ Table.entries = entries /\ Table.meant = meant
BY DEF Table

\* InternInv is InternedExact, user by user.
LEMMA InternExactly ==
  ASSUME InternInv
  PROVE  InternedExact
<1>1. /\ IsPool(shared) /\ Shares(shared, Joined(entries, Private))
      /\ Says(shared, Joined(entries, Private), meant)
      /\ IsEntries(entries) /\ Counted(entries, IdOf)
  BY TableParts DEF InternInv, TableHolds
<1>2. RangeOf = Joined(entries, Private)
  <2>1. DOMAIN entries \cap Users = {}
    BY <1>1, UsersFinite DEF IsEntries
  <2>2. Owners = DOMAIN entries \cup DOMAIN Private
    BY DEF Owners, Private
  <2>3. ASSUME NEW o \in Owners
        PROVE  RangeOf[o] = IF o \in DOMAIN Private THEN Private[o] ELSE entries[o].range
    <3>1. CASE o \in DOMAIN entries
      <4>1. o \notin InternRows /\ o \notin InternLeases /\ o \notin DOMAIN Private
        BY <2>1, <3>1 DEF Users, Private
      <4> QED
        BY <4>1 DEF RangeOf
    <3>2. CASE o \in DOMAIN Private
      <4>1. o \in InternRows \/ o \in InternLeases
        BY <3>2 DEF Private
      <4> QED
        BY <3>2, <4>1 DEF RangeOf, Private
    <3> QED
      BY <2>2, <3>1, <3>2
  <2>4. RangeOf = [o \in Owners |-> RangeOf[o]]
    BY DEF RangeOf
  <2> QED
    BY <2>2, <2>3, <2>4 DEF Joined
<1>3. \A id \in Ids : Naming(id) = UsersOf(IdOf, id)
  BY InternAssumption DEF Naming, UsersOf, IdOf, Users
<1>4. CountsExact
  BY <1>1, <1>3 DEF CountsExact, Counted, InternInv, LeasesPoint
<1> DEFINE own == Joined(entries, Private)
<1>5. RangesPartition
  <2> HIDE DEF own
  <2>1. \A o, p \in DOMAIN own : o # p => OwnedRows(own[o]) \cap OwnedRows(own[p]) = {}
    BY <1>1 DEF Shares, own
  <2>2. \A o \in DOMAIN own : OwnedRows(own[o]) \subseteq 0 .. shared.cap - 1
    <3> SUFFICES ASSUME NEW o \in DOMAIN own PROVE OwnedRows(own[o]) \subseteq 0 .. shared.cap - 1
      OBVIOUS
    <3>1. IsPlace(own[o], shared.cap) /\ shared.cap \in Nat
      BY <1>1 DEF Shares, IsPool, own
    <3>2. PaddedLen(own[o].count) \in Nat
      BY <3>1, PaddedBounds DEF IsPlace
    <3> QED
      BY <3>1, <3>2 DEF IsPlace, OwnedRows
  <2>3. \A i : i \in Covered(shared.free) <=>
                 i \in 0 .. shared.cap - 1 /\ ~\E o \in DOMAIN own : i \in OwnedRows(own[o])
    BY <1>1 DEF Shares, own
  <2>4. \A i : i \in UNION {OwnedRows(own[o]) : o \in DOMAIN own}
                 <=> i \in (0 .. shared.cap - 1) \ Covered(shared.free)
    BY <2>2, <2>3
  <2>5. UNION {OwnedRows(own[o]) : o \in DOMAIN own} = (0 .. shared.cap - 1) \ Covered(shared.free)
    BY <2>4
  <2> QED
    BY <1>2, <2>1, <2>5 DEF RangesPartition, own
<1> QED
  BY <1>1, <1>2, <1>4, <1>5 DEF InternedExact, Says

\* The pool starts with nobody's ranges in it, and no user of any id.
LEMMA InternInitInv ==
  ASSUME InternInit
  PROVE  InternInv
<1>1. /\ shared = NewPool(InternCap) /\ entries = <<>> /\ meant = <<>>
      /\ idByRow = [r \in InternRows |-> NoId]
      /\ privateByRow = [r \in InternRows |-> NoHandleRange]
      /\ gpuLease = [l \in InternLeases |-> FreeLease]
      /\ DOMAIN entries = {}
  BY DEF InternInit
<1>2. FreeLease.live = FALSE
  BY DEF FreeLease
<1>3. UsersTypeOK
  BY <1>1, <1>2 DEF UsersTypeOK
<1>4. InternCap \in Nat /\ NoId \notin Ids
  BY InternAssumption
<1>5. IsPool(shared)
  <2>1. /\ shared.cap = InternCap /\ shared.free = NewRange(InternCap)
        /\ shared.mem = [i \in 0 .. InternCap - 1 |-> Blank]
        /\ shared = [cap |-> shared.cap, free |-> shared.free, mem |-> shared.mem]
    BY <1>1 DEF NewPool
  <2>2. IsSoundList(NewRange(InternCap), InternCap)
    BY <1>4, NewRangeSound
  <2>3. \A s \in NewRange(InternCap) : Aligned(s.off)
    <3>1. 0 = 0 * ElemAlign
      BY PoolAssumption
    <3> QED
      BY <3>1 DEF NewRange, SpanOf, Aligned
  <2>4. shared.mem = [i \in 0 .. shared.cap - 1 |-> shared.mem[i]]
    BY <2>1
  <2> QED
    BY <1>4, <2>1, <2>2, <2>3, <2>4 DEF IsPool
<1>6. /\ DOMAIN Private = InternRows /\ \A r \in InternRows : Private[r] = NoHandleRange
      /\ IdOf = [x \in Users |-> NoId]
  BY <1>1, <1>2 DEF Private, IdOf, Users
<1> DEFINE own == Joined(entries, Private)
<1>7. DOMAIN own = InternRows /\ \A r \in InternRows : own[r] = NoHandleRange
  BY <1>1, <1>6 DEF Joined
<1> HIDE DEF own
<1>8. NoHandleRange.offset = 0 /\ NoHandleRange.count = 0
  BY DEF NoHandleRange
<1>9. OwnedRows(NoHandleRange) = {} /\ IsPlace(NoHandleRange, shared.cap)
  <2>1. PaddedLen(0) = 0
    BY PaddedBounds
  <2>2. 0 = 0 * ElemAlign
    BY PoolAssumption
  <2>3. shared.cap \in Nat
    BY <1>5 DEF IsPool
  <2> QED
    BY <1>8, <2>1, <2>2, <2>3, EmptyOwnsNothing DEF IsPlace, Aligned
<1>10. Shares(shared, own)
  <2>1. Covered(shared.free) = 0 .. shared.cap - 1
    BY <1>1, <1>4, NewRangeSound DEF NewPool
  <2> QED
    BY <1>7, <1>9, <2>1 DEF Shares
<1>11. Says(shared, own, meant)
  BY <1>7, <1>8 DEF Says
<1>12. IsEntries(entries) /\ Counted(entries, IdOf)
  <2>1. \A id \in Ids : UsersOf(IdOf, id) = {}
    BY <1>4, <1>6 DEF UsersOf
  <2> QED
    BY <1>1, <2>1 DEF IsEntries, Counted
<1>13. TableHolds(Table, IdOf, Private)
  <2>1. Table = [pool |-> Table.pool, entries |-> Table.entries, meant |-> Table.meant]
    BY DEF Table
  <2>2. IdOf \in [Users -> Ids \cup {NoId}] /\ DOMAIN Private \subseteq Users
    BY <1>6 DEF Users
  <2> QED
    BY <1>5, <1>10, <1>11, <1>12, <2>1, <2>2, TableParts DEF TableHolds, own
<1>14. LeasesPoint(entries)
  BY <1>1, <1>2 DEF LeasesPoint
<1> QED
  BY <1>3, <1>13, <1>14 DEF InternInv

\* What a row change does to the two maps of users.
LEMMA RowChanges ==
  ASSUME UsersTypeOK, NEW row \in InternRows, NEW id \in Ids \cup {NoId}, NEW range,
         SetRow(row, id, range), id # NoId => range = NoHandleRange, UNCHANGED gpuLease
  PROVE  /\ UsersTypeOK' /\ row \in Users
         /\ IdOf' = [IdOf EXCEPT ![row] = id]
         /\ Private' = IF id = NoId THEN Remembered(Private, row, range)
                       ELSE Forgotten(Private, row)
<1>1. /\ idByRow' = [idByRow EXCEPT ![row] = id]
      /\ privateByRow' = [privateByRow EXCEPT ![row] = range]
      /\ gpuLease' = gpuLease
  BY DEF SetRow
<1>2. row \notin InternLeases /\ row \in Users
  BY InternAssumption DEF Users
<1>3. UsersTypeOK'
  BY <1>1 DEF UsersTypeOK
<1>4. /\ \A r \in InternRows : idByRow'[r] = IF r = row THEN id ELSE idByRow[r]
      /\ \A r \in InternRows : privateByRow'[r] = IF r = row THEN range ELSE privateByRow[r]
  BY <1>1 DEF UsersTypeOK
<1>5. IdOf' = [IdOf EXCEPT ![row] = id]
  BY <1>1, <1>2, <1>4 DEF IdOf, Users
<1>6. CASE id = NoId
  <2>1. DOMAIN Private' = DOMAIN Private \cup {row}
    BY <1>1, <1>4, <1>6 DEF Private
  <2>2. \A x \in DOMAIN Private' : Private'[x] = IF x = row THEN range ELSE Private[x]
    BY <1>1, <1>2, <1>4, <1>6 DEF Private
  <2>3. Private' = [x \in DOMAIN Private' |-> Private'[x]]
    BY DEF Private
  <2> QED
    BY <1>3, <1>2, <1>5, <1>6, <2>1, <2>2, <2>3 DEF Remembered
<1>7. CASE id # NoId
  <2>1. DOMAIN Private' = DOMAIN Private \ {row}
    BY <1>1, <1>2, <1>4, <1>7 DEF Private
  <2>2. \A x \in DOMAIN Private' : Private'[x] = Private[x]
    BY <1>1, <1>2, <1>4, <1>7 DEF Private
  <2>3. Private' = [x \in DOMAIN Private' |-> Private'[x]]
    BY DEF Private
  <2> QED
    BY <1>3, <1>2, <1>5, <1>7, <2>1, <2>2, <2>3 DEF Forgotten
<1> QED
  BY <1>6, <1>7

\* What a lease that comes or goes does to them.
LEMMA LeaseChanges ==
  ASSUME UsersTypeOK, NEW l \in InternLeases, NEW new,
         gpuLease' = [gpuLease EXCEPT ![l] = new], UNCHANGED <<idByRow, privateByRow>>,
         new.live => new.id \in Ids \cup {NoId}
  PROVE  /\ UsersTypeOK' /\ l \in Users
         /\ IdOf' = [IdOf EXCEPT ![l] = IF new.live THEN new.id ELSE NoId]
         /\ Private' = IF new.live /\ new.id = NoId THEN Remembered(Private, l, new.range)
                       ELSE Forgotten(Private, l)
<1>1. l \notin InternRows /\ l \in Users
  BY InternAssumption DEF Users
<1>2. \A m \in InternLeases : gpuLease'[m] = IF m = l THEN new ELSE gpuLease[m]
  BY DEF UsersTypeOK
<1>3. UsersTypeOK'
  BY <1>2 DEF UsersTypeOK
<1>4. IdOf' = [IdOf EXCEPT ![l] = IF new.live THEN new.id ELSE NoId]
  <2> DEFINE name == IF new.live THEN new.id ELSE NoId
  <2>1. IdOf'[l] = name
    BY <1>1, <1>2 DEF IdOf, Users
  <2>2. \A x \in Users : x # l => IdOf'[x] = IdOf[x]
    BY <1>1, <1>2 DEF IdOf, Users
  <2> HIDE DEF name
  <2>3. IdOf' = [x \in Users |-> IdOf'[x]] /\ IdOf = [x \in Users |-> IdOf[x]]
    BY DEF IdOf
  <2>4. IdOf' = [IdOf EXCEPT ![l] = name]
    BY <1>1, <2>1, <2>2, <2>3
  <2> QED
    BY <2>4 DEF name
<1>5. CASE new.live /\ new.id = NoId
  <2>1. DOMAIN Private' = DOMAIN Private \cup {l}
    BY <1>2, <1>5 DEF Private
  <2>2. \A x \in DOMAIN Private' : Private'[x] = IF x = l THEN new.range ELSE Private[x]
    BY <1>1, <1>2, <1>5 DEF Private
  <2>3. Private' = [x \in DOMAIN Private' |-> Private'[x]]
    BY DEF Private
  <2> QED
    BY <1>1, <1>3, <1>4, <1>5, <2>1, <2>2, <2>3 DEF Remembered
<1>6. CASE ~(new.live /\ new.id = NoId)
  <2>1. DOMAIN Private' = DOMAIN Private \ {l}
    BY <1>1, <1>2, <1>6 DEF Private
  <2>2. \A x \in DOMAIN Private' : Private'[x] = Private[x]
    <3>1. \A x \in DOMAIN Private' : x # l
      BY <2>1
    <3>2. \A x \in InternLeases : x # l => gpuLease'[x] = gpuLease[x]
      BY <1>2
    <3> QED
      BY <2>1, <3>1, <3>2 DEF Private
  <2>3. Private' = [x \in DOMAIN Private' |-> Private'[x]]
    BY DEF Private
  <2> QED
    BY <1>1, <1>3, <1>4, <1>6, <2>1, <2>2, <2>3 DEF Forgotten
<1> QED
  BY <1>5, <1>6

\* A lease that still refers to an entry after a change still points at it.
LEMMA StillPoints ==
  ASSUME NEW t, NEW refs, NEW priv, TableHolds(t, refs, priv), NEW e, KeptRanges(e, t.entries),
         NEW l \in InternLeases, refs[l] \in DOMAIN e, refs[l] \in Ids
  PROVE  refs[l] \in DOMAIN t.entries /\ t.entries[refs[l]].range = e[refs[l]].range
<1>1. l \in Users
  BY DEF Users
<1> QED
  BY <1>1, EntryUsed DEF KeptRanges

\* Nothing is dropped from a map that does not have it.
LEMMA ForgetsNothing ==
  ASSUME NEW t, NEW refs, NEW priv, TableHolds(t, refs, priv), NEW x, x \notin DOMAIN Private
  PROVE  Forgotten(Private, x) = Private
BY DEF Forgotten, Private

\* A row gives up what it has.
LEMMA VacatedHolds ==
  ASSUME InternInv, NEW row \in InternRows
  PROVE  LET t == Vacated(row)
         IN /\ TableHolds(t, [IdOf EXCEPT ![row] = NoId], Forgotten(Private, row))
            /\ KeptRanges(entries, t.entries)
<1>1. /\ row \in Users /\ IdOf[row] = idByRow[row] /\ idByRow[row] \in Ids \cup {NoId}
      /\ TableHolds(Table, IdOf, Private) /\ NoId \notin Ids
  BY InternAssumption DEF InternInv, UsersTypeOK, Users, IdOf
<1>2. CASE idByRow[row] # NoId
  <2>1. Vacated(row) = Decref(Table, IdOf[row])
    BY <1>1, <1>2 DEF Vacated
  <2>2. row \notin DOMAIN Private
    BY <1>2, InternAssumption DEF Private
  <2>3. Forgotten(Private, row) = Private
    BY <1>1, <2>2, ForgetsNothing
  <2>4. IdOf[row] \in Ids
    BY <1>1, <1>2
  <2> QED
    BY <1>1, <2>1, <2>3, <2>4, DecrefHolds, TableParts
<1>3. CASE idByRow[row] = NoId
  <2>1. row \in DOMAIN Private /\ Private[row] = privateByRow[row]
    BY <1>3 DEF Private
  <2>2. Vacated(row) = [Table EXCEPT !.pool = Release(@, Private[row]), !.meant = Forgotten(@, row)]
    BY <1>3, <2>1 DEF Vacated
  <2>3. [IdOf EXCEPT ![row] = NoId] = IdOf
    BY <1>1, <1>3 DEF IdOf
  <2>4. TableHolds(Vacated(row), IdOf, Forgotten(Private, row)) /\ Vacated(row).entries = entries
    <3> DEFINE u == [Table EXCEPT !.pool = Release(@, Private[row]), !.meant = Forgotten(@, row)]
    <3>0. GivesUp(Table, u, row, Private[row])
      <4>1. Table = [pool |-> Table.pool, entries |-> Table.entries, meant |-> Table.meant]
        BY <1>1 DEF TableHolds
      <4> QED
        BY <4>1, UpdateGivesUp
    <3>2. Vacated(row) = u
      BY <2>2
    <3> HIDE DEF u
    <3>1. TableHolds(u, IdOf, Forgotten(Private, row)) /\ u.entries = Table.entries
      BY <1>1, <2>1, <3>0, PrivateGoes
    <3> QED
      BY <3>1, <3>2, TableParts
  <2> QED
    BY <2>3, <2>4 DEF KeptRanges
<1> QED
  BY <1>2, <1>3

\* After the table, the users are brought up to date.
LEMMA NowHolds ==
  ASSUME NEW t, Becomes(t), TableHolds(t, IdOf', Private')
  PROVE  TableHolds(Table, IdOf, Private)'
<1>1. shared' = t.pool /\ entries' = t.entries /\ meant' = t.meant
  BY DEF Becomes
<1>2. t = [pool |-> t.pool, entries |-> t.entries, meant |-> t.meant]
  BY DEF TableHolds
<1>3. Table' = t
  BY <1>1, <1>2 DEF Table
<1>4. TableHolds(Table, IdOf, Private)' <=> TableHolds(Table', IdOf', Private')
  BY DEF TableHolds, IsPool, Shares, Says, IsEntries, Counted, Joined, UsersOf, Users, IsPlace,
         Aligned, IsSoundList, ReadRange, OwnedRows, PaddedLen
<1> QED
  BY <1>3, <1>4

\* The leases of a row's change.
LEMMA RowLeases ==
  ASSUME InternInv, NEW row \in InternRows, NEW t, NEW refs, NEW priv,
         TableHolds(t, refs, priv), \A x \in Users : x # row => refs[x] = IdOf[x],
         KeptRanges(entries, t.entries)
  PROVE  LeasesPoint(t.entries)
<1> SUFFICES ASSUME NEW l \in InternLeases, gpuLease[l].live, gpuLease[l].id # NoId
             PROVE  /\ gpuLease[l].id \in DOMAIN t.entries
                    /\ gpuLease[l].range = t.entries[gpuLease[l].id].range
  BY DEF LeasesPoint
<1>1. l # row /\ l \in Users /\ l \notin InternRows
  BY InternAssumption DEF Users
<1>2. gpuLease[l].id \in Ids /\ IdOf[l] = gpuLease[l].id
  BY <1>1 DEF InternInv, UsersTypeOK, IdOf
<1>3. refs[l] = IdOf[l]
  BY <1>1
<1>4. gpuLease[l].id \in DOMAIN entries /\ gpuLease[l].range = entries[gpuLease[l].id].range
  BY DEF InternInv, LeasesPoint
<1>5. refs[l] \in Ids /\ refs[l] \in DOMAIN entries
  BY <1>2, <1>3, <1>4
<1>6. refs[l] \in DOMAIN t.entries /\ t.entries[refs[l]].range = entries[refs[l]].range
  BY <1>5, StillPoints
<1> QED
  BY <1>2, <1>3, <1>4, <1>6

\* What a caller writes is a payload.
LEMMA PayloadsAre ==
  ASSUME NEW data \in Contents
  PROVE  IsPayload(data)
BY InternAssumption DEF IsPayload

\* upsert_row without an id: the row leaves its entry, if it has one, and
\* writes over its private range, or a new one.
LEMMA UpsertPrivateKeeps ==
  ASSUME InternInv, NEW row \in InternRows, NEW data \in Contents, UpsertPrivate(row, data)
  PROVE  InternInv'
<1> DEFINE t == IF idByRow[row] # NoId THEN Decref(Table, idByRow[row]) ELSE Table
           w == PrivateWrite(t, row, privateByRow[row], data)
           refs == [IdOf EXCEPT ![row] = NoId]
<1>1. /\ Writable(t.pool, privateByRow[row], data)
      /\ Becomes(w.table) /\ SetRow(row, NoId, w.range) /\ gpuLease' = gpuLease
  BY DEF UpsertPrivate
<1> HIDE DEF w
<1>2. /\ UsersTypeOK' /\ row \in Users /\ IdOf' = refs
      /\ Private' = Remembered(Private, row, w.range)
  BY <1>1, RowChanges DEF InternInv
<1>3. /\ TableHolds(Table, IdOf, Private) /\ IdOf[row] = idByRow[row]
      /\ idByRow[row] \in Ids \cup {NoId} /\ IsPayload(data)
  BY <1>2, PayloadsAre DEF InternInv, UsersTypeOK, IdOf
<1>4. /\ TableHolds(w.table, refs, Remembered(Private, row, w.range))
      /\ KeptRanges(entries, w.table.entries)
  <2>1. CASE idByRow[row] # NoId
    <3>1. t = Decref(Table, IdOf[row]) /\ IdOf[row] \in Ids
      BY <1>3, <2>1
    <3> HIDE DEF t
    <3>2. TableHolds(t, refs, Private) /\ KeptRanges(entries, t.entries)
      BY <1>2, <1>3, <3>1, DecrefHolds, TableParts
    <3>3. row \notin DOMAIN Private /\ privateByRow[row] = NoHandleRange
      BY <2>1, InternAssumption DEF Private, InternInv, UsersTypeOK
    <3>4. /\ TableHolds(w.table, refs, Remembered(Private, row, w.range))
          /\ w.table.entries = t.entries
      BY <1>1, <1>2, <1>3, <3>2, <3>3, PrivateComes DEF w
    <3> QED
      BY <3>2, <3>4
  <2>2. CASE idByRow[row] = NoId
    <3>1. t = Table
      BY <2>2
    <3> HIDE DEF t
    <3>2. refs = IdOf
      BY <1>3, <2>2 DEF IdOf
    <3>3. row \in DOMAIN Private /\ Private[row] = privateByRow[row]
      BY <2>2 DEF Private
    <3>4. /\ TableHolds(w.table, IdOf, Remembered(Private, row, w.range))
          /\ w.table.entries = t.entries
      BY <1>1, <1>3, <3>1, <3>3, PrivateReplaced DEF w
    <3> QED
      BY <3>1, <3>2, <3>4, TableParts DEF KeptRanges
  <2> QED
    BY <2>1, <2>2
<1>5. TableHolds(Table, IdOf, Private)'
  BY <1>1, <1>2, <1>4, NowHolds
<1>6. LeasesPoint(w.table.entries)
  <2>1. \A x \in Users : x # row => refs[x] = IdOf[x]
    BY DEF IdOf
  <2> HIDE DEF refs
  <2> QED
    BY <1>4, <2>1, RowLeases
<1>7. LeasesPoint(entries)'
  BY <1>1, <1>6 DEF LeasesPoint, Becomes
<1> QED
  BY <1>2, <1>5, <1>7 DEF InternInv

\* upsert_row with an id: the row gives up what it had, and joins the entry
\* of the id, made of its payload when it is the first.
LEMMA UpsertInternedKeeps ==
  ASSUME InternInv, NEW row \in InternRows, NEW id \in Ids, NEW data \in Contents,
         UpsertInterned(row, id, data)
  PROVE  InternInv'
<1> DEFINE t == Vacated(row)
           w == InternLocked(t, id, data)
           mid == [IdOf EXCEPT ![row] = NoId]
           refs == [IdOf EXCEPT ![row] = id]
<1>1. /\ id \in DOMAIN t.entries \/ Writable(t.pool, NoHandleRange, data)
      /\ Becomes(w.table) /\ SetRow(row, id, NoHandleRange) /\ gpuLease' = gpuLease
  BY DEF UpsertInterned
<1>2. TableHolds(t, mid, Forgotten(Private, row)) /\ KeptRanges(entries, t.entries)
  BY VacatedHolds
<1> HIDE DEF w, t
<1>3. id # NoId
  BY InternAssumption
<1>4. /\ UsersTypeOK' /\ row \in Users /\ IdOf' = refs /\ Private' = Forgotten(Private, row)
  BY <1>1, <1>3, RowChanges DEF InternInv
<1>5. mid[row] = NoId /\ [mid EXCEPT ![row] = id] = refs
  BY <1>4 DEF IdOf
<1> HIDE DEF mid
<1>6. /\ TableHolds(w.table, [mid EXCEPT ![row] = id], Forgotten(Private, row))
      /\ KeptRanges(t.entries, w.table.entries)
  BY <1>1, <1>2, <1>4, <1>5, PayloadsAre, InternHolds DEF w
<1>7. TableHolds(Table, IdOf, Private)'
  BY <1>1, <1>4, <1>5, <1>6, NowHolds
<1>8. LeasesPoint(t.entries)
  <2>1. \A x \in Users : x # row => mid[x] = IdOf[x]
    BY DEF IdOf, mid
  <2> QED
    BY <1>2, <2>1, RowLeases
<1>9. LeasesPoint(w.table.entries)
  <2> SUFFICES ASSUME NEW l \in InternLeases, gpuLease[l].live, gpuLease[l].id # NoId
               PROVE  /\ gpuLease[l].id \in DOMAIN w.table.entries
                      /\ gpuLease[l].range = w.table.entries[gpuLease[l].id].range
    BY DEF LeasesPoint
  <2>1. l # row /\ l \in Users /\ l \notin InternRows
    BY InternAssumption DEF Users
  <2>2. gpuLease[l].id \in Ids /\ IdOf[l] = gpuLease[l].id
    BY <2>1 DEF InternInv, UsersTypeOK, IdOf
  <2>3. [mid EXCEPT ![row] = id][l] = gpuLease[l].id
    BY <1>5, <2>1, <2>2 DEF IdOf
  <2>4. gpuLease[l].id \in DOMAIN t.entries /\ gpuLease[l].range = t.entries[gpuLease[l].id].range
    BY <1>8 DEF LeasesPoint
  <2> DEFINE last == [mid EXCEPT ![row] = id]
  <2>5. last[l] \in Ids /\ last[l] \in DOMAIN t.entries /\ last[l] = gpuLease[l].id
    BY <2>2, <2>3, <2>4
  <2>6. TableHolds(w.table, last, Forgotten(Private, row)) /\ KeptRanges(t.entries, w.table.entries)
    BY <1>6
  <2> HIDE DEF last
  <2>7. last[l] \in DOMAIN w.table.entries /\ w.table.entries[last[l]].range = t.entries[last[l]].range
    BY <2>5, <2>6, StillPoints
  <2> QED
    BY <2>4, <2>5, <2>7
<1>10. LeasesPoint(entries)'
  BY <1>1, <1>9 DEF LeasesPoint, Becomes
<1> QED
  BY <1>4, <1>7, <1>10 DEF InternInv

\* release_row: the row gives up what it had.
LEMMA ReleaseRowKeeps ==
  ASSUME InternInv, NEW row \in InternRows, ReleaseRow(row)
  PROVE  InternInv'
<1> DEFINE t == Vacated(row)
           refs == [IdOf EXCEPT ![row] = NoId]
<1>1. Becomes(t) /\ SetRow(row, NoId, NoHandleRange) /\ gpuLease' = gpuLease
  BY DEF ReleaseRow
<1>2. TableHolds(t, refs, Forgotten(Private, row)) /\ KeptRanges(entries, t.entries)
  BY VacatedHolds
<1> HIDE DEF t
<1>3. /\ UsersTypeOK' /\ row \in Users /\ IdOf' = refs
      /\ Private' = Remembered(Private, row, NoHandleRange)
  BY <1>1, RowChanges DEF InternInv
<1>4. row \notin DOMAIN Forgotten(Private, row)
  BY DEF Forgotten
<1>5. Remembered(Forgotten(Private, row), row, NoHandleRange) = Remembered(Private, row, NoHandleRange)
  BY DEF Remembered, Forgotten
<1>6. TableHolds(t, refs, Private')
  BY <1>2, <1>3, <1>4, <1>5, EmptyComes
<1>7. TableHolds(Table, IdOf, Private)'
  BY <1>1, <1>3, <1>6, NowHolds
<1>8. LeasesPoint(t.entries)
  <2>1. \A x \in Users : x # row => refs[x] = IdOf[x]
    BY DEF IdOf
  <2> HIDE DEF refs
  <2> QED
    BY <1>2, <2>1, RowLeases
<1>9. LeasesPoint(entries)'
  BY <1>1, <1>8 DEF LeasesPoint, Becomes
<1> QED
  BY <1>3, <1>7, <1>9 DEF InternInv

\* Other leases than l after l came or went.
LEMMA OtherLeases ==
  ASSUME InternInv, NEW l \in InternLeases, NEW new, gpuLease' = [gpuLease EXCEPT ![l] = new],
         NEW t, Becomes(t), NEW priv, NEW id, TableHolds(t, [IdOf EXCEPT ![l] = id], priv),
         KeptRanges(entries, t.entries),
         new.live /\ new.id # NoId => new.id \in DOMAIN t.entries /\ new.range = t.entries[new.id].range
  PROVE  LeasesPoint(entries)'
<1>1. entries' = t.entries
  BY DEF Becomes
<1> SUFFICES ASSUME NEW m \in InternLeases, gpuLease'[m].live, gpuLease'[m].id # NoId
             PROVE  /\ gpuLease'[m].id \in DOMAIN t.entries
                    /\ gpuLease'[m].range = t.entries[gpuLease'[m].id].range
  BY <1>1 DEF LeasesPoint
<1>2. CASE m = l
  <2>1. gpuLease'[m] = new
    BY <1>2 DEF InternInv, UsersTypeOK
  <2> QED
    BY <2>1
<1>3. CASE m # l
  <2>1. gpuLease'[m] = gpuLease[m]
    BY <1>3 DEF InternInv, UsersTypeOK
  <2>2. m \in Users /\ m \notin InternRows
    BY InternAssumption DEF Users
  <2>3. gpuLease[m].id \in Ids /\ IdOf[m] = gpuLease[m].id
    BY <2>1, <2>2 DEF InternInv, UsersTypeOK, IdOf
  <2>4. [IdOf EXCEPT ![l] = id][m] = gpuLease[m].id
    BY <1>3, <2>2, <2>3 DEF IdOf
  <2>5. gpuLease[m].id \in DOMAIN entries /\ gpuLease[m].range = entries[gpuLease[m].id].range
    BY <2>1 DEF InternInv, LeasesPoint
  <2> DEFINE last == [IdOf EXCEPT ![l] = id]
  <2>6. last[m] \in Ids /\ last[m] \in DOMAIN entries /\ last[m] = gpuLease[m].id
    BY <2>3, <2>4, <2>5
  <2>7. TableHolds(t, last, priv)
    OBVIOUS
  <2> HIDE DEF last
  <2>8. last[m] \in DOMAIN t.entries /\ t.entries[last[m]].range = entries[last[m]].range
    BY <2>6, <2>7, StillPoints
  <2> QED
    BY <2>1, <2>5, <2>6, <2>8
<1> QED
  BY <1>2, <1>3

\* acquire_shared: a lease joins an entry as a row does, or gets a range of its own.
LEMMA AcquireSharedKeeps ==
  ASSUME InternInv, NEW l \in InternLeases, NEW id \in Ids \cup {NoId}, NEW data \in Contents,
         AcquireShared(l, id, data)
  PROVE  InternInv'
<1> DEFINE w == IF id = NoId THEN PrivateWrite(Table, l, NoHandleRange, data)
                ELSE InternLocked(Table, id, data)
           new == [live |-> TRUE, id |-> id, range |-> w.range]
           refs == [IdOf EXCEPT ![l] = id]
<1>1. /\ ~gpuLease[l].live
      /\ id \in DOMAIN entries \/ Writable(shared, NoHandleRange, data)
      /\ Becomes(w.table) /\ gpuLease' = [gpuLease EXCEPT ![l] = new]
      /\ idByRow' = idByRow /\ privateByRow' = privateByRow
  BY DEF AcquireShared
<1>2. new.live = TRUE /\ new.id = id /\ new.range = w.range
  OBVIOUS
<1> HIDE DEF new, w
<1>3. /\ UsersTypeOK' /\ l \in Users /\ IdOf' = refs
      /\ Private' = IF id = NoId THEN Remembered(Private, l, w.range) ELSE Forgotten(Private, l)
  BY <1>1, <1>2, LeaseChanges DEF InternInv
<1>4. /\ l \notin DOMAIN Private /\ IdOf[l] = NoId /\ NoId \notin Ids
      /\ TableHolds(Table, IdOf, Private) /\ IsPayload(data)
  BY <1>1, <1>3, PayloadsAre, InternAssumption DEF Private, IdOf, InternInv
<1>5. /\ TableHolds(w.table, refs, Private') /\ KeptRanges(entries, w.table.entries)
      /\ id # NoId => id \in DOMAIN w.table.entries /\ w.range = w.table.entries[id].range
  <2>1. CASE id = NoId
    <3>1. w = PrivateWrite(Table, l, NoHandleRange, data)
      BY <2>1 DEF w
    <3>2. Writable(shared, NoHandleRange, data)
      BY <1>1, <1>4, <2>1, TableParts DEF TableHolds, IsEntries
    <3>3. refs = IdOf
      BY <1>3, <1>4, <2>1 DEF IdOf
    <3>4. /\ TableHolds(w.table, IdOf, Remembered(Private, l, w.range))
          /\ w.table.entries = Table.entries
      BY <1>3, <1>4, <3>1, <3>2, TableParts, PrivateComes
    <3> QED
      BY <1>3, <2>1, <3>3, <3>4, TableParts DEF KeptRanges
  <2>2. CASE id # NoId
    <3>1. w = InternLocked(Table, id, data) /\ id \in Ids
      BY <2>2 DEF w
    <3>2. Private' = Private
      BY <1>3, <1>4, <2>2, ForgetsNothing
    <3>3. /\ TableHolds(w.table, refs, Private) /\ KeptRanges(Table.entries, w.table.entries)
          /\ id \in DOMAIN w.table.entries /\ w.range = w.table.entries[id].range
      <4>1. id \in DOMAIN Table.entries \/ Writable(Table.pool, NoHandleRange, data)
        BY <1>1, TableParts
      <4> QED
        BY <1>3, <1>4, <3>1, <4>1, InternHolds, ZenonT(30)
    <3> QED
      BY <3>2, <3>3, TableParts
  <2> QED
    BY <2>1, <2>2
<1>6. TableHolds(Table, IdOf, Private)'
  BY <1>1, <1>3, <1>5, NowHolds
<1>7. LeasesPoint(entries)'
  BY <1>1, <1>2, <1>5, OtherLeases
<1> QED
  BY <1>3, <1>6, <1>7 DEF InternInv

\* A lease dropped gives up what it had, and no other lease's range moves.
LEMMA DropLeaseKeeps ==
  ASSUME InternInv, NEW l \in InternLeases, DropLease(l)
  PROVE  InternInv'
<1> DEFINE t == IF gpuLease[l].id # NoId THEN Decref(Table, gpuLease[l].id)
                ELSE [Table EXCEPT !.pool = Release(@, gpuLease[l].range),
                                   !.meant = Forgotten(@, l)]
           refs == [IdOf EXCEPT ![l] = NoId]
<1>1. /\ gpuLease[l].live /\ Becomes(t) /\ gpuLease' = [gpuLease EXCEPT ![l] = FreeLease]
      /\ idByRow' = idByRow /\ privateByRow' = privateByRow
  BY DEF DropLease
<1>2. FreeLease.live = FALSE
  BY DEF FreeLease
<1>3. UsersTypeOK' /\ l \in Users /\ IdOf' = refs /\ Private' = Forgotten(Private, l)
  BY <1>1, <1>2, LeaseChanges DEF InternInv
<1>4. /\ IdOf[l] = gpuLease[l].id /\ IdOf[l] \in Ids \cup {NoId} /\ l \notin InternRows
      /\ TableHolds(Table, IdOf, Private)
  BY <1>1, <1>3, InternAssumption DEF IdOf, InternInv, UsersTypeOK
<1>5. TableHolds(t, refs, Private') /\ KeptRanges(entries, t.entries)
  <2>1. CASE gpuLease[l].id # NoId
    <3>1. t = Decref(Table, IdOf[l]) /\ IdOf[l] \in Ids
      BY <1>4, <2>1
    <3> HIDE DEF t
    <3>2. l \notin DOMAIN Private
      BY <1>4, <2>1 DEF Private
    <3>3. Private' = Private
      BY <1>3, <1>4, <3>2, ForgetsNothing
    <3> QED
      BY <1>3, <1>4, <3>1, <3>3, DecrefHolds, TableParts
  <2>2. CASE gpuLease[l].id = NoId
    <3>1. l \in DOMAIN Private /\ Private[l] = gpuLease[l].range
      BY <1>1, <1>4, <2>2 DEF Private
    <3> DEFINE u == [Table EXCEPT !.pool = Release(@, Private[l]), !.meant = Forgotten(@, l)]
    <3>0. GivesUp(Table, u, l, Private[l])
      <4>1. Table = [pool |-> Table.pool, entries |-> Table.entries, meant |-> Table.meant]
        BY <1>4 DEF TableHolds
      <4> QED
        BY <4>1, UpdateGivesUp
    <3>3. t = u
      BY <2>2, <3>1
    <3>4. refs = IdOf
      BY <1>3, <1>4, <2>2 DEF IdOf
    <3> HIDE DEF t, u
    <3>2. TableHolds(u, IdOf, Forgotten(Private, l)) /\ u.entries = Table.entries
      BY <1>4, <3>0, <3>1, PrivateGoes
    <3> QED
      BY <1>3, <3>2, <3>3, <3>4, TableParts DEF KeptRanges
  <2> QED
    BY <2>1, <2>2
<1> HIDE DEF t
<1>6. TableHolds(Table, IdOf, Private)'
  BY <1>1, <1>3, <1>5, NowHolds
<1>7. LeasesPoint(entries)'
  BY <1>1, <1>2, <1>5, OtherLeases
<1> QED
  BY <1>3, <1>6, <1>7 DEF InternInv

\* Every step of the interning layer, row by row and lease by lease.
LEMMA InternStep ==
  ASSUME InternInv, [InternNext]_internVars
  PROVE  InternInv'
<1>1. CASE UNCHANGED internVars
  <2>1. /\ shared' = shared /\ entries' = entries /\ meant' = meant
        /\ idByRow' = idByRow /\ privateByRow' = privateByRow /\ gpuLease' = gpuLease
    BY <1>1 DEF internVars
  <2>2. IdOf' = IdOf /\ Private' = Private /\ Becomes(Table)
    BY <2>1, TableParts DEF IdOf, Private, Becomes
  <2>3. TableHolds(Table, IdOf', Private')
    BY <2>2 DEF InternInv
  <2>4. TableHolds(Table, IdOf, Private)'
    BY <2>2, <2>3, NowHolds
  <2> QED
    BY <2>1, <2>4 DEF InternInv, UsersTypeOK, LeasesPoint
<1>2. ASSUME NEW row \in InternRows, NEW id \in Ids, UpsertSame(row, id)
      PROVE  InternInv'
  BY <1>1, <1>2 DEF UpsertSame
<1> QED
  BY <1>1, <1>2, UpsertPrivateKeeps, UpsertInternedKeeps, ReleaseRowKeeps, AcquireSharedKeeps,
     DropLeaseKeeps DEF InternNext

\* For any rows, ids, leases and payloads, and whatever is upserted, released,
\* shared and dropped in whatever order: an entry is counted once for each row
\* and each live lease that names its id, a lease points at its entry's range,
\* the ranges in use and the free spans share the buffer out, and every range
\* holds its first writer's payload (InternedVarLenPool::upsert_row, release_row,
\* acquire_shared, InternedGpuLease::drop; VarLenGpuPool::write_var_row, free_handle).
THEOREM InternedStaysExact == InternSpec => []InternedExact
<1>1. InternInit => InternInv
  BY InternInitInv
<1>2. InternInv /\ [InternNext]_internVars => InternInv'
  BY InternStep
<1>3. InternInv => InternedExact
  BY InternExactly
<1> QED
  BY <1>1, <1>2, <1>3, PTL DEF InternSpec

----------------------------------------------------------------------------
(* GpuAssets: the arenas, the row tables and the texture slots.           *)

USE DEF Arenas, Tables, NoImage

---------------------------------------------------------------------------
(* The arenas.                                                             *)

HeldBytes(r) == r.off .. (r.off + BlobLen[r.blob] - 1)

ArenaSound(a) ==
  /\ IsSoundList(vacant[a], ArenaSize)
  /\ \A r \in loaded : r.arena = a => \A i \in HeldBytes(r) : bytes[a][i] = r.blob
  /\ \A r, s \in loaded : r.arena = a /\ s.arena = a /\ r # s => HeldBytes(r) \cap HeldBytes(s) = {}
  /\ \A i : i \in Covered(vacant[a]) <=>
              i \in 0 .. (ArenaSize - 1) /\ ~\E r \in loaded : r.arena = a /\ i \in HeldBytes(r)

ArenaInv ==
  /\ vacant = [a \in Arenas |-> vacant[a]]
  /\ bytes \in [Arenas -> [0 .. (ArenaSize - 1) -> Blobs \cup {NaN}]]
  /\ loaded \subseteq [arena : Arenas, off : Nat, blob : Blobs]
  /\ \A r \in loaded : r.off + BlobLen[r.blob] <= ArenaSize
  /\ \A a \in Arenas : ArenaSound(a)

\* What ArenaInv says of each arena is ArenaExact.
LEMMA ArenasExact ==
  ASSUME ArenaInv
  PROVE  ArenaExact
<1> SUFFICES ASSUME NEW a \in Arenas
             PROVE  LET mine == {r \in loaded : r.arena = a}
                    IN /\ \A r \in mine : \A i \in HeldBytes(r) : bytes[a][i] = r.blob
                       /\ \A r, s \in mine : r # s => HeldBytes(r) \cap HeldBytes(s) = {}
                       /\ Covered(vacant[a]) = (0 .. (ArenaSize - 1)) \ UNION {HeldBytes(r) : r \in mine}
  BY DEF ArenaExact, HeldBytes
<1>1. ArenaSound(a)
  BY DEF ArenaInv
<1> DEFINE mine == {r \in loaded : r.arena = a}
<1>2. \A i : i \in Covered(vacant[a]) <=> i \in (0 .. (ArenaSize - 1)) \ UNION {HeldBytes(r) : r \in mine}
  BY <1>1 DEF ArenaSound
<1>3. Covered(vacant[a]) = (0 .. (ArenaSize - 1)) \ UNION {HeldBytes(r) : r \in mine}
  BY <1>2
<1> QED
  BY <1>1, <1>3 DEF ArenaSound

\* The arenas start empty.
LEMMA ArenaInitInv ==
  ASSUME ArenaInit
  PROVE  ArenaInv
<1>1. \A a \in Arenas : vacant[a] = NewRange(ArenaSize)
  BY DEF ArenaInit
<1>2. ArenaSize \in Nat
  BY AssetAssumption
<1>3. IsSoundList(NewRange(ArenaSize), ArenaSize)
      /\ Covered(NewRange(ArenaSize)) = 0 .. (ArenaSize - 1)
  BY <1>2, NewRangeSound
<1>4. loaded = {}
  BY DEF ArenaInit
<1>5. \A a \in Arenas : ArenaSound(a)
  BY <1>1, <1>3, <1>4 DEF ArenaSound
<1>6. /\ vacant = [a \in Arenas |-> vacant[a]]
      /\ bytes \in [Arenas -> [0 .. (ArenaSize - 1) -> Blobs \cup {NaN}]]
  BY DEF ArenaInit
<1> QED
  BY <1>4, <1>5, <1>6 DEF ArenaInv

\* An upload lands on units nobody holds.
LEMMA UploadKeeps ==
  ASSUME ArenaInv, NEW a \in Arenas, NEW b \in Blobs, Upload(a, b)
  PROVE  ArenaInv'
<1> DEFINE len == BlobLen[b]
           at == AllocOffset(vacant[a], len, ArenaAlign)
           new == [arena |-> a, off |-> at, blob |-> b]
<1>1. len \in Nat /\ ArenaSize \in Nat /\ ArenaAlign \in Nat \ {0}
  BY AssetAssumption
<1>2. ArenaSound(a) /\ Fitting(vacant[a], len, ArenaAlign) # {}
  BY DEF ArenaInv, Upload
<1>3. /\ vacant' = [vacant EXCEPT ![a] = AfterAlloc(@, len, ArenaAlign)]
      /\ bytes' = [bytes EXCEPT ![a] =
           [i \in DOMAIN @ |-> IF i \in at .. (at + len - 1) THEN b ELSE @[i]]]
      /\ loaded' = loaded \cup {new}
  BY DEF Upload
<1>4. /\ at \in Nat /\ at + len <= ArenaSize
      /\ at .. (at + len - 1) \subseteq Covered(vacant[a])
      /\ IsSoundList(AfterAlloc(vacant[a], len, ArenaAlign), ArenaSize)
      /\ Covered(AfterAlloc(vacant[a], len, ArenaAlign))
           = Covered(vacant[a]) \ (at .. (at + len - 1))
  <2>1. IsSoundList(vacant[a], ArenaSize)
    BY <1>2 DEF ArenaSound
  <2> HIDE DEF len
  <2> QED
    BY <1>1, <1>2, <2>1, AllocTakes
<1>5. new.arena = a /\ new.blob = b /\ HeldBytes(new) = at .. (at + len - 1)
      /\ new \in [arena : Arenas, off : Nat, blob : Blobs]
  <2>1. new.arena = a /\ new.blob = b /\ new.off = at
    OBVIOUS
  <2>2. at \in Nat
    BY <1>4
  <2> HIDE DEF at
  <2> QED
    BY <2>1, <2>2 DEF HeldBytes
<1> HIDE DEF at
<1>6. /\ vacant' = [x \in Arenas |-> vacant'[x]]
      /\ vacant'[a] = AfterAlloc(vacant[a], len, ArenaAlign)
      /\ \A x \in Arenas \ {a} : vacant'[x] = vacant[x]
  BY <1>3 DEF ArenaInv
<1>7. /\ bytes' \in [Arenas -> [0 .. (ArenaSize - 1) -> Blobs \cup {NaN}]]
      /\ \A i \in 0 .. (ArenaSize - 1) :
           bytes'[a][i] = IF i \in at .. (at + len - 1) THEN b ELSE bytes[a][i]
      /\ \A x \in Arenas \ {a} : bytes'[x] = bytes[x]
  BY <1>3 DEF ArenaInv
<1> HIDE DEF new
<1>8. \A r \in loaded : /\ r.arena = a => HeldBytes(r) \cap (at .. (at + len - 1)) = {}
                        /\ HeldBytes(r) \subseteq 0 .. (ArenaSize - 1)
  <2>1. \A r \in loaded : r.off \in Nat /\ BlobLen[r.blob] \in Nat /\ r.off + BlobLen[r.blob] <= ArenaSize
    BY AssetAssumption DEF ArenaInv
  <2> QED
    BY <1>1, <1>2, <1>4, <2>1 DEF ArenaSound, HeldBytes
<1>9. \A r : HeldBytes(r)' = HeldBytes(r)
  BY DEF HeldBytes
<1>10. ArenaSound(a)'
  <2>1. IsSoundList(vacant'[a], ArenaSize)
    BY <1>4, <1>6
  <2>2. \A r \in loaded' : r.arena = a => \A i \in HeldBytes(r) : bytes'[a][i] = r.blob
    <3>1. at .. (at + len - 1) \subseteq 0 .. (ArenaSize - 1)
      BY <1>1, <1>4
    <3>2. \A i \in HeldBytes(new) : bytes'[a][i] = b
      BY <1>5, <1>7, <3>1
    <3>3. \A r \in loaded : r.arena = a => \A i \in HeldBytes(r) : bytes'[a][i] = r.blob
      BY <1>2, <1>7, <1>8 DEF ArenaSound
    <3> QED
      BY <1>3, <1>5, <3>2, <3>3
  <2>3. \A r, s \in loaded' : r.arena = a /\ s.arena = a /\ r # s => HeldBytes(r) \cap HeldBytes(s) = {}
    BY <1>2, <1>3, <1>5, <1>8 DEF ArenaSound
  <2>4. \A i : i \in Covered(vacant'[a]) <=>
                i \in 0 .. (ArenaSize - 1) /\ ~\E r \in loaded' : r.arena = a /\ i \in HeldBytes(r)
    BY <1>2, <1>3, <1>4, <1>5, <1>6 DEF ArenaSound
  <2> QED
    BY <1>9, <2>1, <2>2, <2>3, <2>4 DEF ArenaSound
<1>11. ASSUME NEW x \in Arenas, x # a
       PROVE  ArenaSound(x)'
  <2>1. ArenaSound(x) /\ vacant'[x] = vacant[x] /\ bytes'[x] = bytes[x]
    BY <1>6, <1>7, <1>11 DEF ArenaInv
  <2>2. \A r \in loaded' : r.arena = x => r \in loaded
    BY <1>3, <1>5, <1>11
  <2>3. loaded \subseteq loaded'
    BY <1>3
  <2> QED
    BY <1>9, <2>1, <2>2, <2>3 DEF ArenaSound
<1>12. \A r \in loaded' : r.off + BlobLen[r.blob] <= ArenaSize
  BY <1>3, <1>4, <1>5 DEF ArenaInv, new
<1> QED
  BY <1>3, <1>5, <1>6, <1>7, <1>10, <1>11, <1>12 DEF ArenaInv

\* An unload gives back what was held, and nothing else.
LEMMA UnloadKeeps ==
  ASSUME ArenaInv, NEW r \in loaded, Unload(r)
  PROVE  ArenaInv'
<1> DEFINE a == r.arena
           len == BlobLen[r.blob]
<1>1. /\ a \in Arenas /\ r.off \in Nat /\ len \in Nat /\ r.off + len <= ArenaSize
      /\ ArenaSize \in Nat
  BY AssetAssumption DEF ArenaInv
<1>2. ArenaSound(a)
  BY <1>1 DEF ArenaInv
<1>3. /\ vacant' = [vacant EXCEPT ![a] = AfterFree(@, r.off, len)]
      /\ loaded' = loaded \ {r} /\ bytes' = bytes
  BY DEF Unload
<1>4. HeldBytes(r) = r.off .. (r.off + len - 1)
  BY DEF HeldBytes
<1>5. HeldBytes(r) \cap Covered(vacant[a]) = {} /\ HeldBytes(r) \subseteq 0 .. (ArenaSize - 1)
  BY <1>1, <1>2, <1>4 DEF ArenaSound
<1>6. /\ IsSoundList(AfterFree(vacant[a], r.off, len), ArenaSize)
      /\ Covered(AfterFree(vacant[a], r.off, len)) = Covered(vacant[a]) \cup HeldBytes(r)
  <2>1. IsSoundList(vacant[a], ArenaSize)
    BY <1>2 DEF ArenaSound
  <2>2. (r.off .. (r.off + len - 1)) \cap Covered(vacant[a]) = {}
    BY <1>4, <1>5
  <2> HIDE DEF len, a
  <2>3. /\ IsSoundList(AfterFree(vacant[a], r.off, len), ArenaSize)
        /\ Covered(AfterFree(vacant[a], r.off, len))
             = Covered(vacant[a]) \cup (r.off .. (r.off + len - 1))
    BY <1>1, <2>1, <2>2, FreeGives
  <2> QED
    BY <1>4, <2>3
<1>7. /\ vacant' = [x \in Arenas |-> vacant'[x]]
      /\ vacant'[a] = AfterFree(vacant[a], r.off, len)
      /\ \A x \in Arenas \ {a} : vacant'[x] = vacant[x]
  BY <1>1, <1>3 DEF ArenaInv
<1>8. \A s : HeldBytes(s)' = HeldBytes(s)
  BY DEF HeldBytes
<1>9. ArenaSound(a)'
  <2>1. IsSoundList(vacant'[a], ArenaSize)
    BY <1>6, <1>7
  <2>2. \A s \in loaded' : s.arena = a => \A i \in HeldBytes(s) : bytes'[a][i] = s.blob
    BY <1>2, <1>3 DEF ArenaSound
  <2>3. \A s, u \in loaded' : s.arena = a /\ u.arena = a /\ s # u => HeldBytes(s) \cap HeldBytes(u) = {}
    BY <1>2, <1>3 DEF ArenaSound
  <2>4. \A i : i \in Covered(vacant'[a]) <=> i \in Covered(vacant[a]) \/ i \in HeldBytes(r)
    BY <1>6, <1>7
  <2>5. \A s \in loaded : s.arena = a /\ s # r => HeldBytes(s) \cap HeldBytes(r) = {}
    BY <1>2 DEF ArenaSound
  <2>6. \A i : i \in Covered(vacant[a]) <=>
                i \in 0 .. (ArenaSize - 1) /\ ~\E s \in loaded : s.arena = a /\ i \in HeldBytes(s)
    BY <1>2 DEF ArenaSound
  <2>7. \A i : i \in Covered(vacant'[a]) <=>
                i \in 0 .. (ArenaSize - 1) /\ ~\E s \in loaded' : s.arena = a /\ i \in HeldBytes(s)
    BY <1>3, <1>5, <2>4, <2>5, <2>6
  <2> QED
    BY <1>8, <2>1, <2>2, <2>3, <2>7 DEF ArenaSound
<1>10. ASSUME NEW x \in Arenas, x # a
       PROVE  ArenaSound(x)'
  <2>1. ArenaSound(x) /\ vacant'[x] = vacant[x]
    BY <1>7, <1>10 DEF ArenaInv
  <2>2. \A s \in loaded : s.arena = x => s \in loaded'
    BY <1>3, <1>10
  <2> QED
    BY <1>3, <1>8, <2>1, <2>2 DEF ArenaSound
<1>11. /\ loaded' \subseteq [arena : Arenas, off : Nat, blob : Blobs]
       /\ \A s \in loaded' : s.off + BlobLen[s.blob] <= ArenaSize
       /\ bytes' \in [Arenas -> [0 .. (ArenaSize - 1) -> Blobs \cup {NaN}]]
  BY <1>3 DEF ArenaInv
<1> QED
  BY <1>7, <1>9, <1>10, <1>11 DEF ArenaInv

\* Every call on an arena keeps them exact.
LEMMA ArenaStep ==
  ASSUME ArenaInv, [ArenaNext]_arenaVars
  PROVE  ArenaInv'
<1>1. CASE UNCHANGED arenaVars
  BY <1>1 DEF arenaVars, ArenaInv, ArenaSound, HeldBytes
<1> QED
  BY <1>1, UploadKeeps, UnloadKeeps DEF ArenaNext

---------------------------------------------------------------------------
(* The row tables.                                                         *)

TableRows == [lods : 0 .. 1, table : Nat] \cup {Sentinel}
               \cup ClusterRows \cup MeshletRows \cup MaterialRows

TableTypeOK ==
  /\ rows \in [Tables -> Seq(TableRows)] /\ gpuRows \in [Tables -> Seq(TableRows)]
  /\ handed \subseteq [table : Tables, off : Nat, batch : Seq(TableRows)]
  /\ intact \subseteq Tables

\* A batch lies where its caller was told, the reserved cluster node before it.
Placed(h) ==
  /\ h.off + Len(h.batch) <= Len(rows[h.table])
  /\ \A i \in 1 .. Len(h.batch) : rows[h.table][h.off + i] = h.batch[i]
  /\ h.table = "cluster" => h.off # 0

RowsValid ==
  /\ rows["cluster"] # <<>>
  /\ \A i \in DOMAIN rows["cluster"] :
       i > 1 => rows["cluster"][i].self # NaN /\ rows["cluster"][i].parent # NaN
                /\ rows["cluster"][i].self < rows["cluster"][i].parent
  /\ \A i \in DOMAIN rows["material"] : rows["material"][i].metallic # NaN

TablesHold ==
  \A t \in Tables : /\ Len(rows[t]) <= TableCap[t]
                    /\ t \in intact => gpuRows[t] = rows[t]

TableInv == TableTypeOK /\ RowsValid /\ TablesHold /\ \A h \in handed : Placed(h)

\* Where a batch lies is what SubSeq reads.
LEMMA TablesExactly ==
  ASSUME TableInv
  PROVE  TablesExact
<1>1. ASSUME NEW h \in handed
      PROVE  /\ SubSeq(rows[h.table], h.off + 1, h.off + Len(h.batch)) = h.batch
             /\ h.table = "cluster" => MeshValid([lods |-> 0, table |-> h.off])
  <2>1. /\ h.off \in Nat /\ h.batch \in Seq(TableRows) /\ rows[h.table] \in Seq(TableRows)
        /\ h.off + Len(h.batch) <= Len(rows[h.table])
        /\ \A i \in 1 .. Len(h.batch) : rows[h.table][h.off + i] = h.batch[i]
        /\ h.table = "cluster" => h.off # 0
    BY DEF TableInv, TableTypeOK, Placed
  <2> DEFINE s == rows[h.table]
             n == Len(h.batch)
             cut == SubSeq(s, h.off + 1, h.off + n)
  <2>2. n \in Nat /\ s \in Seq(TableRows) /\ h.off + n <= Len(s)
    BY <2>1
  <2>3. /\ cut \in Seq(TableRows)
        /\ Len(cut) = n /\ \A i \in 1 .. n : cut[i] = s[h.off + i]
    <3> HIDE DEF s, n
    <3> DEFINE from == h.off + 1
               to == h.off + n
    <3>1. from \in Int /\ to \in Int /\ \A i \in from .. to : s[i] \in TableRows
      <4>1. \A i \in from .. to : i \in 1 .. Len(s)
        BY <2>1, <2>2
      <4> QED
        BY <2>1, <2>2, <4>1, ElementOfSeq
    <3>2. to - from + 1 = n /\ (from <= to \/ n = 0)
      BY <2>1, <2>2
    <3>3. \A i \in 1 .. n : from + i - 1 = h.off + i
      BY <2>1, <2>2
    <3>4. /\ SubSeq(s, from, to) \in Seq(TableRows)
          /\ Len(SubSeq(s, from, to)) = IF from <= to THEN to - from + 1 ELSE 0
          /\ \A i \in 1 .. to - from + 1 : SubSeq(s, from, to)[i] = s[from + i - 1]
      <4> HIDE DEF from, to
      <4> QED
        BY <3>1, SubSeqProperties
    <3> QED
      BY <2>1, <2>2, <3>2, <3>3, <3>4
  <2>4. cut = h.batch
    <3> HIDE DEF cut
    <3> QED
      BY <2>1, <2>3, SeqEqual
  <2>5. h.table = "cluster" => MeshValid([lods |-> 0, table |-> h.off])
    BY <2>1 DEF MeshValid
  <2> QED
    BY <2>4, <2>5
<1> QED
  BY <1>1 DEF TablesExact, TableInv, RowsValid, TablesHold

\* A checked batch goes behind the rows there are, and moves none of them.
LEMMA AppendKeeps ==
  ASSUME TableInv, NEW t \in Tables, NEW batch \in Seq(TableRows), AppendRows(t, batch)
  PROVE  TableInv'
<1> DEFINE new == [table |-> t, off |-> Len(rows[t]), batch |-> batch]
<1>1. /\ \A i \in DOMAIN batch : Valid(t, batch[i])
      /\ Len(rows[t]) + Len(batch) <= TableCap[t]
      /\ rows' = [rows EXCEPT ![t] = @ \o batch]
      /\ gpuRows' = [gpuRows EXCEPT ![t] = IF t \in intact THEN @ \o batch ELSE @]
      /\ handed' = handed \cup {new}
      /\ intact' = intact
  BY DEF AppendRows, Appendable
<1>2. /\ rows \in [Tables -> Seq(TableRows)] /\ gpuRows \in [Tables -> Seq(TableRows)]
      /\ handed \subseteq [table : Tables, off : Nat, batch : Seq(TableRows)]
      /\ intact \subseteq Tables
  BY DEF TableInv, TableTypeOK
<1>3. /\ rows' \in [Tables -> Seq(TableRows)] /\ gpuRows' \in [Tables -> Seq(TableRows)]
      /\ rows'[t] = rows[t] \o batch
      /\ \A u \in Tables \ {t} : rows'[u] = rows[u] /\ gpuRows'[u] = gpuRows[u]
      /\ gpuRows'[t] = IF t \in intact THEN gpuRows[t] \o batch ELSE gpuRows[t]
  BY <1>1, <1>2
<1>4. /\ rows[t] \in Seq(TableRows) /\ Len(rows[t]) \in Nat /\ Len(batch) \in Nat
      /\ Len(rows'[t]) = Len(rows[t]) + Len(batch)
      /\ \A i \in 1 .. Len(rows[t]) : rows'[t][i] = rows[t][i]
      /\ \A i \in 1 .. Len(batch) : rows'[t][Len(rows[t]) + i] = batch[i]
  <2> DEFINE s == rows[t]
  <2>1. s \in Seq(TableRows)
    BY <1>2
  <2>2. rows'[t] = s \o batch
    BY <1>3
  <2> HIDE DEF s
  <2>3. /\ Len(s) \in Nat /\ Len(batch) \in Nat /\ Len(s \o batch) = Len(s) + Len(batch)
        /\ \A i \in 1 .. Len(s) : (s \o batch)[i] = s[i]
        /\ \A i \in 1 .. Len(batch) : (s \o batch)[Len(s) + i] = batch[i]
    BY <2>1
  <2> QED
    BY <2>1, <2>2, <2>3 DEF s
<1>5. new \in [table : Tables, off : Nat, batch : Seq(TableRows)]
      /\ new.table = t /\ new.off = Len(rows[t]) /\ new.batch = batch
  BY <1>4
<1> HIDE DEF new
<1>6. TableTypeOK'
  BY <1>1, <1>2, <1>3, <1>5 DEF TableTypeOK
<1>7. \A u \in Tables : /\ Len(rows[u]) \in Nat /\ Len(rows'[u]) \in Nat /\ Len(rows[u]) <= Len(rows'[u])
                        /\ DOMAIN rows[u] = 1 .. Len(rows[u]) /\ DOMAIN rows'[u] = 1 .. Len(rows'[u])
                        /\ \A i \in 1 .. Len(rows[u]) : rows'[u][i] = rows[u][i]
  <2> TAKE u \in Tables
  <2>1. rows[u] \in Seq(TableRows) /\ rows'[u] \in Seq(TableRows)
    BY <1>2, <1>3
  <2>2. CASE u = t
    BY <1>4, <2>1, <2>2
  <2>3. CASE u # t
    BY <1>3, <2>1, <2>3
  <2> QED
    BY <2>2, <2>3
<1>8. \A h \in handed' : Placed(h)'
  <2>1. ASSUME NEW h \in handed
        PROVE  Placed(h)'
    <3>1. h.table \in Tables /\ h.off \in Nat /\ h.batch \in Seq(TableRows) /\ Len(h.batch) \in Nat
      BY <1>2
    <3>2. Placed(h)
      BY DEF TableInv
    <3>3. /\ h.off + Len(h.batch) <= Len(rows'[h.table])
          /\ \A i \in 1 .. Len(h.batch) : rows'[h.table][h.off + i] = rows[h.table][h.off + i]
      <4> DEFINE u == h.table
                 n == Len(h.batch)
      <4>1. /\ Len(rows[u]) \in Nat /\ Len(rows'[u]) \in Nat /\ Len(rows[u]) <= Len(rows'[u])
            /\ \A i \in 1 .. Len(rows[u]) : rows'[u][i] = rows[u][i]
        BY <1>7, <3>1
      <4>2. n \in Nat /\ h.off \in Nat /\ h.off + n <= Len(rows[u])
        BY <3>1, <3>2 DEF Placed
      <4> HIDE DEF u, n
      <4>3. \A i \in 1 .. n : h.off + i \in 1 .. Len(rows[u])
        BY <4>1, <4>2
      <4>4. h.off + n <= Len(rows'[u]) /\ \A i \in 1 .. n : rows'[u][h.off + i] = rows[u][h.off + i]
        BY <4>1, <4>2, <4>3
      <4> QED
        BY <4>4 DEF u, n
    <3> QED
      BY <3>2, <3>3 DEF Placed
  <2>2. ASSUME NEW h \in handed', h = new
        PROVE  Placed(h)'
    <3>1. t = "cluster" => Len(rows[t]) # 0
      BY <1>4 DEF TableInv, RowsValid
    <3>2. /\ Len(rows[t]) + Len(batch) <= Len(rows'[t])
          /\ \A i \in 1 .. Len(batch) : rows'[t][Len(rows[t]) + i] = batch[i]
      BY <1>4
    <3> QED
      BY <1>5, <2>2, <3>1, <3>2 DEF Placed
  <2>3. \A h \in handed' : h \in handed \/ h = new
    BY <1>1
  <2> QED
    BY <2>1, <2>2, <2>3
<1>9. RowsValid'
  <2>1. rows'["cluster"] # <<>>
    <3>1. Len(rows["cluster"]) # 0
      BY <1>2 DEF TableInv, RowsValid
    <3>2. Len(rows'["cluster"]) # 0
      BY <1>7, <3>1
    <3> QED
      BY <3>2
  <2>2. ASSUME NEW i \in DOMAIN rows'["cluster"], i > 1
        PROVE  rows'["cluster"][i].self # NaN /\ rows'["cluster"][i].parent # NaN
               /\ rows'["cluster"][i].self < rows'["cluster"][i].parent
    <3>1. CASE i \in 1 .. Len(rows["cluster"])
      BY <1>7, <2>2, <3>1 DEF TableInv, RowsValid
    <3>2. CASE t = "cluster" /\ i \notin 1 .. Len(rows["cluster"])
      <4> DEFINE k == i - Len(rows[t])
      <4>1. k \in 1 .. Len(batch) /\ i = Len(rows[t]) + k
        <5>1. /\ i \in 1 .. Len(rows'[t]) /\ i \notin 1 .. Len(rows[t])
              /\ Len(rows'[t]) = Len(rows[t]) + Len(batch)
              /\ Len(rows[t]) \in Nat /\ Len(batch) \in Nat
          BY <1>4, <1>7, <2>2, <3>2
        <5> QED
          BY <5>1
      <4>2. rows'[t][i] = batch[k] /\ k \in DOMAIN batch
        BY <1>4, <4>1
      <4>3. ClusterValid(batch[k])
        BY <1>1, <3>2, <4>2 DEF Valid
      <4> QED
        BY <3>2, <4>2, <4>3 DEF ClusterValid, Less
    <3> QED
      BY <1>3, <1>7, <2>2, <3>1, <3>2
  <2>3. ASSUME NEW i \in DOMAIN rows'["material"]
        PROVE  rows'["material"][i].metallic # NaN
    <3>1. CASE i \in 1 .. Len(rows["material"])
      BY <1>7, <2>3, <3>1 DEF TableInv, RowsValid
    <3>2. CASE t = "material" /\ i \notin 1 .. Len(rows["material"])
      <4> DEFINE k == i - Len(rows[t])
      <4>1. k \in 1 .. Len(batch) /\ i = Len(rows[t]) + k
        <5>1. /\ i \in 1 .. Len(rows'[t]) /\ i \notin 1 .. Len(rows[t])
              /\ Len(rows'[t]) = Len(rows[t]) + Len(batch)
              /\ Len(rows[t]) \in Nat /\ Len(batch) \in Nat
          BY <1>4, <1>7, <2>3, <3>2
        <5> QED
          BY <5>1
      <4>2. rows'[t][i] = batch[k] /\ k \in DOMAIN batch
        BY <1>4, <4>1
      <4>3. MaterialValid(batch[k])
        BY <1>1, <3>2, <4>2 DEF Valid
      <4> QED
        BY <3>2, <4>2, <4>3 DEF MaterialValid, InUnit, AtMost
    <3> QED
      BY <1>3, <1>7, <2>3, <3>1, <3>2
  <2> QED
    BY <2>1, <2>2, <2>3 DEF RowsValid
<1>10. TablesHold'
  BY <1>1, <1>3, <1>4 DEF TableInv, TablesHold
<1> QED
  BY <1>6, <1>8, <1>9, <1>10 DEF TableInv

\* Every call on a table, and a lost device, keeps what was handed out.
LEMMA TableStep ==
  ASSUME TableInv, [TableNext]_tableVars
  PROVE  TableInv'
<1>1. \A S : /\ \A x \in S : <<x>> \in Seq(S)
             /\ \A x, y \in S : <<x, y>> \in Seq(S)
  OBVIOUS
<1>2. ASSUME NEW lods \in 0 .. 1, NEW table \in TableOffsets, RegisterMesh(lods, table)
      PROVE  TableInv'
  <2>1. table \in Nat
    BY DEF TableOffsets, TableInv, TableTypeOK
  <2>2. [lods |-> lods, table |-> table] \in TableRows
    BY <2>1 DEF TableRows
  <2>3. <<[lods |-> lods, table |-> table]>> \in Seq(TableRows)
    BY <1>1, <2>2
  <2> QED
    BY <1>2, <2>3, AppendKeeps DEF RegisterMesh
<1>3. ASSUME NEW r \in MaterialRows, RegisterMaterial(r)
      PROVE  TableInv'
  <2>1. r \in TableRows
    BY DEF TableRows
  <2>2. <<r>> \in Seq(TableRows)
    BY <1>1, <2>1
  <2> QED
    BY <1>3, <2>2, AppendKeeps DEF RegisterMaterial
<1>4. \A R \in SUBSET TableRows : Batches(R) \subseteq Seq(TableRows)
  <2> SUFFICES ASSUME NEW R \in SUBSET TableRows, NEW batch \in Batches(R)
               PROVE  batch \in Seq(TableRows)
    OBVIOUS
  <2>1. (\E x \in R : batch = <<x>>) \/ (\E x, y \in R : batch = <<x, y>>)
    BY DEF Batches
  <2>2. ASSUME NEW x \in R, batch = <<x>>
        PROVE  batch \in Seq(TableRows)
    <3>1. x \in TableRows
      OBVIOUS
    <3> HIDE DEF TableRows
    <3> QED
      BY <2>2, <3>1
  <2>3. ASSUME NEW x \in R, NEW y \in R, batch = <<x, y>>
        PROVE  batch \in Seq(TableRows)
    <3>1. x \in TableRows /\ y \in TableRows
      OBVIOUS
    <3> QED
      BY <2>3, <3>1
  <2> QED
    BY <2>1, <2>2, <2>3
<1>5. ASSUME NEW batch \in Batches(ClusterRows), AppendClusters(batch)
      PROVE  TableInv'
  <2>1. ClusterRows \in SUBSET TableRows
    BY DEF TableRows
  <2>2. batch \in Seq(TableRows)
    BY <1>4, <2>1
  <2> QED
    BY <1>5, <2>2, AppendKeeps DEF AppendClusters
<1>6. ASSUME NEW batch \in Batches(MeshletRows), AppendMeshlets(batch)
      PROVE  TableInv'
  <2>1. MeshletRows \in SUBSET TableRows
    BY DEF TableRows
  <2>2. batch \in Seq(TableRows)
    BY <1>4, <2>1
  <2> QED
    BY <1>6, <2>2, AppendKeeps DEF AppendMeshlets
<1>7. CASE LoseDevice
  <2>1. /\ rows' = rows /\ handed' = handed /\ intact' = {}
        /\ gpuRows' \in [Tables -> Seq(TableRows)]
    BY <1>7 DEF LoseDevice
  <2> QED
    BY <2>1 DEF TableInv, TableTypeOK, RowsValid, TablesHold, Placed
<1>8. ASSUME NEW t \in Tables, Rebuild(t)
      PROVE  TableInv'
  <2>1. /\ rows' = rows /\ handed' = handed /\ intact' = intact \cup {t}
        /\ gpuRows' = [gpuRows EXCEPT ![t] = rows[t]]
    BY <1>8 DEF Rebuild
  <2>2. /\ gpuRows' \in [Tables -> Seq(TableRows)] /\ gpuRows'[t] = rows[t]
        /\ \A u \in Tables \ {t} : gpuRows'[u] = gpuRows[u]
    BY <2>1 DEF TableInv, TableTypeOK
  <2>3. TableTypeOK'
    BY <2>1, <2>2 DEF TableInv, TableTypeOK
  <2>4. TablesHold'
    BY <2>1, <2>2 DEF TableInv, TablesHold
  <2> QED
    BY <2>1, <2>3, <2>4 DEF TableInv, RowsValid, Placed
<1>9. CASE UNCHANGED tableVars
  BY <1>9 DEF tableVars, TableInv, TableTypeOK, RowsValid, TablesHold, Placed
<1> QED
  BY <1>2, <1>3, <1>5, <1>6, <1>7, <1>8, <1>9 DEF TableNext

\* The cluster table starts with its sentinel, the others empty.
LEMMA TableInitInv ==
  ASSUME TableInit
  PROVE  TableInv
<1>1. /\ \A t \in Tables : rows[t] = Seeded(t) /\ gpuRows[t] = Seeded(t)
      /\ rows = [t \in Tables |-> rows[t]] /\ gpuRows = [t \in Tables |-> gpuRows[t]]
      /\ handed = {} /\ intact = Tables
  BY DEF TableInit
<1>2. /\ Seeded("cluster") = <<Sentinel>> /\ Seeded("mesh") = <<>>
      /\ Seeded("meshlet") = <<>> /\ Seeded("material") = <<>>
  BY DEF Seeded
<1>3. <<Sentinel>> \in Seq(TableRows) /\ <<>> \in Seq(TableRows)
  <2>1. Sentinel \in TableRows
    BY DEF TableRows
  <2> QED
    BY <2>1
<1>4. TableTypeOK
  BY <1>1, <1>2, <1>3 DEF TableTypeOK
<1>5. RowsValid
  BY <1>1, <1>2 DEF RowsValid
<1>6. TablesHold
  <2>1. /\ Len(rows["cluster"]) = 1 /\ Len(rows["mesh"]) = 0
        /\ Len(rows["meshlet"]) = 0 /\ Len(rows["material"]) = 0
    BY <1>1, <1>2
  <2>2. \A t \in Tables : TableCap[t] \in Nat
    BY AssetAssumption
  <2>3. TableCap["cluster"] >= 1
    BY AssetAssumption
  <2>4. /\ Len(rows["cluster"]) <= TableCap["cluster"] /\ Len(rows["mesh"]) <= TableCap["mesh"]
        /\ Len(rows["meshlet"]) <= TableCap["meshlet"]
        /\ Len(rows["material"]) <= TableCap["material"]
    <3>1. /\ TableCap["cluster"] \in Nat /\ TableCap["mesh"] \in Nat
          /\ TableCap["meshlet"] \in Nat /\ TableCap["material"] \in Nat
      BY <2>2
    <3> QED
      BY <2>1, <2>3, <3>1
  <2> QED
    BY <1>1, <2>4 DEF TablesHold
<1> QED
  BY <1>1, <1>4, <1>5, <1>6 DEF TableInv

---------------------------------------------------------------------------
(* The texture slots.                                                      *)

TextureInv ==
  /\ nextSlot \in Nat /\ nextSlot <= MaxTextureSlots
  /\ textures \in [0 .. (nextSlot - 1) -> Images \cup {NoImage}]
  /\ freeSlots \in Seq(Nat) /\ IsInjective(freeSlots)
  /\ ToSet(freeSlots) = {s \in DOMAIN textures : textures[s] = NoImage}
  /\ DOMAIN shown \subseteq DOMAIN textures
  /\ \A s \in DOMAIN shown : shown[s] \in Images /\ textures[s] = shown[s]

\* A sequence without repetition is as long as its set of elements.
LEMMA InjectiveCounts ==
  ASSUME NEW S, NEW s \in Seq(S), IsInjective(s)
  PROVE  Cardinality(ToSet(s)) = Len(s)
<1> DEFINE n == Len(s)
           D == 1 .. n
<1>1. n \in Nat /\ DOMAIN s = D /\ s = [i \in D |-> s[i]]
  BY LenProperties
<1>2. IsFiniteSet(D) /\ Cardinality(D) = n
  <2> HIDE DEF n
  <2>1. n \in Nat
    BY <1>1
  <2> QED
    BY <2>1, FS_Interval
<1>3. s \in Bijection(D, ToSet(s))
  BY <1>1 DEF Bijection, Injection, Surjection, IsInjective, ToSet
<1>4. ExistsBijection(D, ToSet(s))
  BY <1>3 DEF ExistsBijection
<1> HIDE DEF D
<1> QED
  BY <1>2, <1>4, FS_Bijection

\* A free list without repetition has one entry for every empty slot.
LEMMA TexturesExactly ==
  ASSUME TextureInv
  PROVE  TexturesExact
<1>1. Cardinality(ToSet(freeSlots)) = Len(freeSlots)
  BY InjectiveCounts DEF TextureInv
<1> QED
  BY <1>1 DEF TextureInv, TexturesExact

\* A slot given out is nobody's: recycled and empty, or new.
LEMMA SeatKeeps ==
  ASSUME TextureInv, NEW image \in Images, Seat(image)
  PROVE  TextureInv'
<1> DEFINE slot == AllocatedSlot
<1>1. /\ SlotAvailable
      /\ freeSlots' = IF freeSlots # <<>> THEN Front(freeSlots) ELSE freeSlots
      /\ nextSlot' = IF freeSlots # <<>> THEN nextSlot ELSE nextSlot + 1
      /\ textures' = [s \in DOMAIN textures \cup {slot} |->
                        IF s = slot THEN image ELSE textures[s]]
      /\ shown' = [s \in DOMAIN shown \cup {slot} |->
                     IF s = slot THEN image ELSE shown[s]]
  BY DEF Seat
<1>2. image # NoImage /\ MaxTextureSlots \in Nat
  BY AssetAssumption
<1>3. nextSlot \in Nat /\ DOMAIN textures = 0 .. (nextSlot - 1)
  BY DEF TextureInv
<1>4. CASE freeSlots # <<>>
  <2>1. slot = Last(freeSlots)
    BY <1>4 DEF AllocatedSlot
  <2>2. /\ slot \in ToSet(freeSlots)
        /\ ToSet(freeSlots') = ToSet(freeSlots) \ {slot}
        /\ freeSlots' \in Seq(Nat) /\ IsInjective(freeSlots')
    <3>1. freeSlots \in Seq(Nat) /\ IsInjective(freeSlots)
      BY DEF TextureInv
    <3>2. /\ Last(freeSlots) \in ToSet(freeSlots)
          /\ ToSet(Front(freeSlots)) = ToSet(freeSlots) \ {Last(freeSlots)}
          /\ IsInjective(Front(freeSlots)) /\ Front(freeSlots) \in Seq(Nat)
      BY <1>4, <3>1, PopDistinct, FrontLast
    <3>3. freeSlots' = Front(freeSlots)
      BY <1>1, <1>4
    <3> QED
      BY <2>1, <3>2, <3>3
  <2> HIDE DEF slot
  <2>3. slot \in DOMAIN textures
    BY <2>2 DEF TextureInv
  <2>4. nextSlot' = nextSlot /\ DOMAIN textures \cup {slot} = DOMAIN textures
    BY <1>1, <1>4, <2>3
  <2>5. /\ textures' \in [0 .. (nextSlot - 1) -> Images \cup {NoImage}]
        /\ textures'[slot] = image
        /\ \A s \in DOMAIN textures \ {slot} : textures'[s] = textures[s]
    BY <1>1, <1>3, <2>3, <2>4 DEF TextureInv
  <2>6. ToSet(freeSlots') = {s \in DOMAIN textures' : textures'[s] = NoImage}
    BY <1>2, <1>3, <2>2, <2>5 DEF TextureInv
  <2>7. /\ DOMAIN shown' \subseteq DOMAIN textures'
        /\ \A s \in DOMAIN shown' : shown'[s] \in Images /\ textures'[s] = shown'[s]
    BY <1>1, <1>3, <2>3, <2>5 DEF TextureInv
  <2> QED
    BY <2>2, <2>4, <2>5, <2>6, <2>7 DEF TextureInv
<1>5. CASE freeSlots = <<>>
  <2>1. slot = nextSlot /\ nextSlot < MaxTextureSlots /\ nextSlot' = nextSlot + 1
        /\ freeSlots' = freeSlots
    BY <1>1, <1>5 DEF AllocatedSlot, SlotAvailable
  <2> HIDE DEF slot
  <2>2. DOMAIN textures \cup {slot} = 0 .. nextSlot
    BY <1>3, <2>1
  <2>3. /\ textures' \in [0 .. nextSlot -> Images \cup {NoImage}]
        /\ textures'[slot] = image
        /\ \A s \in DOMAIN textures : textures'[s] = textures[s]
    BY <1>1, <1>3, <2>1, <2>2 DEF TextureInv
  <2>4. nextSlot' - 1 = nextSlot /\ nextSlot' \in Nat /\ nextSlot' <= MaxTextureSlots
    BY <1>2, <1>3, <2>1
  <2>5. ToSet(freeSlots') = {s \in DOMAIN textures' : textures'[s] = NoImage}
    BY <1>2, <1>3, <2>1, <2>2, <2>3 DEF TextureInv
  <2>6. /\ DOMAIN shown' \subseteq DOMAIN textures'
        /\ \A s \in DOMAIN shown' : shown'[s] \in Images /\ textures'[s] = shown'[s]
    BY <1>1, <1>3, <2>1, <2>2, <2>3 DEF TextureInv
  <2> QED
    BY <2>1, <2>3, <2>4, <2>5, <2>6 DEF TextureInv
<1> QED
  BY <1>4, <1>5

\* An unregistered slot goes behind the free list, which did not have it.
LEMMA UnregisterKeeps ==
  ASSUME TextureInv, NEW slot \in 0 .. MaxTextureSlots, Unregister(slot)
  PROVE  TextureInv'
<1>1. /\ slot < nextSlot /\ textures[slot] # NoImage
      /\ textures' = [textures EXCEPT ![slot] = NoImage]
      /\ freeSlots' = Append(freeSlots, slot)
      /\ shown' = [s \in DOMAIN shown \ {slot} |-> shown[s]]
      /\ nextSlot' = nextSlot
  BY DEF Unregister
<1>2. slot \in Nat /\ slot \in DOMAIN textures /\ slot \notin ToSet(freeSlots)
  BY <1>1, AssetAssumption DEF TextureInv
<1>3. /\ freeSlots' \in Seq(Nat) /\ IsInjective(freeSlots')
      /\ ToSet(freeSlots') = ToSet(freeSlots) \cup {slot}
  <2>1. freeSlots \in Seq(Nat) /\ IsInjective(freeSlots)
    BY DEF TextureInv
  <2> QED
    BY <1>1, <1>2, <2>1, PushDistinct
<1>4. /\ textures' \in [0 .. (nextSlot - 1) -> Images \cup {NoImage}]
      /\ textures'[slot] = NoImage
      /\ \A s \in DOMAIN textures \ {slot} : textures'[s] = textures[s]
  BY <1>1, <1>2 DEF TextureInv
<1>5. DOMAIN textures' = DOMAIN textures
  BY <1>1
<1>6. ToSet(freeSlots') = {s \in DOMAIN textures' : textures'[s] = NoImage}
  BY <1>2, <1>3, <1>4, <1>5 DEF TextureInv
<1>7. /\ DOMAIN shown' \subseteq DOMAIN textures'
      /\ \A s \in DOMAIN shown' : shown'[s] \in Images /\ textures'[s] = shown'[s]
  BY <1>1, <1>4, <1>5 DEF TextureInv
<1> QED
  BY <1>1, <1>3, <1>4, <1>6, <1>7 DEF TextureInv

\* Every call on the texture slots keeps them exact.
LEMMA TextureStep ==
  ASSUME TextureInv, [TextureNext]_textureVars
  PROVE  TextureInv'
<1>1. CASE UNCHANGED textureVars
  BY <1>1 DEF textureVars, TextureInv
<1> QED
  BY <1>1, SeatKeeps, UnregisterKeeps
     DEF TextureNext, RegisterTexture, RegisterMips, RegisterShared

\* No slot has been given out at the start.
LEMMA TextureInitInv ==
  ASSUME TextureInit
  PROVE  TextureInv
<1>1. textures = <<>> /\ freeSlots = <<>> /\ nextSlot = 0 /\ shown = <<>>
  BY DEF TextureInit
<1>2. 0 .. (nextSlot - 1) = {} /\ DOMAIN textures = {} /\ DOMAIN shown = {}
  BY <1>1
<1>3. textures \in [{} -> Images \cup {NoImage}]
  BY <1>1, <1>2
<1>4. ToSet(freeSlots) = {} /\ IsInjective(freeSlots) /\ freeSlots \in Seq(Nat)
  BY <1>1 DEF ToSet, IsInjective
<1> QED
  BY <1>1, <1>2, <1>3, <1>4, AssetAssumption DEF TextureInv

---------------------------------------------------------------------------
\* AssetsExact for any arenas, tables and textures: byte ranges are shared out
\* without overlap or loss and keep what was uploaded, every offset handed out
\* names its rows through rejected batches and lost devices, and every bindless
\* slot shows its owner's image.
THEOREM AssetsStayExact == AssetSpec => []AssetsExact
<1> DEFINE Inv == ArenaInv /\ TableInv /\ TextureInv
<1>1. AssetInit => Inv
  BY ArenaInitInv, TableInitInv, TextureInitInv DEF AssetInit
<1>2. Inv /\ [AssetNext]_assetVars => Inv'
  <2> SUFFICES ASSUME Inv, [AssetNext]_assetVars
               PROVE  Inv'
    OBVIOUS
  <2>1. /\ [ArenaNext]_arenaVars /\ [TableNext]_tableVars /\ [TextureNext]_textureVars
    BY DEF AssetNext, assetVars
  <2> QED
    BY <2>1, ArenaStep, TableStep, TextureStep
<1>3. Inv => AssetsExact
  BY ArenasExact, TablesExactly, TexturesExactly DEF AssetsExact
<1> QED
  BY <1>1, <1>2, <1>3, PTL DEF AssetSpec

----------------------------------------------------------------------------
(* TieredStorage: payloads and rows on three tiers, over one pool.  First  *)
(* what its helpers on lists, ranges and plans give.                       *)

\* A finite set as a list: each element at one place.
LEMMA ListedOnce ==
  ASSUME NEW S, IsFiniteSet(S)
  PROVE  SetToSeq(S) \in Bijection(1 .. Cardinality(S), S)
<1> DEFINE n == Cardinality(S)
<1>1. n \in Nat /\ ExistsBijection(1 .. n, S)
  BY FS_CardinalityType
<1>2. SetToSeq(S) \in [1 .. n -> S] /\ IsInjective(SetToSeq(S))
  <2>1. PICK f \in Bijection(1 .. n, S) : TRUE
    BY <1>1 DEF ExistsBijection
  <2>2. f \in [1 .. n -> S] /\ IsInjective(f)
    BY <2>1 DEF Bijection, Injection, IsInjective
  <2> QED BY <2>2 DEF SetToSeq
<1>3. SetToSeq(S) \in Injection(1 .. n, S)
  BY <1>2 DEF Injection, IsInjective
<1>4. IsFiniteSet(1 .. n) /\ Cardinality(1 .. n) = n
  BY <1>1, FS_Interval
<1>5. SetToSeq(S) \in Surjection(1 .. n, S)
  <2> HIDE DEF n
  <2>1. n = Cardinality(S)
    BY DEF n
  <2> QED BY <1>3, <1>4, <2>1, FS_Injection
<1> QED
  BY <1>3, <1>5 DEF Bijection

\* What giving ranges back one after another means.
LEMMA WithoutRangesIs ==
  ASSUME NEW p, NEW units, IsFiniteSet(units)
  PROVE  LET n == Cardinality(units)
             s == SetToSeq(units)
         IN /\ n \in Nat /\ s \in Bijection(1 .. n, units)
            /\ \E f : /\ f[0] = p /\ WithoutRanges(p, units) = f[n]
                      /\ \A i \in 1 .. n :
                           f[i] = Release(f[i - 1], [offset |-> s[i].off, count |-> s[i].len])
<1> DEFINE n == Cardinality(units)
           s == SetToSeq(units)
           range(i) == [offset |-> s[i].off, count |-> s[i].len]
           Is(f, m) == f = [i \in 0 .. m |-> IF i = 0 THEN p ELSE Release(f[i - 1], range(i))]
<1>1. n \in Nat
  BY FS_CardinalityType
<1>2. s \in Bijection(1 .. n, units)
  BY ListedOnce
<1> HIDE DEF s, n, range
<1>3. \E f : Is(f, n)
  <2> DEFINE bad == {m \in 0 .. n : ~ \E f : Is(f, m)}
  <2>1. SUFFICES ASSUME bad # {} PROVE FALSE
    BY <1>1
  <2>2. PICK m \in bad : \A k \in bad : m <= k
    <3>1. bad \in SUBSET Nat
      BY <1>1
    <3> HIDE DEF bad
    <3> QED
      BY <2>1, <3>1, LeastIsIn
  <2>3. m \in 0 .. n /\ ~ \E f : Is(f, m)
    OBVIOUS
  <2>4. m # 0
    <3>1. Is([i \in 0 .. 0 |-> p], 0)
      OBVIOUS
    <3> QED BY <3>1, <2>3
  <2>5. m - 1 \in 0 .. n /\ ~(m <= m - 1)
    BY <2>3, <2>4, <1>1
  <2>6. m - 1 \notin bad
    BY <2>2, <2>5
  <2>7. PICK g : Is(g, m - 1)
    BY <2>5, <2>6
  <2> HIDE DEF bad
  <2> DEFINE f == [i \in 0 .. m |-> IF i <= m - 1 THEN g[i] ELSE Release(g[m - 1], range(m))]
  <2>8. \A i \in 0 .. m : f[i] = IF i = 0 THEN p ELSE Release(f[i - 1], range(i))
    <3> TAKE i \in 0 .. m
    <3>0. m \in Int /\ i \in Int /\ m > 0
      BY <2>3, <2>4, <1>1
    <3>1. CASE i = 0
      BY <3>0, <3>1, <2>7
    <3>2. CASE i # 0 /\ i <= m - 1
      BY <3>0, <3>2, <2>7
    <3>3. CASE i = m
      BY <3>0, <3>3
    <3> QED BY <3>0, <3>1, <3>2, <3>3
  <2>9. Is(f, m)
    <3> HIDE DEF f
    <3> DEFINE ff == f
    <3>1. f = [i \in 0 .. m |-> f[i]]
      BY DEF f
    <3> QED BY <2>8, <3>1
  <2> QED BY <2>3, <2>9
<1>4. PICK f : Is(f, n) /\ WithoutRanges(p, units) = f[n]
  <2>1. Is(CHOOSE f : Is(f, n), n)
    BY <1>3
  <2> DEFINE g == CHOOSE f : Is(f, n)
  <2>2. Len(s) = n
    BY <1>1, <1>2 DEF Bijection, Injection
  <2>3. WithoutRanges(p, units) = g[n]
    BY <2>2 DEF WithoutRanges, range, s
  <2> QED BY <2>1, <2>3
<1>5. /\ f[0] = p
      /\ \A i \in 1 .. n : f[i] = Release(f[i - 1], range(i))
  <2>1. 0 \in 0 .. n /\ \A i \in 1 .. n : i \in 0 .. n /\ i # 0
    BY <1>1
  <2> QED BY <1>4, <2>1
<1> QED
  BY <1>1, <1>2, <1>4, <1>5 DEF range, s, n

\* The range of the pool a unit holds, and who is left when some give theirs back.
UnitRange(u) == [offset |-> u.off, count |-> u.len]
LeftOf(own, gone) == [k \in DOMAIN own \ gone |-> own[k]]

\* Ranges given back one after another are free, and nothing else changes.
LEMMA WithoutRangesGives ==
  ASSUME NEW p, NEW own, IsPool(p), Shares(p, own),
         NEW S \in SUBSET DOMAIN own, IsFiniteSet(S),
         \A x \in S : own[x] = UnitRange(x[3]) /\ x[3].len > 0
  PROVE  LET q == WithoutRanges(p, {x[3] : x \in S})
         IN /\ IsPool(q) /\ Shares(q, LeftOf(own, S)) /\ q.mem = p.mem /\ q.cap = p.cap
<1> DEFINE units == {x[3] : x \in S}
           n == Cardinality(units)
           s == SetToSeq(units)
           q == WithoutRanges(p, units)
           gone(i) == {x \in S : \E j \in 1 .. i : x[3] = s[j]}
<1>1. IsFiniteSet(units)
  <2> DEFINE h == [x \in S |-> x[3]]
  <2>1. h \in Surjection(S, units)
    BY DEF Surjection
  <2> HIDE DEF h, units
  <2> QED BY <2>1, FS_Surjection
<1>2. \A x, y \in S : x[3] = y[3] => x = y
  <2> SUFFICES ASSUME NEW x \in S, NEW y \in S, x[3] = y[3], x # y PROVE FALSE
    OBVIOUS
  <2>1. own[x] = own[y] /\ OwnedRows(own[x]) \cap OwnedRows(own[y]) = {}
    BY DEF Shares
  <2>2. own[x].offset \in Nat /\ own[x].count \in Nat /\ own[x].count > 0
    <3>1. own[x].offset \in Nat /\ own[x].count \in Nat
      BY DEF Shares, IsPlace
    <3>2. own[x] = UnitRange(x[3]) /\ x[3].len > 0
      OBVIOUS
    <3> QED BY <3>1, <3>2 DEF UnitRange
  <2>3. PaddedLen(own[x].count) \in Nat /\ PaddedLen(own[x].count) > 0
    BY <2>2, PaddedBounds
  <2>4. own[x].offset \in OwnedRows(own[x])
    BY <2>2, <2>3 DEF OwnedRows
  <2> QED BY <2>1, <2>4
<1> HIDE DEF n, s, q, units
<1>3. n \in Nat /\ s \in Bijection(1 .. n, units)
  BY <1>1, FS_CardinalityType, ListedOnce DEF n, s
<1>4. PICK f : /\ f[0] = p /\ q = f[n]
               /\ \A i \in 1 .. n :
                    f[i] = Release(f[i - 1], [offset |-> s[i].off, count |-> s[i].len])
  BY <1>1, WithoutRangesIs DEF n, s, q
<1>5. /\ \A i \in 1 .. n : \E x \in S : x[3] = s[i]
      /\ \A i, j \in 1 .. n : s[i] = s[j] => i = j
      /\ \A x \in S : \E i \in 1 .. n : x[3] = s[i]
  <2>1. /\ \A i \in 1 .. n : s[i] \in units
        /\ \A i, j \in 1 .. n : s[i] = s[j] => i = j
        /\ \A u \in units : \E i \in 1 .. n : u = s[i]
    BY <1>3 DEF Bijection, Injection, Surjection, IsInjective
  <2> QED BY <2>1 DEF units
<1> DEFINE Good(i) == /\ IsPool(f[i]) /\ Shares(f[i], LeftOf(own, gone(i)))
                      /\ f[i].mem = p.mem /\ f[i].cap = p.cap
<1>6. Good(0)
  <2>1. gone(0) = {}
    OBVIOUS
  <2>2. LeftOf(own, {}) = [k \in DOMAIN own |-> own[k]]
    BY DEF LeftOf
  <2>3. Shares(p, LeftOf(own, {}))
    BY <2>2 DEF Shares
  <2> HIDE DEF gone
  <2> QED BY <1>4, <2>1, <2>3
<1>7. ASSUME NEW i \in 1 .. n, Good(i - 1) PROVE Good(i)
  <2>1. PICK x \in S : x[3] = s[i]
    BY <1>5
  <2> DEFINE was == LeftOf(own, gone(i - 1))
  <2>2. x \in DOMAIN was /\ was[x] = [offset |-> s[i].off, count |-> s[i].len]
    <3>1. x \notin gone(i - 1)
      <4>1. \A j \in 1 .. i - 1 : s[j] # s[i]
        <5> TAKE j \in 1 .. i - 1
        <5>1. j \in 1 .. n /\ j # i
          BY <1>3
        <5> QED BY <5>1, <1>5
      <4> QED BY <2>1, <4>1
    <3> HIDE DEF gone
    <3> QED BY <2>1, <3>1 DEF LeftOf, UnitRange
  <2>3. gone(i) = gone(i - 1) \cup {x}
    <3>1. \A y \in S : (\E j \in 1 .. i : y[3] = s[j]) <=>
                          (\E j \in 1 .. i - 1 : y[3] = s[j]) \/ y = x
      <4> TAKE y \in S
      <4>1. \A j \in 1 .. i : j \in 1 .. i - 1 \/ j = i
        BY <1>3
      <4>2. (\A j \in 1 .. i - 1 : j \in 1 .. i) /\ i \in 1 .. i
        BY <1>3
      <4>3. y[3] = s[i] <=> y = x
        BY <1>2, <2>1
      <4> QED BY <4>1, <4>2, <4>3
    <3> QED BY <3>1
  <2>4. LeftOf(own, gone(i)) = Forgotten(was, x)
    <3> HIDE DEF gone
    <3>1. DOMAIN own \ gone(i) = (DOMAIN own \ gone(i - 1)) \ {x}
      BY <2>3
    <3>2. DOMAIN was = DOMAIN own \ gone(i - 1) /\ \A k \in DOMAIN was : was[k] = own[k]
      BY DEF LeftOf
    <3> HIDE DEF was
    <3> QED BY <3>1, <3>2 DEF LeftOf, Forgotten
  <2>5. f[i] = Release(f[i - 1], was[x])
    BY <1>4, <2>2
  <2> HIDE DEF was, gone
  <2>6. IsPool(f[i - 1]) /\ Shares(f[i - 1], was) /\ f[i - 1].mem = p.mem /\ f[i - 1].cap = p.cap
    BY <1>7 DEF was
  <2> QED BY <2>2, <2>4, <2>5, <2>6, ReleaseGives
<1>8. \A i \in 0 .. n : Good(i)
  <2> DEFINE bad == {i \in 0 .. n : ~Good(i)}
  <2> HIDE DEF Good
  <2>1. SUFFICES ASSUME bad # {} PROVE FALSE
    OBVIOUS
  <2>2. bad \in SUBSET Nat
    BY <1>3
  <2>3. PICK m \in bad : \A k \in bad : m <= k
    <3> HIDE DEF bad
    <3> QED BY <2>1, <2>2, LeastIsIn
  <2>4. m \in 0 .. n /\ ~Good(m)
    OBVIOUS
  <2>5. m \in 1 .. n
    BY <2>4, <1>3, <1>6
  <2>6. m - 1 \in 0 .. n /\ ~(m <= m - 1)
    BY <2>5, <1>3
  <2>7. Good(m - 1)
    BY <2>3, <2>6
  <2> QED BY <1>7, <2>4, <2>5, <2>7
<1>9. gone(n) = S
  BY <1>5
<1> HIDE DEF gone
<1>10. IsPool(q) /\ Shares(q, LeftOf(own, S)) /\ q.mem = p.mem /\ q.cap = p.cap
  <2>1. n \in 0 .. n
    BY <1>3
  <2> QED BY <1>4, <1>8, <1>9, <2>1
<1> QED
  BY <1>10 DEF q, units

\* What lies in a range of one's own can be written over.
LEMMA OverwriteGives ==
  ASSUME NEW p, NEW own, NEW said, IsPool(p), Shares(p, own), Says(p, own, said),
         NEW o \in DOMAIN own, NEW data, IsPayload(data), Len(data) = own[o].count
  PROVE  LET q == WritePadded(p, own[o].offset, data)
         IN IsPool(q) /\ Shares(q, own) /\ Says(q, own, Remembered(said, o, data))
<1> DEFINE h == own[o]
           n == Len(data)
           len == PaddedLen(n)
           q == WritePadded(p, h.offset, data)
           words == Remembered(said, o, data)
<1>1. /\ h.offset \in Nat /\ n \in Nat /\ len \in Nat /\ n <= len
      /\ h.offset + len <= p.cap /\ p.cap \in Nat /\ OwnedRows(h) = h.offset .. (h.offset + len - 1)
  BY PaddedBounds DEF Shares, IsPlace, IsPool, IsPayload, OwnedRows
<1>2. /\ q = [cap |-> p.cap, free |-> p.free, mem |-> q.mem]
      /\ q.cap = p.cap /\ q.free = p.free
      /\ q.mem = [i \in 0 .. p.cap - 1 |->
                    IF i \notin OwnedRows(h) THEN p.mem[i]
                    ELSE IF i - h.offset < n THEN data[i - h.offset + 1] ELSE Blank]
  <2> DEFINE m == [i \in DOMAIN p.mem |->
                    IF i \notin h.offset .. (h.offset + len - 1) THEN p.mem[i]
                    ELSE IF i - h.offset < n THEN data[i - h.offset + 1] ELSE Blank]
  <2>1. q = [p EXCEPT !.mem = m]
    BY DEF WritePadded
  <2>2. p = [cap |-> p.cap, free |-> p.free, mem |-> p.mem] /\ DOMAIN p.mem = 0 .. p.cap - 1
    BY DEF IsPool
  <2> HIDE DEF m, q, n, len
  <2>3. q = [cap |-> p.cap, free |-> p.free, mem |-> m]
    BY <2>1, <2>2
  <2> QED BY <1>1, <2>2, <2>3 DEF m
<1> HIDE DEF q
<1>3. IsPool(q) /\ Shares(q, own)
  BY <1>2 DEF IsPool, Shares
<1>4. Says(q, own, words)
  <2> SUFFICES ASSUME NEW k \in DOMAIN own, own[k].count > 0
               PROVE  k \in DOMAIN words /\ ReadRange(q, own[k]) = words[k]
    BY DEF Says
  <2>1. /\ own[k].offset \in Nat /\ own[k].count \in Nat /\ own[k].count <= PaddedLen(own[k].count)
        /\ PaddedLen(own[k].count) \in Nat /\ own[k].offset + PaddedLen(own[k].count) <= p.cap
    BY PaddedBounds DEF Shares, IsPlace
  <2>2. \A i \in 1 .. own[k].count : /\ own[k].offset + i - 1 \in OwnedRows(own[k])
                                     /\ own[k].offset + i - 1 \in 0 .. p.cap - 1
    <3>1. \A a, c, l \in Nat : \A i \in 1 .. c : c <= l /\ a + l <= p.cap =>
            a + i - 1 \in a .. (a + l - 1) /\ a + i - 1 \in 0 .. p.cap - 1
      BY <1>1
    <3> QED BY <2>1, <3>1 DEF OwnedRows
  <2>3. CASE k = o
    <3>1. \A i \in 1 .. n : q.mem[h.offset + i - 1] = data[i]
      <4> TAKE i \in 1 .. n
      <4> DEFINE at == h.offset + i - 1
      <4>1. at \in OwnedRows(h) /\ at \in 0 .. p.cap - 1
        BY <2>2, <2>3
      <4>2. at - h.offset < n /\ at - h.offset + 1 = i
        BY <1>1
      <4> HIDE DEF at
      <4>3. q.mem[at] = data[i]
        BY <1>2, <4>1, <4>2
      <4> QED BY <4>3 DEF at
    <3>2. ReadRange(q, h) = data
      BY <3>1 DEF ReadRange, IsPayload
    <3> QED BY <2>3, <3>2 DEF Remembered
  <2>4. CASE k # o
    <3>1. OwnedRows(own[k]) \cap OwnedRows(h) = {}
      BY <2>4 DEF Shares
    <3>2. \A i \in 1 .. own[k].count : q.mem[own[k].offset + i - 1] = p.mem[own[k].offset + i - 1]
      BY <1>2, <2>2, <3>1
    <3>3. ReadRange(q, own[k]) = ReadRange(p, own[k])
      BY <3>2 DEF ReadRange
    <3>4. k \in DOMAIN said /\ ReadRange(p, own[k]) = said[k]
      BY DEF Says
    <3> QED BY <2>4, <3>3, <3>4 DEF Remembered
  <2> QED BY <2>3, <2>4
<1> QED
  BY <1>3, <1>4 DEF q

\* A plan takes every unit once, lower ranks first.
LEMMA ByRankSorted ==
  ASSUME NEW U, IsFiniteSet(U), \A u \in U : u.rank \in Int,
         \A u, w \in U : u.rank = w.rank => u = w
  PROVE  LET n == Cardinality(U)
             plan == ByRank(U)
         IN /\ n \in Nat /\ DOMAIN plan = 1 .. n
            /\ \A i \in 1 .. n : plan[i] \in U
            /\ \A i, j \in 1 .. n : i < j => plan[i].rank < plan[j].rank
<1> DEFINE n == Cardinality(U)
           upTo(u) == {w \in U : w.rank <= u.rank}
           place(u) == Cardinality(upTo(u))
           places == [u \in U |-> place(u)]
           plan == ByRank(U)
<1>1. n \in Nat
  BY FS_CardinalityType
<1>2. \A u \in U : IsFiniteSet(upTo(u)) /\ place(u) \in 1 .. n /\ place(u) \in Int
  <2> SUFFICES ASSUME NEW u \in U
               PROVE  IsFiniteSet(upTo(u)) /\ place(u) \in 1 .. n /\ place(u) \in Int
    OBVIOUS
  <2> DEFINE T == upTo(u)
  <2>1. T \in SUBSET U /\ u \in T
    OBVIOUS
  <2> HIDE DEF T
  <2>2. IsFiniteSet(T) /\ Cardinality(T) \in Nat /\ Cardinality(T) <= n
    BY <2>1, FS_Subset, FS_CardinalityType
  <2>3. Cardinality(T) # 0
    BY <2>1, <2>2, FS_EmptySet
  <2>4. Cardinality(T) \in 1 .. n /\ Cardinality(T) \in Int
    BY <2>2, <2>3, <1>1
  <2> QED BY <2>2, <2>4 DEF T
<1>3. \A u, w \in U : u.rank < w.rank => place(u) < place(w)
  <2> SUFFICES ASSUME NEW u \in U, NEW w \in U, u.rank < w.rank PROVE place(u) < place(w)
    OBVIOUS
  <2> DEFINE T == upTo(u)
             V == upTo(w)
  <2>1. T \in SUBSET V /\ w \in V /\ w \notin T
    OBVIOUS
  <2>2. IsFiniteSet(V) /\ Cardinality(T) \in 1 .. n /\ Cardinality(V) \in 1 .. n
    BY <1>2
  <2> HIDE DEF T, V
  <2>3. Cardinality(T) <= Cardinality(V) /\ Cardinality(T) # Cardinality(V)
    BY <2>1, <2>2, FS_Subset
  <2>4. Cardinality(T) < Cardinality(V)
    BY <1>1, <2>2, <2>3
  <2> QED BY <2>4 DEF T, V
<1> HIDE DEF place
<1>4. \A u, w \in U : place(u) = place(w) => u = w
  <2> SUFFICES ASSUME NEW u \in U, NEW w \in U, place(u) = place(w) PROVE u = w
    OBVIOUS
  <2>1. place(u) \in Int
    BY <1>2
  <2>2. ~(u.rank < w.rank) /\ ~(w.rank < u.rank)
    BY <1>3, <2>1
  <2> QED BY <2>2
<1> HIDE DEF n
<1>5. places \in Surjection(U, 1 .. n)
  <2>1. places \in Injection(U, 1 .. n)
    BY <1>2, <1>4 DEF Injection, IsInjective
  <2> QED BY <1>1, <2>1, FS_Interval, FS_Injection DEF n
<1>6. \A i \in 1 .. n : \E u \in U : place(u) = i
  BY <1>5 DEF Surjection
<1>7. plan = [i \in 1 .. n |-> CHOOSE u \in U : place(u) = i]
  BY DEF ByRank, place, n
<1> HIDE DEF plan
<1>8. \A i \in 1 .. n : plan[i] \in U /\ place(plan[i]) = i
  BY <1>6, <1>7
<1>9. \A i, j \in 1 .. n : i < j => plan[i].rank < plan[j].rank
  <2> SUFFICES ASSUME NEW i \in 1 .. n, NEW j \in 1 .. n, i < j, ~(plan[i].rank < plan[j].rank)
               PROVE  FALSE
    OBVIOUS
  <2>1. plan[i] \in U /\ plan[j] \in U /\ place(plan[i]) = i /\ place(plan[j]) = j
    BY <1>8
  <2>2. plan[j].rank < plan[i].rank \/ plan[i] = plan[j]
    BY <2>1
  <2> QED BY <1>1, <1>3, <2>1, <2>2
<1> QED
  BY <1>1, <1>7, <1>8, <1>9 DEF plan, n

\* The units of a payload that someone may write.
LEMMA UnitsFit ==
  ASSUME NEW data \in Payloads, data # <<>>
  PROVE  LET U == UnitsOfPayload(Len(data))
         IN /\ Len(data) \in Nat \ {0} /\ IsFiniteSet(U)
            /\ \A u \in U : /\ u = [rank |-> u.rank, off |-> u.off, bytes |-> u.bytes]
                            /\ u.rank \in Nat /\ u.off \in Nat /\ u.bytes \in Nat \ {0}
                            /\ u.off + u.bytes <= Len(data) /\ PaddedLen(u.bytes) = u.bytes
            /\ \A u, w \in U : u.rank = w.rank => u = w
<1> DEFINE n == Len(data)
           U == UnitsOfPayload(n)
           unit(s) == [rank |-> s.rank, off |-> Clamp(s.offset, n),
                       bytes |-> Clamp(s.offset + s.len, n) - Clamp(s.offset, n)]
<1>1. n \in Nat \ {0}
  BY TierAssumption
<1>2. \A u \in U : PaddedLen(u.bytes) = u.bytes
  BY LayoutAssumption
<1>3. CASE Segments = {}
  <2>1. U = {[rank |-> 0, off |-> 0, bytes |-> n]}
    BY <1>3 DEF UnitsOfPayload
  <2>2. IsFiniteSet(U)
    BY <2>1, FS_Singleton
  <2> HIDE DEF U, n
  <2>3. \A u \in U : u = [rank |-> 0, off |-> 0, bytes |-> n]
    BY <2>1
  <2> QED BY <1>1, <1>2, <2>2, <2>3 DEF U, n
<1>4. CASE Segments # {}
  <2> DEFINE all == {unit(s) : s \in Segments}
  <2>1. U = {u \in all : u.bytes > 0}
    BY <1>4 DEF UnitsOfPayload, UnitsOfLayout
  <2>2. IsFiniteSet(all)
    <3> DEFINE h == [s \in Segments |-> unit(s)]
    <3> HIDE DEF unit
    <3>1. h \in Surjection(Segments, all)
      BY DEF Surjection
    <3> HIDE DEF h, all
    <3> QED BY <3>1, FS_Surjection, LayoutAssumption
  <2>3. IsFiniteSet(U)
    <3>1. U \in SUBSET all
      BY <2>1
    <3> HIDE DEF all, U
    <3> QED BY <2>2, <3>1, FS_Subset
  <2>4. \A u \in U : \E s \in Segments : u = unit(s) /\ u.bytes > 0
    BY <2>1
  <2> HIDE DEF U, all, n
  <2>5. ASSUME NEW s \in Segments, unit(s).bytes > 0
        PROVE  /\ unit(s) = [rank |-> unit(s).rank, off |-> unit(s).off, bytes |-> unit(s).bytes]
               /\ unit(s).rank = s.rank /\ s.rank \in Nat
               /\ unit(s).off \in Nat /\ unit(s).bytes \in Nat \ {0}
               /\ unit(s).off + unit(s).bytes <= n
    <3>1. s.offset \in Nat /\ s.len \in Nat /\ s.rank \in Nat
      BY LayoutAssumption
    <3> QED BY <1>1, <2>5, <3>1 DEF Clamp
  <2>6. \A u \in U : /\ u = [rank |-> u.rank, off |-> u.off, bytes |-> u.bytes]
                     /\ u.rank \in Nat /\ u.off \in Nat /\ u.bytes \in Nat \ {0}
                     /\ u.off + u.bytes <= n
    <3> HIDE DEF unit
    <3> QED BY <2>4, <2>5
  <2>7. \A u, w \in U : u.rank = w.rank => u = w
    <3> HIDE DEF unit
    <3> QED BY <2>4, <2>5, LayoutAssumption
  <2> QED BY <1>1, <1>2, <2>3, <2>6, <2>7 DEF U, n
<1> QED
  BY <1>3, <1>4

\* A flight plan of n elements: ascending ranks, whole words, inside the payload.
PlanSound(plan, n) ==
  /\ Len(plan) \in Nat /\ DOMAIN plan = 1 .. Len(plan) /\ n \in Nat
  /\ \A i \in 1 .. Len(plan) :
       /\ plan[i].rank \in Nat /\ plan[i].off \in Nat /\ plan[i].bytes \in Nat \ {0}
       /\ plan[i].off + plan[i].bytes <= n /\ PaddedLen(plan[i].bytes) = plan[i].bytes
  /\ \A i, j \in 1 .. Len(plan) : i < j => plan[i].rank < plan[j].rank

\* A unit of a plan, at the place it was given.
PlacedUnit(plan, at, i) == [rank |-> plan[i].rank, off |-> at[i], len |-> plan[i].bytes]

\* Units are the first k of a plan.
FirstUnits(plan, units, k) ==
  /\ k \in 0 .. Len(plan)
  /\ \E at \in [1 .. k -> Nat] : units = {PlacedUnit(plan, at, i) : i \in 1 .. k}

\* Every plan of a payload is sound.
LEMMA PlanOfPayload ==
  ASSUME NEW data \in Payloads, data # <<>>
  PROVE  PlanSound(ExecutionPlan(Len(data)), Len(data))
<1> DEFINE U == UnitsOfPayload(Len(data))
           n == Cardinality(U)
           plan == ByRank(U)
<1>1. /\ Len(data) \in Nat \ {0} /\ IsFiniteSet(U)
      /\ \A u \in U : /\ u.rank \in Nat /\ u.off \in Nat /\ u.bytes \in Nat \ {0}
                      /\ u.off + u.bytes <= Len(data) /\ PaddedLen(u.bytes) = u.bytes
      /\ \A u, w \in U : u.rank = w.rank => u = w
  BY UnitsFit
<1> HIDE DEF U
<1>2. \A u \in U : u.rank \in Int
  BY <1>1
<1>3. /\ n \in Nat /\ DOMAIN plan = 1 .. n
      /\ \A i \in 1 .. n : plan[i] \in U
      /\ \A i, j \in 1 .. n : i < j => plan[i].rank < plan[j].rank
  BY <1>1, <1>2, ByRankSorted
<1>4. Len(plan) = n
  <2>1. plan = [i \in 1 .. n |-> CHOOSE u \in U : Cardinality({w \in U : w.rank <= u.rank}) = i]
    BY DEF ByRank
  <2> HIDE DEF n, plan
  <2> QED BY <1>3, <2>1
<1> HIDE DEF plan, n
<1>5. PlanSound(plan, Len(data))
  BY <1>1, <1>3, <1>4 DEF PlanSound
<1> QED
  BY <1>5 DEF plan, U, ExecutionPlan

\* What is resident counts as many units as it has ranks.
LEMMA PrefixFacts ==
  ASSUME NEW plan, NEW n, PlanSound(plan, n), NEW units, NEW k, FirstUnits(plan, units, k)
  PROVE  /\ k \in Nat /\ IsFiniteSet(units) /\ Cardinality(units) = k
         /\ {u.rank : u \in units} = {plan[i].rank : i \in 1 .. k}
         /\ \A u \in units : /\ u = [rank |-> u.rank, off |-> u.off, len |-> u.len]
                             /\ u.rank \in Nat /\ u.off \in Nat /\ u.len \in Nat \ {0}
                             /\ \E i \in 1 .. k : /\ i \in 1 .. Len(plan) /\ u.rank = plan[i].rank
                                                  /\ u.len = plan[i].bytes
<1>1. k \in 0 .. Len(plan) /\ k \in Nat
  BY DEF FirstUnits, PlanSound
<1>2. PICK at \in [1 .. k -> Nat] : units = {PlacedUnit(plan, at, i) : i \in 1 .. k}
  BY DEF FirstUnits
<1>3. \A i \in 1 .. k : /\ i \in 1 .. Len(plan) /\ at[i] \in Nat
                        /\ plan[i].rank \in Nat /\ plan[i].bytes \in Nat \ {0}
  BY <1>1 DEF PlanSound
<1> DEFINE h == [i \in 1 .. k |-> PlacedUnit(plan, at, i)]
<1>4. h \in Bijection(1 .. k, units)
  <2>1. h \in Surjection(1 .. k, units)
    BY <1>2 DEF Surjection
  <2>2. \A i, j \in 1 .. k : h[i] = h[j] => i = j
    <3> SUFFICES ASSUME NEW i \in 1 .. k, NEW j \in 1 .. k, h[i] = h[j], i < j PROVE FALSE
      BY <1>1
    <3>1. plan[i].rank = plan[j].rank
      BY DEF PlacedUnit
    <3>2. plan[i].rank < plan[j].rank
      BY <1>3 DEF PlanSound
    <3> QED BY <1>3, <3>1, <3>2
  <2> HIDE DEF h
  <2> QED BY <2>1, <2>2 DEF Bijection, Injection, Surjection, IsInjective
<1>5. IsFiniteSet(units) /\ Cardinality(units) = k
  <2>1. ExistsBijection(1 .. k, units)
    BY <1>4 DEF ExistsBijection
  <2>2. IsFiniteSet(1 .. k)
    BY <1>1, FS_Interval
  <2> QED BY <1>1, <2>1, <2>2, FS_Bijection, FS_CountingElements
<1>6. {u.rank : u \in units} = {plan[i].rank : i \in 1 .. k}
  <2>1. \A i \in 1 .. k : PlacedUnit(plan, at, i).rank = plan[i].rank
    BY DEF PlacedUnit
  <2>2. {PlacedUnit(plan, at, i).rank : i \in 1 .. k} = {plan[i].rank : i \in 1 .. k}
    BY <2>1
  <2> QED BY <1>2, <2>2
<1>7. ASSUME NEW u \in units
      PROVE  /\ u = [rank |-> u.rank, off |-> u.off, len |-> u.len]
             /\ u.rank \in Nat /\ u.off \in Nat /\ u.len \in Nat \ {0}
             /\ \E i \in 1 .. k : /\ i \in 1 .. Len(plan) /\ u.rank = plan[i].rank
                                  /\ u.len = plan[i].bytes
  <2>1. PICK i \in 1 .. k : u = PlacedUnit(plan, at, i)
    BY <1>2
  <2> QED BY <1>3, <2>1 DEF PlacedUnit
<1> QED
  BY <1>1, <1>5, <1>6, <1>7

\* The next unit of a plan makes a longer prefix.
LEMMA PrefixGrows ==
  ASSUME NEW plan, NEW n, PlanSound(plan, n), NEW units, NEW k, FirstUnits(plan, units, k),
         k + 1 <= Len(plan), NEW off \in Nat
  PROVE  FirstUnits(plan,
                  units \cup {[rank |-> plan[k + 1].rank, off |-> off, len |-> plan[k + 1].bytes]},
                  k + 1)
<1>1. k \in 0 .. Len(plan) /\ Len(plan) \in Nat /\ k + 1 \in 0 .. Len(plan)
  BY DEF FirstUnits, PlanSound
<1>2. PICK at \in [1 .. k -> Nat] : units = {PlacedUnit(plan, at, i) : i \in 1 .. k}
  BY DEF FirstUnits
<1> DEFINE to == [i \in 1 .. k + 1 |-> IF i = k + 1 THEN off ELSE at[i]]
           new == [rank |-> plan[k + 1].rank, off |-> off, len |-> plan[k + 1].bytes]
<1>3. \A i \in 1 .. k + 1 : i \in 1 .. k \/ i = k + 1
  BY <1>1
<1>4. (\A i \in 1 .. k : i \in 1 .. k + 1 /\ i # k + 1) /\ k + 1 \in 1 .. k + 1
  BY <1>1
<1>5. to \in [1 .. k + 1 -> Nat]
  BY <1>3
<1>6. (\A i \in 1 .. k : PlacedUnit(plan, to, i) = PlacedUnit(plan, at, i))
      /\ PlacedUnit(plan, to, k + 1) = new
  BY <1>4 DEF PlacedUnit
<1> HIDE DEF to, new
<1>7. units \cup {new} = {PlacedUnit(plan, to, i) : i \in 1 .. k + 1}
  BY <1>2, <1>3, <1>4, <1>6
<1> QED
  BY <1>1, <1>5, <1>7 DEF FirstUnits, new

\* What is left of a prefix when units leave from the top is a prefix.
LEMMA PrefixShrinks ==
  ASSUME NEW plan, NEW n, PlanSound(plan, n), NEW units, NEW k, FirstUnits(plan, units, k),
         NEW left \in SUBSET units,
         \A u \in left, w \in units : w.rank < u.rank => w \in left
  PROVE  \E m \in Nat : FirstUnits(plan, left, m)
<1>1. k \in 0 .. Len(plan) /\ Len(plan) \in Nat /\ k \in Nat
  BY DEF FirstUnits, PlanSound
<1>2. PICK at \in [1 .. k -> Nat] : units = {PlacedUnit(plan, at, i) : i \in 1 .. k}
  BY DEF FirstUnits
<1> DEFINE out == {i \in 1 .. k + 1 : i = k + 1 \/ PlacedUnit(plan, at, i) \notin left}
<1>3. out \in SUBSET Nat /\ k + 1 \in out
  BY <1>1
<1>4. PICK m \in out : \A i \in out : m <= i
  <2> HIDE DEF out
  <2> QED BY <1>3, LeastIsIn
<1>5. m \in 1 .. k + 1 /\ \A i \in 1 .. m - 1 : i \in 1 .. k /\ PlacedUnit(plan, at, i) \in left
  BY <1>1, <1>4
<1>6. ASSUME NEW u \in left PROVE \E i \in 1 .. m - 1 : u = PlacedUnit(plan, at, i)
  <2>1. PICK i \in 1 .. k : u = PlacedUnit(plan, at, i)
    BY <1>2
  <2>2. CASE i < m
    BY <1>1, <1>5, <2>1, <2>2
  <2>3. CASE i = m
    BY <1>1, <1>4, <2>1, <2>3
  <2>4. CASE i > m
    <3>1. m \in 1 .. k /\ m \in 1 .. Len(plan) /\ i \in 1 .. Len(plan)
      BY <1>1, <1>5, <2>4
    <3>2. plan[m].rank < plan[i].rank
      BY <2>4, <3>1 DEF PlanSound
    <3>3. PlacedUnit(plan, at, m).rank < u.rank
      BY <2>1, <3>2 DEF PlacedUnit
    <3>4. PlacedUnit(plan, at, m) \in left
      BY <1>2, <3>1, <3>3
    <3> QED BY <1>1, <1>4, <3>1, <3>4
  <2> QED BY <1>1, <1>5, <2>2, <2>3, <2>4
<1> DEFINE to == [i \in 1 .. m - 1 |-> at[i]]
<1>7. left = {PlacedUnit(plan, to, i) : i \in 1 .. m - 1}
  <2>1. \A i \in 1 .. m - 1 : PlacedUnit(plan, to, i) = PlacedUnit(plan, at, i)
    BY DEF PlacedUnit
  <2> HIDE DEF to, out
  <2> QED BY <1>5, <1>6, <2>1
<1>8. to \in [1 .. m - 1 -> Nat] /\ m - 1 \in 0 .. Len(plan) /\ m - 1 \in Nat
  BY <1>1, <1>5
<1> QED
  BY <1>7, <1>8 DEF FirstUnits

---------------------------------------------------------------------------
(* What holds of what a flush moves. *)

\* The tier says where the bytes are.
TierTells(state) ==
  /\ state.tier \in {Disk, Ram, Vram} /\ state.spilled \in BOOLEAN
  /\ state.tier = Vram <=> state.units # {}
  /\ state.tier = Disk <=> state.spilled

\* A record is of a payload that was written, and its units are the first ones of
\* its plan: no flight, demotion or eviction leaves a gap.
RecordSound(rec) ==
  /\ rec = [count |-> rec.count, generation |-> rec.generation, lastUse |-> rec.lastUse,
            lastSeq |-> rec.lastSeq, tier |-> rec.tier, data |-> rec.data, box |-> rec.box,
            spilled |-> rec.spilled, units |-> rec.units]
  /\ rec.data \in Payloads /\ rec.data # <<>> /\ rec.count = Len(rec.data)
  /\ TierTells(rec)
  /\ \E k \in Nat : FirstUnits(ExecutionPlan(rec.count), rec.units, k)

\* A row has its one unit or none.
RowSound(row) ==
  /\ row = [present |-> row.present, tier |-> row.tier, generation |-> row.generation,
            lastUse |-> row.lastUse, lastSeq |-> row.lastSeq, units |-> row.units,
            spilled |-> row.spilled]
  /\ TierTells(row) /\ row.units \subseteq {RowUnit}

\* Who holds a range: an entity, by its handle, or a unit of the record at o.
OwnerKey(e) == <<"owner", e, e>>
SlotKey(o, u) == <<"slot", o, u>>

\* Handles and resident units hold ranges of their own, and so does what was
\* resident when its record went.
Owned(p, f, hs, words, own, said) ==
  /\ IsPool(p) /\ Shares(p, own) /\ Says(p, own, said)
  /\ \A k \in DOMAIN own : /\ k[1] \in {"owner", "slot"}
                           /\ k[1] = "slot" => own[k] = UnitRange(k[3]) /\ k[3].len > 0
  /\ \A e \in PoolOwners : /\ OwnerKey(e) \in DOMAIN own /\ own[OwnerKey(e)] = hs[e]
                           /\ hs[e].count > 0 => said[OwnerKey(e)] = words[e]
  /\ \A o \in DOMAIN f : \A u \in f[o].units :
       SlotKey(o, u) \in DOMAIN own /\ said[SlotKey(o, u)] = UnitData(f[o], u)

\* The account covers what is placed.  It may say more: a record that goes takes
\* its units from what is placed and leaves the account alone.
VramCovers(t) ==
  /\ t.vram \in Nat /\ t.vram <= VramBudget /\ VramBytes(Residents(t)) <= t.vram

\* The whole of it, of a bundle, the handle column and what entities wrote.
Sound(t, hs, words) ==
  /\ t = [pool |-> t.pool, recs |-> t.recs, rows |-> t.rows, vram |-> t.vram,
          fetches |-> t.fetches, grown |-> t.grown]
  /\ IsFiniteSet(DOMAIN t.recs) /\ t.recs = [o \in DOMAIN t.recs |-> t.recs[o]]
  /\ \A o \in DOMAIN t.recs : RecordSound(t.recs[o])
  /\ t.rows = [r \in Rows |-> t.rows[r]] /\ \A r \in Rows : RowSound(t.rows[r])
  /\ VramCovers(t)
  /\ \E own, said : Owned(t.pool, t.recs, hs, words, own, said)

\* The first units of a record's plan.
LEMMA RecordFacts ==
  ASSUME NEW rec, RecordSound(rec)
  PROVE  LET plan == ExecutionPlan(rec.count)
         IN /\ PlanSound(plan, rec.count) /\ rec.count \in Nat \ {0}
            /\ FirstUnits(plan, rec.units, Cardinality(rec.units))
            /\ IsFiniteSet(rec.units)
            /\ \A u \in rec.units : u.rank \in Nat /\ u.off \in Nat /\ u.len \in Nat \ {0}
<1> DEFINE plan == ExecutionPlan(rec.count)
<1>1. PlanSound(plan, rec.count)
  BY PlanOfPayload DEF RecordSound
<1>2. rec.count \in Nat \ {0}
  BY UnitsFit DEF RecordSound
<1>3. PICK k \in Nat : FirstUnits(plan, rec.units, k)
  BY DEF RecordSound
<1> HIDE DEF plan
<1>4. /\ IsFiniteSet(rec.units) /\ Cardinality(rec.units) = k
      /\ \A u \in rec.units : u.rank \in Nat /\ u.off \in Nat /\ u.len \in Nat \ {0}
  BY <1>1, <1>3, PrefixFacts
<1> QED
  BY <1>1, <1>2, <1>3, <1>4 DEF plan

\* What is resident, spelled out.
LEMMA ResidentIs ==
  ASSUME NEW class, NEW f, NEW x
  PROVE  x \in ResidentsOf(class, f) <=> \E o \in DOMAIN f : \E u \in f[o].units : x = <<class, o, u>>
BY DEF ResidentsOf

\* Where the units are the same, so is what is resident.
LEMMA SameUnits ==
  ASSUME NEW class, NEW f, NEW g, DOMAIN f = DOMAIN g, \A o \in DOMAIN f : g[o].units = f[o].units
  PROVE  ResidentsOf(class, g) = ResidentsOf(class, f)
<1>1. \A o \in DOMAIN f : {<<class, o, u>> : u \in g[o].units} = {<<class, o, u>> : u \in f[o].units}
  OBVIOUS
<1> QED
  BY <1>1 DEF ResidentsOf

\* Finitely much is resident.
LEMMA ResidentsFinite ==
  ASSUME NEW class, NEW f, IsFiniteSet(DOMAIN f), \A o \in DOMAIN f : IsFiniteSet(f[o].units)
  PROVE  IsFiniteSet(ResidentsOf(class, f))
<1> DEFINE part(o) == {<<class, o, u>> : u \in f[o].units}
           parts == {part(o) : o \in DOMAIN f}
<1>1. \A o \in DOMAIN f : IsFiniteSet(part(o))
  <2> TAKE o \in DOMAIN f
  <2> DEFINE h == [u \in f[o].units |-> <<class, o, u>>]
  <2>1. h \in Surjection(f[o].units, part(o))
    BY DEF Surjection
  <2> HIDE DEF h
  <2> QED BY <2>1, FS_Surjection
<1> HIDE DEF part
<1>2. IsFiniteSet(parts) /\ \A T \in parts : IsFiniteSet(T)
  <2> DEFINE h == [o \in DOMAIN f |-> part(o)]
  <2>1. h \in Surjection(DOMAIN f, parts)
    BY DEF Surjection
  <2>2. \A T \in parts : IsFiniteSet(T)
    BY <1>1
  <2> HIDE DEF h, parts
  <2> QED BY <2>1, <2>2, FS_Surjection
<1>3. IsFiniteSet(UNION parts)
  <2> HIDE DEF parts
  <2> QED BY <1>2, FS_UNION
<1> QED
  BY <1>3 DEF ResidentsOf, part

\* What is resident, and how many bytes it has.
LEMMA ResidentsTyped ==
  ASSUME NEW t, NEW hs, NEW words, Sound(t, hs, words)
  PROVE  /\ IsFiniteSet(Residents(t))
         /\ \A x \in Residents(t) : x[3].len \in Nat \ {0}
         /\ \A S \in SUBSET Residents(t) : IsFiniteSet(S) /\ VramBytes(S) \in Nat
<1>1. \A o \in DOMAIN t.recs : IsFiniteSet(t.recs[o].units)
                               /\ \A u \in t.recs[o].units : u.len \in Nat \ {0}
  BY RecordFacts DEF Sound
<1>2. \A r \in DOMAIN t.rows : IsFiniteSet(t.rows[r].units)
                               /\ \A u \in t.rows[r].units : u.len \in Nat \ {0}
  <2> SUFFICES ASSUME NEW r \in Rows
               PROVE  IsFiniteSet(t.rows[r].units)
                      /\ \A u \in t.rows[r].units : u.len \in Nat \ {0}
    BY DEF Sound
  <2>1. t.rows[r].units \subseteq {RowUnit}
    BY DEF Sound, RowSound
  <2>2. IsFiniteSet({RowUnit}) /\ RowUnit.len \in Nat \ {0}
    BY FS_Singleton, TierAssumption DEF RowUnit
  <2> QED BY <2>1, <2>2, FS_Subset
<1>3. IsFiniteSet(DOMAIN t.recs) /\ IsFiniteSet(DOMAIN t.rows)
  <2>1. DOMAIN t.rows = Rows
    BY DEF Sound
  <2> QED BY <2>1, TierAssumption DEF Sound
<1>4. IsFiniteSet(Residents(t))
  BY <1>1, <1>2, <1>3, ResidentsFinite, FS_Union DEF Residents
<1>5. \A x \in Residents(t) : x[3].len \in Nat \ {0}
  <2> TAKE x \in Residents(t)
  <2>1. CASE x \in ResidentsOf("slot", t.recs)
    BY <2>1, <1>1, ResidentIs
  <2>2. CASE x \in ResidentsOf("row", t.rows)
    BY <2>2, <1>2, ResidentIs
  <2> QED BY <2>1, <2>2 DEF Residents
<1>6. ASSUME NEW S \in SUBSET Residents(t) PROVE IsFiniteSet(S) /\ VramBytes(S) \in Nat
  <2> DEFINE lens == [x \in S |-> x[3].len]
  <2>1. IsFiniteSet(S)
    BY <1>4, FS_Subset
  <2>2. \A x \in S : lens[x] \in Nat
    BY <1>5
  <2> HIDE DEF lens
  <2>3. SumOver(lens, S) \in Nat
    BY <2>1, <2>2, SumTyped
  <2> QED BY <2>1, <2>3 DEF VramBytes, lens
<1> QED
  BY <1>4, <1>5, <1>6

\* The bytes of fewer units.
LEMMA BytesOfFewer ==
  ASSUME NEW S, IsFiniteSet(S), \A x \in S : x[3].len \in Nat, NEW T \in SUBSET S
  PROVE  /\ VramBytes(T) \in Nat /\ VramBytes(S) \in Nat /\ VramBytes(T) <= VramBytes(S)
         /\ VramBytes(S \ T) = VramBytes(S) - VramBytes(T)
<1> DEFINE f == [x \in S |-> x[3].len]
           g == [x \in T |-> x[3].len]
           h == [x \in S \ T |-> x[3].len]
<1>1. /\ \A x \in S : f[x] \in Nat
      /\ \A x \in T : g[x] = f[x]
      /\ \A x \in S \ T : h[x] = f[x]
  OBVIOUS
<1>2. VramBytes(S) = SumOver(f, S) /\ VramBytes(T) = SumOver(g, T) /\ VramBytes(S \ T) = SumOver(h, S \ T)
  BY DEF VramBytes
<1> HIDE DEF f, g, h
<1>3. SumOver(g, T) = SumOver(f, T) /\ SumOver(h, S \ T) = SumOver(f, S \ T)
  BY <1>1, SumOfSame
<1>4. /\ SumOver(f, T) \in Nat /\ SumOver(f, S) \in Nat /\ SumOver(f, T) <= SumOver(f, S)
      /\ SumOver(f, S \ T) = SumOver(f, S) - SumOver(f, T)
  BY <1>1, SumOfFewer
<1> QED
  BY <1>2, <1>3, <1>4

\* The bytes of one unit more.
LEMMA BytesOfMore ==
  ASSUME NEW S, IsFiniteSet(S), \A x \in S : x[3].len \in Nat,
         NEW new, new \notin S, new[3].len \in Nat
  PROVE  VramBytes(S \cup {new}) = VramBytes(S) + new[3].len /\ VramBytes(S) \in Nat
<1> DEFINE all == S \cup {new}
           f == [x \in {new} |-> x[3].len]
<1>1. IsFiniteSet(all) /\ \A x \in all : x[3].len \in Nat
  BY FS_AddElement
<1>2. {new} \in SUBSET all /\ all \ {new} = S
  OBVIOUS
<1> HIDE DEF all
<1>3. /\ VramBytes({new}) \in Nat /\ VramBytes(all) \in Nat
      /\ VramBytes(all \ {new}) = VramBytes(all) - VramBytes({new})
  BY <1>1, <1>2, BytesOfFewer
<1>4. VramBytes({new}) = new[3].len
  <2>1. f[new] = new[3].len
    OBVIOUS
  <2> HIDE DEF f
  <2>2. SumOver(f, {new}) = new[3].len
    BY <2>1, SumOfOne
  <2> QED BY <2>2 DEF VramBytes, f
<1>5. VramBytes(S) \in Nat
  BY <1>2, BytesOfFewer, <1>1
<1>6. VramBytes(S) = VramBytes(all) - new[3].len
  BY <1>2, <1>3, <1>4
<1> QED
  BY <1>3, <1>5, <1>6 DEF all

\* Demands, claims, exports and imports: the same units in the same places.
LEMMA SoundFrame ==
  ASSUME NEW t, NEW hs, NEW words, Sound(t, hs, words), NEW after,
         after = [pool |-> t.pool, recs |-> after.recs, rows |-> after.rows, vram |-> t.vram,
                  fetches |-> after.fetches, grown |-> after.grown],
         after.recs = [o \in DOMAIN t.recs |-> after.recs[o]],
         \A o \in DOMAIN t.recs : /\ RecordSound(after.recs[o])
                                  /\ after.recs[o].units = t.recs[o].units
                                  /\ after.recs[o].count = t.recs[o].count
                                  /\ after.recs[o].data = t.recs[o].data,
         after.rows = [r \in Rows |-> after.rows[r]],
         \A r \in Rows : RowSound(after.rows[r]) /\ after.rows[r].units = t.rows[r].units
  PROVE  Sound(after, hs, words) /\ Residents(after) = Residents(t)
<1>1. after.pool = t.pool /\ after.vram = t.vram
  OBVIOUS
<1>2. DOMAIN after.recs = DOMAIN t.recs /\ DOMAIN t.rows = Rows /\ DOMAIN after.rows = Rows
  BY DEF Sound
<1>3. Residents(after) = Residents(t)
  <2>1. ResidentsOf("slot", after.recs) = ResidentsOf("slot", t.recs)
    <3> DEFINE f == t.recs
               g == after.recs
    <3>1. DOMAIN f = DOMAIN g /\ \A o \in DOMAIN f : g[o].units = f[o].units
      BY <1>2
    <3> HIDE DEF f, g
    <3>2. ResidentsOf("slot", g) = ResidentsOf("slot", f)
      BY <3>1, SameUnits
    <3> QED BY <3>2 DEF f, g
  <2>2. ResidentsOf("row", after.rows) = ResidentsOf("row", t.rows)
    <3>1. \A r \in DOMAIN t.rows : after.rows[r].units = t.rows[r].units
      BY <1>2
    <3> QED BY <1>2, <3>1, SameUnits
  <2> QED BY <2>1, <2>2 DEF Residents
<1>4. VramCovers(after)
  BY <1>1, <1>3 DEF Sound, VramCovers
<1>5. PICK own, said : Owned(t.pool, t.recs, hs, words, own, said)
  BY DEF Sound
<1>6. \A o \in DOMAIN t.recs : \A u : UnitData(after.recs[o], u) = UnitData(t.recs[o], u)
  BY DEF UnitData
<1>7. Owned(after.pool, after.recs, hs, words, own, said)
  <2>1. \A o \in DOMAIN t.recs : after.recs[o].units = t.recs[o].units
    OBVIOUS
  <2>2. \A o \in DOMAIN after.recs : \A u \in after.recs[o].units :
          SlotKey(o, u) \in DOMAIN own /\ said[SlotKey(o, u)] = UnitData(after.recs[o], u)
    <3> SUFFICES ASSUME NEW o \in DOMAIN t.recs, NEW u \in t.recs[o].units
                 PROVE  SlotKey(o, u) \in DOMAIN own /\ said[SlotKey(o, u)] = UnitData(after.recs[o], u)
      BY <1>2, <2>1
    <3>1. SlotKey(o, u) \in DOMAIN own /\ said[SlotKey(o, u)] = UnitData(t.recs[o], u)
      BY <1>5, Zenon DEF Owned
    <3> QED BY <1>6, <3>1, Zenon
  <2>3. IsPool(after.pool) /\ Shares(after.pool, own) /\ Says(after.pool, own, said)
    BY <1>1, <1>5 DEF Owned
  <2> QED BY <1>5, <2>2, <2>3 DEF Owned
<1>8. \A o \in DOMAIN after.recs : RecordSound(after.recs[o])
  BY <1>2
<1>9. IsFiniteSet(DOMAIN after.recs) /\ after.recs = [o \in DOMAIN after.recs |-> after.recs[o]]
  BY <1>2 DEF Sound
<1>10. after = [pool |-> after.pool, recs |-> after.recs, rows |-> after.rows, vram |-> after.vram,
               fetches |-> after.fetches, grown |-> after.grown]
  BY <1>1
<1>11. \E o1, s1 : Owned(after.pool, after.recs, hs, words, o1, s1)
  BY <1>7
<1>12. Sound(after, hs, words)
  BY <1>4, <1>8, <1>9, <1>10, <1>11, Zenon DEF Sound
<1> QED
  BY <1>3, <1>12

\* A record less its upper units.
LEMMA RecordDiminished ==
  ASSUME NEW rec, RecordSound(rec), NEW units \in SUBSET rec.units,
         \A u \in units, w \in rec.units : w.rank > u.rank => w \in units
  PROVE  LET less == Diminished(rec, units)
         IN /\ RecordSound(less) /\ less.units = rec.units \ units
            /\ less.count = rec.count /\ less.data = rec.data /\ less.spilled = rec.spilled
<1> DEFINE less == Diminished(rec, units)
           tier == IF units # {} /\ units = rec.units THEN Ram ELSE rec.tier
           generation == rec.generation + Cardinality(units)
           left == rec.units \ units
           plan == ExecutionPlan(rec.count)
<1>1. less = [rec EXCEPT !.units = left, !.generation = generation, !.tier = tier]
  BY DEF Diminished
<1>2. rec = [count |-> rec.count, generation |-> rec.generation, lastUse |-> rec.lastUse,
            lastSeq |-> rec.lastSeq, tier |-> rec.tier, data |-> rec.data, box |-> rec.box,
            spilled |-> rec.spilled, units |-> rec.units]
  BY DEF RecordSound
<1> HIDE DEF less, tier, generation, left
<1>3. less = [count |-> rec.count, generation |-> generation, lastUse |-> rec.lastUse,
             lastSeq |-> rec.lastSeq, tier |-> tier, data |-> rec.data, box |-> rec.box,
             spilled |-> rec.spilled, units |-> left]
  BY <1>1, <1>2
<1>4. TierTells(less)
  <2>1. /\ less.tier = tier /\ less.spilled = rec.spilled /\ less.units = left
    BY <1>3
  <2>2. CASE units = {}
    <3>1. left = rec.units /\ tier = rec.tier
      BY <2>2 DEF left, tier
    <3> QED BY <2>1, <3>1 DEF RecordSound, TierTells
  <2>3. CASE units # {} /\ units = rec.units
    <3>1. left = {} /\ tier = Ram /\ rec.tier = Vram
      BY <2>3 DEF left, tier, RecordSound, TierTells
    <3> QED BY <2>1, <3>1 DEF RecordSound, TierTells, Ram, Vram, Disk
  <2>4. CASE units # {} /\ units # rec.units
    <3>1. left # {} /\ tier = rec.tier /\ rec.units # {}
      BY <2>4 DEF left, tier
    <3> QED BY <2>1, <3>1 DEF RecordSound, TierTells
  <2> QED BY <2>2, <2>3, <2>4
<1>5. \E m \in Nat : FirstUnits(plan, left, m)
  <2>1. PlanSound(plan, rec.count) /\ FirstUnits(plan, rec.units, Cardinality(rec.units))
        /\ \A u \in rec.units : u.rank \in Nat
    BY RecordFacts
  <2> HIDE DEF plan
  <2>2. left \in SUBSET rec.units /\ \A u \in left, w \in rec.units : w.rank < u.rank => w \in left
    BY <2>1 DEF left
  <2> QED BY <2>1, <2>2, PrefixShrinks
<1>6. RecordSound(less)
  BY <1>3, <1>4, <1>5 DEF RecordSound
<1> QED
  BY <1>3, <1>6 DEF less, left

\* A row less its unit, or nothing.
LEMMA RowDiminished ==
  ASSUME NEW row, RowSound(row), NEW units \in SUBSET row.units
  PROVE  RowSound(Diminished(row, units)) /\ Diminished(row, units).units = row.units \ units
<1> DEFINE less == Diminished(row, units)
           tier == IF units # {} /\ units = row.units THEN Ram ELSE row.tier
           generation == row.generation + Cardinality(units)
           left == row.units \ units
<1>1. less = [row EXCEPT !.units = left, !.generation = generation, !.tier = tier]
  BY DEF Diminished
<1>2. row = [present |-> row.present, tier |-> row.tier, generation |-> row.generation,
            lastUse |-> row.lastUse, lastSeq |-> row.lastSeq, units |-> row.units,
            spilled |-> row.spilled]
  BY DEF RowSound
<1> HIDE DEF less, tier, generation, left
<1>3. less = [present |-> row.present, tier |-> tier, generation |-> generation,
             lastUse |-> row.lastUse, lastSeq |-> row.lastSeq, units |-> left,
             spilled |-> row.spilled]
  BY <1>1, <1>2
<1>4. TierTells(less)
  <2>1. /\ less.tier = tier /\ less.spilled = row.spilled /\ less.units = left
    BY <1>3
  <2>2. CASE units = {}
    <3>1. left = row.units /\ tier = row.tier
      BY <2>2 DEF left, tier
    <3> QED BY <2>1, <3>1 DEF RowSound, TierTells
  <2>3. CASE units # {} /\ units = row.units
    <3>1. left = {} /\ tier = Ram /\ row.tier = Vram
      BY <2>3 DEF left, tier, RowSound, TierTells
    <3> QED BY <2>1, <3>1 DEF RowSound, TierTells, Ram, Vram, Disk
  <2>4. CASE units # {} /\ units # row.units
    <3>1. left # {} /\ tier = row.tier /\ row.units # {}
      BY <2>4 DEF left, tier
    <3> QED BY <2>1, <3>1 DEF RowSound, TierTells
  <2> QED BY <2>2, <2>3, <2>4
<1>5. less.units \subseteq {RowUnit}
  BY <1>3 DEF RowSound, left
<1> QED
  BY <1>3, <1>4, <1>5 DEF RowSound, less, left

\* Units are given up, from the top of each plan: their ranges are free and
\* the others stay.
LEMMA WithdrawKeeps ==
  ASSUME NEW t, NEW hs, NEW words, Sound(t, hs, words), NEW S \in SUBSET Residents(t),
         \A o \in DOMAIN t.recs : \A u \in UnitsIn(S, "slot", o), w \in t.recs[o].units :
           w.rank > u.rank => w \in UnitsIn(S, "slot", o)
  PROVE  LET w == Withdraw(t, S)
         IN /\ Sound(w, hs, words)
            /\ DOMAIN w.recs = DOMAIN t.recs
            /\ \A o \in DOMAIN t.recs : /\ w.recs[o].units = t.recs[o].units \ UnitsIn(S, "slot", o)
                                        /\ w.recs[o].count = t.recs[o].count
                                        /\ w.recs[o].data = t.recs[o].data
                                        /\ w.recs[o].spilled = t.recs[o].spilled
            /\ \A r \in Rows : w.rows[r].units = t.rows[r].units \ UnitsIn(S, "row", r)
            /\ w.vram <= t.vram /\ w.vram \in Nat
<1> DEFINE w == Withdraw(t, S)
           slots == {y \in S : y[1] = "slot"}
           p == WithoutRanges(t.pool, {x[3] : x \in slots})
           f == [o \in DOMAIN t.recs |-> Diminished(t.recs[o], UnitsIn(S, "slot", o))]
           g == [r \in Rows |-> Diminished(t.rows[r], UnitsIn(S, "row", r))]
           v == t.vram - VramBytes(S)
<1>1. t = [pool |-> t.pool, recs |-> t.recs, rows |-> t.rows, vram |-> t.vram,
          fetches |-> t.fetches, grown |-> t.grown]
  BY DEF Sound
<1>2. DOMAIN t.rows = Rows
  BY DEF Sound
<1>3. w = [t EXCEPT !.pool = p, !.recs = f, !.rows = g, !.vram = v]
  BY <1>1, <1>2 DEF Withdraw
<1> HIDE DEF w, p, f, g, v
<1>4. w = [pool |-> p, recs |-> f, rows |-> g, vram |-> v, fetches |-> t.fetches, grown |-> t.grown]
  BY <1>1, <1>3
<1> HIDE DEF slots
<1>5. /\ IsFiniteSet(Residents(t)) /\ IsFiniteSet(S) /\ VramBytes(S) \in Nat
      /\ \A x \in Residents(t) : x[3].len \in Nat \ {0}
  BY ResidentsTyped
<1>6. \A x \in S : \/ x[1] = "slot" /\ \E o \in DOMAIN t.recs : \E u \in t.recs[o].units : x = SlotKey(o, u)
                   \/ x[1] = "row" /\ \E r \in Rows : \E u \in t.rows[r].units : x = <<"row", r, u>>
  <2> TAKE x \in S
  <2>1. x \in ResidentsOf("slot", t.recs) \/ x \in ResidentsOf("row", t.rows)
    BY DEF Residents
  <2>2. CASE x \in ResidentsOf("slot", t.recs)
    <3>1. PICK o \in DOMAIN t.recs : \E u \in t.recs[o].units : x = <<"slot", o, u>>
      BY <2>2, ResidentIs
    <3>2. x[1] = "slot"
      BY <3>1
    <3> QED BY <3>1, <3>2 DEF SlotKey
  <2>3. CASE x \in ResidentsOf("row", t.rows)
    BY <1>2, <2>3, ResidentIs
  <2> QED BY <2>1, <2>2, <2>3
<1>7. \A o : UnitsIn(S, "slot", o) = {x[3] : x \in {y \in S : y[1] = "slot" /\ y[2] = o}}
  BY DEF UnitsIn
<1>8. ASSUME NEW o \in DOMAIN t.recs
      PROVE  /\ UnitsIn(S, "slot", o) \subseteq t.recs[o].units
             /\ \A u : u \in UnitsIn(S, "slot", o) <=> SlotKey(o, u) \in S
  <2>1. ASSUME NEW u, u \in UnitsIn(S, "slot", o) PROVE SlotKey(o, u) \in S /\ u \in t.recs[o].units
    <3>1. PICK x \in S : x[1] = "slot" /\ x[2] = o /\ u = x[3]
      BY <1>7, <2>1
    <3>2. PICK o2 \in DOMAIN t.recs : \E u2 \in t.recs[o2].units : x = SlotKey(o2, u2)
      BY <1>6, <3>1
    <3> QED BY <3>1, <3>2 DEF SlotKey
  <2>2. ASSUME NEW u, SlotKey(o, u) \in S PROVE u \in UnitsIn(S, "slot", o)
    <3>1. SlotKey(o, u)[1] = "slot" /\ SlotKey(o, u)[2] = o /\ SlotKey(o, u)[3] = u
      BY DEF SlotKey
    <3> QED BY <1>7, <2>2, <3>1
  <2> QED BY <2>1, <2>2
<1>9. ASSUME NEW r \in Rows
      PROVE  /\ UnitsIn(S, "row", r) \subseteq t.rows[r].units
             /\ \A u : u \in UnitsIn(S, "row", r) <=> <<"row", r, u>> \in S
  <2>0. UnitsIn(S, "row", r) = {x[3] : x \in {y \in S : y[1] = "row" /\ y[2] = r}}
    BY DEF UnitsIn
  <2>1. ASSUME NEW u, u \in UnitsIn(S, "row", r) PROVE <<"row", r, u>> \in S /\ u \in t.rows[r].units
    <3>1. PICK x \in S : x[1] = "row" /\ x[2] = r /\ u = x[3]
      BY <2>0, <2>1
    <3>2. PICK r2 \in Rows : \E u2 \in t.rows[r2].units : x = <<"row", r2, u2>>
      BY <1>6, <3>1
    <3> QED BY <3>1, <3>2
  <2>2. ASSUME NEW u, <<"row", r, u>> \in S PROVE u \in UnitsIn(S, "row", r)
    <3>1. <<"row", r, u>>[1] = "row" /\ <<"row", r, u>>[2] = r /\ <<"row", r, u>>[3] = u
      OBVIOUS
    <3> QED BY <2>0, <2>2, <3>1
  <2> QED BY <2>1, <2>2
<1>10. ASSUME NEW o \in DOMAIN t.recs
       PROVE  /\ RecordSound(f[o]) /\ f[o].units = t.recs[o].units \ UnitsIn(S, "slot", o)
              /\ f[o].count = t.recs[o].count /\ f[o].data = t.recs[o].data
              /\ f[o].spilled = t.recs[o].spilled
  <2>1. RecordSound(t.recs[o]) /\ UnitsIn(S, "slot", o) \in SUBSET t.recs[o].units
    BY <1>8 DEF Sound
  <2>2. f[o] = Diminished(t.recs[o], UnitsIn(S, "slot", o))
    BY DEF f
  <2> QED BY <2>1, <2>2, RecordDiminished
<1>11. ASSUME NEW r \in Rows
       PROVE  RowSound(g[r]) /\ g[r].units = t.rows[r].units \ UnitsIn(S, "row", r)
  <2>1. RowSound(t.rows[r]) /\ UnitsIn(S, "row", r) \in SUBSET t.rows[r].units
    BY <1>9 DEF Sound
  <2>2. g[r] = Diminished(t.rows[r], UnitsIn(S, "row", r))
    BY DEF g
  <2> QED BY <2>1, <2>2, RowDiminished
<1>12. /\ DOMAIN f = DOMAIN t.recs /\ f = [o \in DOMAIN f |-> f[o]]
       /\ DOMAIN g = Rows /\ g = [r \in Rows |-> g[r]]
  BY DEF f, g
<1>13. Residents(w) = Residents(t) \ S
  <2>0. w.recs = f /\ w.rows = g
    BY <1>4
  <2>1. ASSUME NEW x PROVE x \in ResidentsOf("slot", f) <=> x \in ResidentsOf("slot", t.recs) /\ x \notin S
    <3>1. \A o \in DOMAIN t.recs : \A u : u \in f[o].units <=> u \in t.recs[o].units /\ <<"slot", o, u>> \notin S
      BY <1>8, <1>10 DEF SlotKey
    <3> QED BY <1>12, <3>1, ResidentIs
  <2>2. ASSUME NEW x PROVE x \in ResidentsOf("row", g) <=> x \in ResidentsOf("row", t.rows) /\ x \notin S
    <3>1. \A r \in Rows : \A u : u \in g[r].units <=> u \in t.rows[r].units /\ <<"row", r, u>> \notin S
      BY <1>9, <1>11
    <3> QED BY <1>2, <1>12, <3>1, ResidentIs
  <2>3. Residents(w) = ResidentsOf("slot", f) \cup ResidentsOf("row", g)
        /\ Residents(t) = ResidentsOf("slot", t.recs) \cup ResidentsOf("row", t.rows)
    BY <2>0 DEF Residents
  <2> QED BY <2>1, <2>2, <2>3
<1>14. v \in Nat /\ v <= t.vram /\ VramCovers(w)
  <2>1. /\ VramBytes(S) \in Nat /\ VramBytes(Residents(t)) \in Nat /\ VramBytes(S) <= VramBytes(Residents(t))
        /\ VramBytes(Residents(t) \ S) = VramBytes(Residents(t)) - VramBytes(S)
    BY <1>5, BytesOfFewer
  <2>2. t.vram \in Nat /\ t.vram <= VramBudget /\ VramBytes(Residents(t)) <= t.vram
    BY DEF Sound, VramCovers
  <2>3. w.vram = v /\ v = t.vram - VramBytes(S)
    BY <1>4 DEF v
  <2> QED BY <1>13, <2>1, <2>2, <2>3, TierAssumption DEF VramCovers
<1>15. PICK own, said : Owned(t.pool, t.recs, hs, words, own, said)
  BY DEF Sound
<1>16. Owned(p, f, hs, words, LeftOf(own, slots), said)
  <2> DEFINE keep == LeftOf(own, slots)
  <2>1. /\ \A k \in DOMAIN keep : k \in DOMAIN own /\ keep[k] = own[k]
        /\ \A k \in DOMAIN own : k \notin slots => k \in DOMAIN keep
    BY DEF LeftOf
  <2>2. slots \in SUBSET DOMAIN own /\ IsFiniteSet(slots)
        /\ \A x \in slots : own[x] = UnitRange(x[3]) /\ x[3].len > 0
    <3>1. slots \in SUBSET S /\ \A x \in slots : x[1] = "slot"
      BY DEF slots
    <3>2. \A x \in slots : x \in DOMAIN own
      BY <1>6, <1>15, <3>1 DEF Owned
    <3> QED BY <1>5, <1>15, <3>1, <3>2, FS_Subset DEF Owned
  <2>3. IsPool(t.pool) /\ Shares(t.pool, own) /\ Says(t.pool, own, said)
    BY <1>15 DEF Owned
  <2>4. IsPool(p) /\ Shares(p, keep) /\ p.mem = t.pool.mem
    <3>1. LET q == WithoutRanges(t.pool, {x[3] : x \in slots})
          IN IsPool(q) /\ Shares(q, LeftOf(own, slots)) /\ q.mem = t.pool.mem /\ q.cap = t.pool.cap
      BY <2>2, <2>3, WithoutRangesGives
    <3> QED BY <3>1 DEF p
  <2> HIDE DEF keep
  <2>5. Says(p, keep, said)
    <3>1. \A k \in DOMAIN own : ReadRange(p, own[k]) = ReadRange(t.pool, own[k])
      BY <2>4 DEF ReadRange
    <3> QED BY <2>1, <2>3, <3>1 DEF Says
  <2>6. \A e \in PoolOwners : OwnerKey(e) \notin slots
    BY DEF OwnerKey, slots
  <2>7. \A e \in PoolOwners : /\ OwnerKey(e) \in DOMAIN keep /\ keep[OwnerKey(e)] = hs[e]
                              /\ hs[e].count > 0 => said[OwnerKey(e)] = words[e]
    <3> TAKE e \in PoolOwners
    <3>1. /\ OwnerKey(e) \in DOMAIN own /\ own[OwnerKey(e)] = hs[e]
          /\ hs[e].count > 0 => said[OwnerKey(e)] = words[e]
      BY <1>15 DEF Owned
    <3> QED BY <2>1, <2>6, <3>1
  <2>8. ASSUME NEW o \in DOMAIN f, NEW u \in f[o].units
        PROVE  SlotKey(o, u) \in DOMAIN keep /\ said[SlotKey(o, u)] = UnitData(f[o], u)
    <3>1. o \in DOMAIN t.recs /\ u \in t.recs[o].units /\ SlotKey(o, u) \notin S
      BY <1>8, <1>10, <1>12
    <3>2. SlotKey(o, u) \in DOMAIN own /\ said[SlotKey(o, u)] = UnitData(t.recs[o], u)
      BY <1>15, <3>1 DEF Owned
    <3>3. UnitData(f[o], u) = UnitData(t.recs[o], u)
      BY <1>10, <3>1 DEF UnitData
    <3> QED BY <2>1, <3>1, <3>2, <3>3 DEF slots
  <2>9. \A k \in DOMAIN keep : /\ k[1] \in {"owner", "slot"}
                               /\ k[1] = "slot" => keep[k] = UnitRange(k[3]) /\ k[3].len > 0
    <3> TAKE k \in DOMAIN keep
    <3>1. /\ k[1] \in {"owner", "slot"}
          /\ k[1] = "slot" => own[k] = UnitRange(k[3]) /\ k[3].len > 0
      BY <1>15, <2>1 DEF Owned
    <3> QED BY <2>1, <3>1
  <2>10. \A o \in DOMAIN f : \A u \in f[o].units :
           SlotKey(o, u) \in DOMAIN keep /\ said[SlotKey(o, u)] = UnitData(f[o], u)
    BY <2>8
  <2>11. IsPool(p) /\ Shares(p, keep) /\ Says(p, keep, said)
    BY <2>4, <2>5
  <2>12. Owned(p, f, hs, words, keep, said)
    BY <2>7, <2>9, <2>10, <2>11 DEF Owned
  <2> QED BY <2>12 DEF keep
<1>17. Sound(w, hs, words)
  <2>1. w.pool = p /\ w.recs = f /\ w.rows = g
    BY <1>4
  <2>2. w = [pool |-> w.pool, recs |-> w.recs, rows |-> w.rows, vram |-> w.vram,
            fetches |-> w.fetches, grown |-> w.grown]
    BY <1>4
  <2>3. IsFiniteSet(DOMAIN w.recs) /\ w.recs = [o \in DOMAIN w.recs |-> w.recs[o]]
    BY <1>12, <2>1 DEF Sound
  <2>4. (\A o \in DOMAIN w.recs : RecordSound(w.recs[o])) /\ \A r \in Rows : RowSound(w.rows[r])
    BY <1>10, <1>11, <1>12, <2>1
  <2>5. w.rows = [r \in Rows |-> w.rows[r]]
    BY <1>12, <2>1
  <2>6. \E o1, s1 : Owned(w.pool, w.recs, hs, words, o1, s1)
    BY <1>16, <2>1
  <2> QED BY <1>14, <2>2, <2>3, <2>4, <2>5, <2>6, Zenon DEF Sound
<1> QED
  BY <1>4, <1>10, <1>11, <1>12, <1>14, <1>17 DEF w

\* A payload is a sequence, and so is each of its slices.
LEMMA SliceIsPayload ==
  ASSUME NEW data \in Payloads, data # <<>>, NEW off \in Nat, NEW n \in Nat \ {0},
         off + n <= Len(data)
  PROVE  LET cut == SubSeq(data, off + 1, off + n)
         IN IsPayload(cut) /\ Len(cut) = n /\ cut # <<>>
<1> DEFINE cut == SubSeq(data, off + 1, off + n)
           S == {data[i] : i \in 1 .. Len(data)}
<1>1. Len(data) \in Nat
  BY TierAssumption
<1>2. \A i \in off + 1 .. off + n : data[i] \in S
  BY <1>1
<1>3. off + 1 \in Int /\ off + n \in Int /\ off + 1 <= off + n /\ off + n - (off + 1) + 1 = n
  OBVIOUS
<1> HIDE DEF S
<1>4. cut \in Seq(S) /\ Len(cut) = n
  <2> DEFINE a == off + 1
             b == off + n
  <2>1. a \in Int /\ b \in Int /\ a <= b /\ b - a + 1 = n /\ \A i \in a .. b : data[i] \in S
    BY <1>2, <1>3
  <2> HIDE DEF a, b
  <2>2. SubSeq(data, a, b) \in Seq(S)
        /\ Len(SubSeq(data, a, b)) = IF a <= b THEN b - a + 1 ELSE 0
    BY <2>1, SubSeqProperties
  <2> QED BY <2>1, <2>2 DEF a, b
<1> HIDE DEF cut
<1>5. IsPayload(cut)
  BY <1>4 DEF IsPayload
<1>6. cut # <<>>
  BY <1>4
<1> QED
  BY <1>4, <1>5, <1>6 DEF cut

\* A range just handed out is nobody's.
LEMMA HandedOutIsNew ==
  ASSUME NEW p, NEW own, NEW said, IsPool(p), Shares(p, own), Says(p, own, said),
         \A k \in DOMAIN own : k[1] # "new",
         NEW data, IsPayload(data), data # <<>>, Writable(p, NoHandleRange, data)
  PROVE  LET h == WriteVarRow(p, NoHandleRange, data).handle
         IN /\ h.offset \in Nat /\ h = [offset |-> h.offset, count |-> Len(data)]
            /\ \A k \in DOMAIN own : own[k] # h
<1> DEFINE h == WriteVarRow(p, NoHandleRange, data).handle
           q == WriteVarRow(p, NoHandleRange, data).pool
           key == <<"new", 0, 0>>
           all == Remembered(own, key, h)
<1>1. key \notin DOMAIN own
  OBVIOUS
<1> HIDE DEF key
<1>2. Shares(q, all)
  BY <1>1, WriteGives
<1>3. h = [offset |-> h.offset, count |-> Len(data)]
  BY DEF WriteVarRow
<1>4. Len(data) \in Nat \ {0}
  <2>1. Len(data) = 0 => data = [i \in {} |-> data[i]]
    BY DEF IsPayload
  <2>2. [i \in {} |-> data[i]] = <<>>
    OBVIOUS
  <2> QED BY <2>1, <2>2 DEF IsPayload
<1> HIDE DEF h, q
<1>5. all[key] = h /\ \A k \in DOMAIN own : k # key /\ k \in DOMAIN all /\ all[k] = own[k]
  BY <1>1 DEF Remembered
<1>6. key \in DOMAIN all
  BY DEF Remembered
<1> HIDE DEF all
<1>7. IsPlace(h, q.cap)
  BY <1>2, <1>5, <1>6 DEF Shares
<1>8. h.offset \in OwnedRows(h)
  BY <1>3, <1>4, <1>7, PaddedBounds DEF OwnedRows, IsPlace
<1>9. \A k \in DOMAIN own : OwnedRows(own[k]) \cap OwnedRows(h) = {}
  BY <1>2, <1>5, <1>6 DEF Shares
<1>10. \A k \in DOMAIN own : own[k] # h
  BY <1>8, <1>9
<1> QED
  BY <1>3, <1>7, <1>10 DEF h, IsPlace

\* The slice a unit of a prefix must hold.
LEMMA UnitDataIs ==
  ASSUME NEW rec, RecordSound(rec), NEW i \in 1 .. Len(ExecutionPlan(rec.count)),
         NEW u, u.rank = ExecutionPlan(rec.count)[i].rank
  PROVE  UnitData(rec, u) = SubSeq(rec.data, ExecutionPlan(rec.count)[i].off + 1,
                                   ExecutionPlan(rec.count)[i].off + ExecutionPlan(rec.count)[i].bytes)
<1> DEFINE plan == ExecutionPlan(rec.count)
           step == CHOOSE j \in DOMAIN plan : plan[j].rank = u.rank
<1>1. PlanSound(plan, rec.count)
  BY RecordFacts
<1>2. UnitData(rec, u) = SubSeq(rec.data, plan[step].off + 1, plan[step].off + plan[step].bytes)
  BY DEF UnitData
<1> HIDE DEF plan
<1>3. i \in DOMAIN plan /\ plan[i].rank = u.rank
  BY <1>1 DEF PlanSound, plan
<1>4. step \in DOMAIN plan /\ plan[step].rank = u.rank
  BY <1>3
<1> HIDE DEF step
<1>5. step = i
  <2>1. \A a, b \in 1 .. Len(plan) : a < b => plan[a].rank < plan[b].rank
    BY <1>1 DEF PlanSound
  <2>2. step \in 1 .. Len(plan) /\ i \in 1 .. Len(plan) /\ Len(plan) \in Nat
        /\ plan[i].rank \in Nat
    BY <1>1, <1>3, <1>4 DEF PlanSound
  <2> QED BY <1>3, <1>4, <2>1, <2>2
<1> QED
  BY <1>2, <1>5 DEF plan

\* What no flight touches of the record it is about.
SameBut(t, u, off) ==
  /\ DOMAIN u.recs = DOMAIN t.recs
  /\ u.recs[off].count = t.recs[off].count /\ u.recs[off].data = t.recs[off].data
  /\ u.recs[off].spilled = t.recs[off].spilled

\* The next unit of a plan is placed where nothing else lies.
LEMMA AdmitKeeps ==
  ASSUME NEW t, NEW hs, NEW words, Sound(t, hs, words), NEW off \in DOMAIN t.recs,
         ~t.recs[off].spilled,
         NEW next1 \in 1 .. Len(ExecutionPlan(t.recs[off].count)),
         Cardinality(t.recs[off].units) = next1 - 1,
         t.vram + ExecutionPlan(t.recs[off].count)[next1].bytes <= VramBudget
  PROVE  LET up == AdmitUnit(t, off, ExecutionPlan(t.recs[off].count)[next1])
         IN /\ Sound(up, hs, words) /\ SameBut(t, up, off)
            /\ up.grown => Cardinality(up.recs[off].units) = next1
<1> DEFINE rec == t.recs[off]
           plan == ExecutionPlan(rec.count)
           u == plan[next1]
           data == SubSeq(rec.data, u.off + 1, u.off + u.bytes)
           w == WriteVarRow(t.pool, NoHandleRange, data)
           range == [rank |-> u.rank, off |-> w.handle.offset, len |-> PaddedLen(u.bytes)]
           up == AdmitUnit(t, off, u)
           new == [rec EXCEPT !.units = @ \cup {range}, !.tier = Vram]
<1>1. t = [pool |-> t.pool, recs |-> t.recs, rows |-> t.rows, vram |-> t.vram,
          fetches |-> t.fetches, grown |-> t.grown]
      /\ t.recs = [o \in DOMAIN t.recs |-> t.recs[o]]
      /\ IsFiniteSet(DOMAIN t.recs)
  BY DEF Sound
<1>2. CASE ~Reservable(t.pool, PaddedLen(u.bytes))
  <2>1. up = [t EXCEPT !.grown = FALSE]
    BY <1>2 DEF AdmitUnit
  <2> HIDE DEF up
  <2>2. up = [pool |-> t.pool, recs |-> t.recs, rows |-> t.rows, vram |-> t.vram,
             fetches |-> t.fetches, grown |-> FALSE]
    BY <1>1, <2>1
  <2>3. Sound(up, hs, words)
    <3>1. /\ up = [pool |-> t.pool, recs |-> up.recs, rows |-> up.rows, vram |-> t.vram,
                  fetches |-> up.fetches, grown |-> up.grown]
          /\ up.recs = t.recs /\ up.rows = t.rows
      BY <2>2
    <3>2. /\ up.recs = [o \in DOMAIN t.recs |-> up.recs[o]]
          /\ \A o \in DOMAIN t.recs : /\ RecordSound(up.recs[o])
                                      /\ up.recs[o].units = t.recs[o].units
                                      /\ up.recs[o].count = t.recs[o].count
                                      /\ up.recs[o].data = t.recs[o].data
          /\ up.rows = [r \in Rows |-> up.rows[r]]
          /\ \A r \in Rows : RowSound(up.rows[r]) /\ up.rows[r].units = t.rows[r].units
      BY <3>1 DEF Sound
    <3> QED BY <3>1, <3>2, SoundFrame
  <2> QED BY <2>2, <2>3 DEF up, SameBut
<1>3. CASE Reservable(t.pool, PaddedLen(u.bytes))
  <2>1. up = [pool |-> w.pool, recs |-> [t.recs EXCEPT ![off] = new], rows |-> t.rows,
             vram |-> t.vram + u.bytes, fetches |-> t.fetches, grown |-> t.grown]
    <3> HIDE DEF plan
    <3>1. Reservable(t.pool, PaddedLen(u.bytes))
      BY <1>3
    <3> HIDE DEF u
    <3>2. up = [t EXCEPT !.pool = w.pool, !.vram = @ + u.bytes, !.recs[off] = new]
      BY <3>1 DEF AdmitUnit
    <3> HIDE DEF up, range, w, new
    <3> QED BY <1>1, <3>2
  <2>2. RecordSound(rec) /\ PlanSound(plan, rec.count) /\ FirstUnits(plan, rec.units, next1 - 1)
    BY RecordFacts DEF Sound
  <2>3. /\ u.rank \in Nat /\ u.off \in Nat /\ u.bytes \in Nat \ {0}
        /\ u.off + u.bytes <= rec.count /\ PaddedLen(u.bytes) = u.bytes
    BY <2>2 DEF PlanSound
  <2>4. rec.data \in Payloads /\ rec.data # <<>> /\ rec.count = Len(rec.data)
    BY <2>2 DEF RecordSound
  <2> HIDE DEF up, plan
  <2>5. IsPayload(data) /\ Len(data) = u.bytes /\ data # <<>>
    <3> HIDE DEF u
    <3>1. u.off + u.bytes <= Len(rec.data)
      BY <2>3, <2>4
    <3> HIDE DEF rec
    <3> QED BY <2>3, <2>4, <3>1, SliceIsPayload
  <2>6. Writable(t.pool, NoHandleRange, data)
    <3>1. Release(t.pool, NoHandleRange) = t.pool
      BY DEF Release, NoHandleRange
    <3> QED BY <1>3, <2>5, <3>1 DEF Writable
  <2> HIDE DEF rec, u, data
  <2>7. PICK own, said : Owned(t.pool, t.recs, hs, words, own, said)
    BY DEF Sound
  <2>8. /\ IsPool(t.pool) /\ Shares(t.pool, own) /\ Says(t.pool, own, said)
        /\ \A k \in DOMAIN own : k[1] # "new"
    BY <2>7 DEF Owned
  <2>9. /\ w.handle.offset \in Nat /\ w.handle = [offset |-> w.handle.offset, count |-> u.bytes]
        /\ \A k \in DOMAIN own : own[k] # w.handle
    BY <2>5, <2>6, <2>8, HandedOutIsNew
  <2> HIDE DEF w
  <2>10. /\ range = [rank |-> u.rank, off |-> w.handle.offset, len |-> u.bytes]
         /\ UnitRange(range) = w.handle /\ range.len = u.bytes /\ range.rank = u.rank
    <3>1. range = [rank |-> u.rank, off |-> w.handle.offset, len |-> u.bytes]
      BY <2>3
    <3>2. range.len = u.bytes /\ range.rank = u.rank /\ range.off = w.handle.offset
      BY <3>1
    <3>3. UnitRange(range) = [offset |-> w.handle.offset, count |-> u.bytes]
      BY <3>2 DEF UnitRange
    <3> QED BY <2>9, <3>1, <3>2, <3>3
  <2> HIDE DEF range
  <2>11. /\ rec = [count |-> rec.count, generation |-> rec.generation, lastUse |-> rec.lastUse,
                  lastSeq |-> rec.lastSeq, tier |-> rec.tier, data |-> rec.data, box |-> rec.box,
                  spilled |-> rec.spilled, units |-> rec.units]
    BY <2>2 DEF RecordSound
  <2>12. new = [count |-> rec.count, generation |-> rec.generation, lastUse |-> rec.lastUse,
               lastSeq |-> rec.lastSeq, tier |-> Vram, data |-> rec.data, box |-> rec.box,
               spilled |-> rec.spilled, units |-> rec.units \cup {range}]
    <3> DEFINE more == rec.units \cup {range}
    <3>1. new = [rec EXCEPT !.units = more, !.tier = Vram]
      OBVIOUS
    <3> HIDE DEF more, new
    <3>2. new = [count |-> rec.count, generation |-> rec.generation, lastUse |-> rec.lastUse,
                 lastSeq |-> rec.lastSeq, tier |-> Vram, data |-> rec.data, box |-> rec.box,
                 spilled |-> rec.spilled, units |-> more]
      BY <2>11, <3>1
    <3> QED BY <3>2 DEF more
  <2> HIDE DEF new
  <2>13. /\ new.count = rec.count /\ new.data = rec.data /\ new.spilled = rec.spilled
         /\ new.units = rec.units \cup {range} /\ new.tier = Vram
    BY <2>12
  <2>14. FirstUnits(plan, new.units, next1)
    <3>1. PlanSound(plan, rec.count) /\ FirstUnits(plan, rec.units, next1 - 1) /\ next1 - 1 + 1 = next1
          /\ next1 - 1 + 1 <= Len(plan) /\ u = plan[next1]
      BY <2>2 DEF plan, rec, u
    <3> DEFINE k == next1 - 1
    <3>2. k + 1 = next1 /\ FirstUnits(plan, rec.units, k) /\ k + 1 <= Len(plan) /\ u = plan[k + 1]
      BY <3>1
    <3> HIDE DEF k
    <3>3. FirstUnits(plan, rec.units \cup {[rank |-> plan[k + 1].rank, off |-> w.handle.offset,
                                         len |-> plan[k + 1].bytes]}, k + 1)
      BY <2>9, <3>1, <3>2, PrefixGrows
    <3> QED BY <2>10, <2>13, <3>2, <3>3
  <2>15. RecordSound(new)
    <3>1. new = [count |-> new.count, generation |-> new.generation, lastUse |-> new.lastUse,
                lastSeq |-> new.lastSeq, tier |-> new.tier, data |-> new.data, box |-> new.box,
                spilled |-> new.spilled, units |-> new.units]
      BY <2>12
    <3>2. TierTells(new)
      <4>1. new.spilled \in BOOLEAN /\ ~new.spilled /\ new.units # {}
        <5>1. rec.spilled \in BOOLEAN
          BY <2>2 DEF RecordSound, TierTells
        <5>2. ~rec.spilled
          BY DEF rec
        <5> QED BY <2>13, <5>1, <5>2
      <4> QED BY <2>13, <4>1 DEF TierTells, Vram, Disk, Ram
    <3>3. \E k \in Nat : FirstUnits(ExecutionPlan(new.count), new.units, k)
      BY <2>13, <2>14 DEF plan
    <3>4. new.data \in Payloads /\ new.data # <<>> /\ new.count = Len(new.data)
      BY <2>4, <2>13
    <3> QED BY <3>1, <3>2, <3>3, <3>4 DEF RecordSound
  <2> DEFINE f == [t.recs EXCEPT ![off] = new]
  <2>16. up = [pool |-> w.pool, recs |-> f, rows |-> t.rows, vram |-> t.vram + u.bytes,
              fetches |-> t.fetches, grown |-> t.grown]
    BY <2>1 DEF f
  <2>17. /\ DOMAIN f = DOMAIN t.recs /\ f[off] = new
         /\ \A o \in DOMAIN t.recs : o # off => f[o] = t.recs[o]
         /\ f = [o \in DOMAIN f |-> f[o]]
    BY <1>1
  <2> HIDE DEF f
  <2>18. Cardinality(new.units) = next1
    BY <2>2, <2>14, PrefixFacts
  <2>19. \A k \in DOMAIN own : k # SlotKey(off, range)
    <3> SUFFICES ASSUME SlotKey(off, range) \in DOMAIN own PROVE FALSE
      OBVIOUS
    <3>1. SlotKey(off, range)[1] = "slot" /\ SlotKey(off, range)[3] = range
      BY DEF SlotKey
    <3>2. own[SlotKey(off, range)] = UnitRange(range)
      BY <2>7, <3>1 DEF Owned
    <3> QED BY <2>9, <2>10, <3>2
  <2> DEFINE key == SlotKey(off, range)
             all == Remembered(own, key, w.handle)
             told == Remembered(said, key, data)
  <2>20. IsPool(w.pool) /\ Shares(w.pool, all) /\ Says(w.pool, all, told)
    <3>1. key \notin DOMAIN own
      BY <2>19
    <3> HIDE DEF key
    <3> QED BY <2>5, <2>6, <2>8, <3>1, WriteGives DEF w
  <2>21. /\ DOMAIN all = DOMAIN own \cup {key} /\ all[key] = w.handle /\ told[key] = data
         /\ \A k \in DOMAIN own : k # key /\ all[k] = own[k]
                                  /\ (k \in DOMAIN said => told[k] = said[k])
    BY <2>19 DEF Remembered
  <2> HIDE DEF all, told
  <2>22. /\ \A k \in DOMAIN all : /\ k[1] \in {"owner", "slot"}
                                  /\ k[1] = "slot" => all[k] = UnitRange(k[3]) /\ k[3].len > 0
    <3>1. key[1] = "slot" /\ key[3] = range /\ range.len > 0
      BY <2>3, <2>10 DEF SlotKey
    <3>2. \A k \in DOMAIN own : /\ k[1] \in {"owner", "slot"}
                                /\ k[1] = "slot" => own[k] = UnitRange(k[3]) /\ k[3].len > 0
      BY <2>7 DEF Owned
    <3> HIDE DEF key
    <3> QED BY <2>10, <2>21, <3>1, <3>2
  <2>23. \A e \in PoolOwners : /\ OwnerKey(e) \in DOMAIN all /\ all[OwnerKey(e)] = hs[e]
                               /\ hs[e].count > 0 => told[OwnerKey(e)] = words[e]
    <3> TAKE e \in PoolOwners
    <3>1. /\ OwnerKey(e) \in DOMAIN own /\ own[OwnerKey(e)] = hs[e]
          /\ hs[e].count > 0 => said[OwnerKey(e)] = words[e]
      BY <2>7 DEF Owned
    <3>2. hs[e].count > 0 => OwnerKey(e) \in DOMAIN said
      BY <2>8, <3>1 DEF Says
    <3> QED BY <2>21, <3>1, <3>2
  <2>24. ASSUME NEW o \in DOMAIN t.recs, NEW x \in t.recs[o].units
         PROVE  /\ SlotKey(o, x) \in DOMAIN all /\ SlotKey(o, x) \in DOMAIN own
                /\ told[SlotKey(o, x)] = UnitData(t.recs[o], x)
    <3>1. SlotKey(o, x) \in DOMAIN own /\ said[SlotKey(o, x)] = UnitData(t.recs[o], x)
      BY <2>7 DEF Owned
    <3>2. SlotKey(o, x) \in DOMAIN said
      <4>1. SlotKey(o, x)[1] = "slot" /\ SlotKey(o, x)[3] = x
        BY DEF SlotKey
      <4>2. own[SlotKey(o, x)] = UnitRange(x) /\ x.len > 0
        BY <2>7, <3>1, <4>1 DEF Owned
      <4>3. own[SlotKey(o, x)].count > 0
        BY <4>2 DEF UnitRange
      <4> QED BY <2>8, <3>1, <4>3 DEF Says
    <3> QED BY <2>21, <3>1, <3>2
  <2>25. \A o \in DOMAIN f : \A x \in f[o].units :
           SlotKey(o, x) \in DOMAIN all /\ told[SlotKey(o, x)] = UnitData(f[o], x)
    <3> SUFFICES ASSUME NEW o \in DOMAIN t.recs, NEW x \in f[o].units
                 PROVE  SlotKey(o, x) \in DOMAIN all /\ told[SlotKey(o, x)] = UnitData(f[o], x)
      BY <2>17
    <3>1. CASE o # off
      <4>1. f[o] = t.recs[o]
        BY <2>17, <3>1
      <4> QED BY <2>24, <4>1
    <3>2. CASE o = off /\ x # range
      <4>1. f[o] = new /\ x \in t.recs[off].units
        BY <2>13, <2>17, <3>2 DEF rec
      <4>2. UnitData(new, x) = UnitData(t.recs[off], x)
        BY <2>13 DEF UnitData, rec
      <4> QED BY <2>24, <3>2, <4>1, <4>2
    <3>3. CASE o = off /\ x = range
      <4>1. f[o] = new
        BY <2>17, <3>3
      <4>2. ExecutionPlan(new.count) = plan
        BY <2>13 DEF plan
      <4>3. UnitData(new, range) = SubSeq(new.data, plan[next1].off + 1, plan[next1].off + plan[next1].bytes)
        <5>1. next1 \in 1 .. Len(ExecutionPlan(new.count)) /\ range.rank = ExecutionPlan(new.count)[next1].rank
          BY <2>10, <4>2 DEF plan, rec, u
        <5> HIDE DEF plan
        <5> QED BY <2>15, <4>2, <5>1, UnitDataIs
      <4>4. UnitData(new, range) = data
        BY <2>13, <4>3 DEF data, u
      <4> QED BY <2>21, <3>3, <4>1, <4>4
    <3> QED BY <3>1, <3>2, <3>3
  <2>26. Owned(w.pool, f, hs, words, all, told)
    BY <2>20, <2>22, <2>23, <2>25 DEF Owned
  <2>27. VramCovers(up)
    <3> DEFINE x == <<"slot", off, range>>
    <3>1. x \notin Residents(t)
      <4> SUFFICES ASSUME x \in Residents(t) PROVE FALSE
        OBVIOUS
      <4>1. CASE x \in ResidentsOf("slot", t.recs)
        <5>1. PICK o \in DOMAIN t.recs : \E y \in t.recs[o].units : x = <<"slot", o, y>>
          BY <4>1, ResidentIs
        <5>2. o = off /\ range \in t.recs[off].units
          BY <5>1
        <5> QED BY <2>19, <2>24, <5>2
      <4>2. CASE x \in ResidentsOf("row", t.rows)
        <5>1. PICK o \in DOMAIN t.rows : \E y \in t.rows[o].units : x = <<"row", o, y>>
          BY <4>2, ResidentIs
        <5> QED BY <5>1
      <4> QED BY <4>1, <4>2 DEF Residents
    <3>2. ResidentsOf("slot", f) = ResidentsOf("slot", t.recs) \cup {x}
      <4>1. \A y : y \in ResidentsOf("slot", f) <=> y \in ResidentsOf("slot", t.recs) \/ y = x
        <5> TAKE y
        <5>1. y \in ResidentsOf("slot", f) <=> \E o \in DOMAIN t.recs : \E v \in f[o].units : y = <<"slot", o, v>>
          BY <2>17, ResidentIs
        <5>2. y \in ResidentsOf("slot", t.recs) <=> \E o \in DOMAIN t.recs : \E v \in t.recs[o].units : y = <<"slot", o, v>>
          BY ResidentIs
        <5>3. f[off].units = t.recs[off].units \cup {range}
          BY <2>13, <2>17 DEF rec
        <5> QED BY <2>17, <5>1, <5>2, <5>3
      <4> QED BY <4>1
    <3>3. Residents(up) = Residents(t) \cup {x} /\ up.vram = t.vram + u.bytes
      BY <2>16, <3>2 DEF Residents
    <3>4. x[3].len = u.bytes
      BY <2>10
    <3> HIDE DEF x
    <3>5. VramBytes(Residents(t) \cup {x}) = VramBytes(Residents(t)) + u.bytes
          /\ VramBytes(Residents(t)) \in Nat
      BY <2>3, <3>1, <3>4, ResidentsTyped, BytesOfMore
    <3>6. t.vram \in Nat /\ VramBytes(Residents(t)) <= t.vram /\ VramBudget \in Nat
      BY TierAssumption DEF Sound, VramCovers
    <3>7. t.vram + u.bytes <= VramBudget
      BY DEF u, plan, rec
    <3> QED BY <2>3, <3>3, <3>5, <3>6, <3>7 DEF VramCovers
  <2>28. Sound(up, hs, words)
    <3>1. up.pool = w.pool /\ up.recs = f /\ up.rows = t.rows
      BY <2>16
    <3>2. up = [pool |-> up.pool, recs |-> up.recs, rows |-> up.rows, vram |-> up.vram,
               fetches |-> up.fetches, grown |-> up.grown]
      BY <2>16
    <3>3. IsFiniteSet(DOMAIN up.recs) /\ up.recs = [o \in DOMAIN up.recs |-> up.recs[o]]
      BY <1>1, <2>17, <3>1
    <3>4. \A o \in DOMAIN up.recs : RecordSound(up.recs[o])
      BY <2>15, <2>17, <3>1 DEF Sound
    <3>5. up.rows = [r \in Rows |-> up.rows[r]] /\ \A r \in Rows : RowSound(up.rows[r])
      BY <3>1 DEF Sound
    <3>6. \E o1, s1 : Owned(up.pool, up.recs, hs, words, o1, s1)
      BY <2>26, <3>1
    <3> QED BY <2>27, <3>2, <3>3, <3>4, <3>5, <3>6, Zenon DEF Sound
  <2>29. SameBut(t, up, off) /\ Cardinality(up.recs[off].units) = next1
    BY <2>13, <2>16, <2>17, <2>18 DEF SameBut, rec
  <2> QED BY <2>28, <2>29 DEF up, plan, rec, u
<1> QED
  BY <1>2, <1>3

\* Whole places are given up, the target's own never.
LEMMA MakeRoomKeeps ==
  ASSUME NEW t, NEW hs, NEW words, Sound(t, hs, words), NEW needed, NEW target,
         target.class = "slot", target.at \in DOMAIN t.recs
  PROVE  LET roomy == MakeRoom(t, needed, target)
         IN /\ Sound(roomy, hs, words) /\ SameBut(t, roomy, target.at)
            /\ roomy.recs[target.at].units = t.recs[target.at].units
<1> DEFINE off == target.at
           places == Evicted(t, needed, target)
           S == ResidentsAt(t, places)
           roomy == MakeRoom(t, needed, target)
<1>1. CASE t.vram + needed <= VramBudget
  <2>1. roomy = t
    BY <1>1 DEF MakeRoom
  <2> QED BY <2>1 DEF SameBut
<1>2. CASE ~(t.vram + needed <= VramBudget)
  <2>1. roomy = Withdraw(t, S)
    BY <1>2 DEF MakeRoom, EvacuateLru
  <2>2. <<"slot", off>> \notin places
    <3>1. ShardOf(target) = <<"slot", off>>
      BY DEF ShardOf
    <3> QED BY <3>1 DEF Evicted, Candidates
  <2> HIDE DEF places, roomy
  <2>3. S \in SUBSET Residents(t) /\ \A x : x \in S <=> x \in Residents(t) /\ <<x[1], x[2]>> \in places
    BY DEF ResidentsAt
  <2> HIDE DEF S
  <2>4. ASSUME NEW o PROVE \A u : u \in UnitsIn(S, "slot", o) <=> <<"slot", o>> \in places
                                    /\ \E x \in Residents(t) : x[1] = "slot" /\ x[2] = o /\ x[3] = u
    BY <2>3 DEF UnitsIn
  <2>5. \A o \in DOMAIN t.recs : \A w \in t.recs[o].units :
          \E x \in Residents(t) : x[1] = "slot" /\ x[2] = o /\ x[3] = w
    <3> TAKE o \in DOMAIN t.recs
    <3> TAKE w \in t.recs[o].units
    <3>1. <<"slot", o, w>> \in Residents(t)
      BY ResidentIs DEF Residents
    <3> QED BY <3>1
  <2>6. \A o \in DOMAIN t.recs : \A u \in UnitsIn(S, "slot", o), w \in t.recs[o].units :
          w.rank > u.rank => w \in UnitsIn(S, "slot", o)
    BY <2>4, <2>5
  <2>7. UnitsIn(S, "slot", off) = {}
    BY <2>2, <2>4
  <2>8. /\ Sound(roomy, hs, words) /\ DOMAIN roomy.recs = DOMAIN t.recs
        /\ \A o \in DOMAIN t.recs : /\ roomy.recs[o].units = t.recs[o].units \ UnitsIn(S, "slot", o)
                                    /\ roomy.recs[o].count = t.recs[o].count
                                    /\ roomy.recs[o].data = t.recs[o].data
                                    /\ roomy.recs[o].spilled = t.recs[o].spilled
    BY <2>1, <2>3, <2>6, WithdrawKeeps
  <2>9. roomy.recs[off].units = t.recs[off].units
    BY <2>7, <2>8
  <2> QED BY <2>8, <2>9 DEF roomy, SameBut
<1> QED
  BY <1>1, <1>2

\* A flight: the units of its target are the first i of the plan until one is
\* declined.
Flown(flight, hs, words, from, off, i) ==
  /\ Sound(flight.t, hs, words) /\ SameBut(from, flight.t, off)
  /\ flight.declined \/ Cardinality(flight.t.recs[off].units) = i

\* One more unit of a flight is admitted or declined.
LEMMA AdmittedKeeps ==
  ASSUME NEW flight, NEW hs, NEW words, NEW from, NEW off \in DOMAIN from.recs, ~from.recs[off].spilled,
         NEW i \in 1 .. Len(ExecutionPlan(from.recs[off].count)),
         Flown(flight, hs, words, from, off, i - 1),
         NEW target, target.class = "slot", target.at = off
  PROVE  Flown(Admitted(flight, off, ExecutionPlan(from.recs[off].count)[i], target),
               hs, words, from, off, i)
<1> DEFINE u == ExecutionPlan(from.recs[off].count)[i]
           t == flight.t
           roomy == MakeRoom(t, u.bytes, target)
           up == AdmitUnit(roomy, off, u)
           done == Admitted(flight, off, u, target)
<1>1. CASE flight.declined
  <2>1. done = flight
    BY <1>1 DEF Admitted
  <2> QED BY <1>1, <2>1 DEF Flown
<1>2. CASE ~flight.declined
  <2>1. /\ Sound(t, hs, words) /\ SameBut(from, t, off) /\ Cardinality(t.recs[off].units) = i - 1
    BY <1>2 DEF Flown
  <2>2. off \in DOMAIN t.recs /\ t.recs[off].count = from.recs[off].count
    BY <2>1 DEF SameBut
  <2>3. /\ Sound(roomy, hs, words) /\ SameBut(t, roomy, off)
        /\ roomy.recs[off].units = t.recs[off].units
    <3> HIDE DEF t, u
    <3> QED BY <2>1, <2>2, MakeRoomKeeps
  <2>4. SameBut(from, roomy, off)
    BY <2>1, <2>3 DEF SameBut
  <2>5. CASE ~Admissible(t, roomy, u.bytes)
    <3>1. done = [t |-> roomy, declined |-> TRUE]
      BY <1>2, <2>5 DEF Admitted
    <3> HIDE DEF done, roomy
    <3>2. done.t = roomy /\ done.declined
      BY <3>1
    <3> QED BY <2>3, <2>4, <3>2 DEF Flown, done
  <2>6. CASE Admissible(t, roomy, u.bytes)
    <3>1. done = [t |-> up, declined |-> ~up.grown]
      BY <1>2, <2>6 DEF Admitted
    <3>2. roomy.vram + u.bytes <= VramBudget
      <4>1. CASE t.vram + u.bytes <= VramBudget
        BY <4>1 DEF MakeRoom
      <4>2. CASE ~(t.vram + u.bytes <= VramBudget)
        BY <2>6, <4>2 DEF Admissible
      <4> QED BY <4>1, <4>2
    <3> HIDE DEF done, roomy
    <3>3. /\ off \in DOMAIN roomy.recs /\ ~roomy.recs[off].spilled
          /\ roomy.recs[off].count = from.recs[off].count
          /\ Cardinality(roomy.recs[off].units) = i - 1
      BY <2>1, <2>3, <2>4 DEF SameBut
    <3>4. /\ Sound(up, hs, words) /\ SameBut(roomy, up, off)
          /\ up.grown => Cardinality(up.recs[off].units) = i
      <4>1. u = ExecutionPlan(roomy.recs[off].count)[i] /\ i \in 1 .. Len(ExecutionPlan(roomy.recs[off].count))
        BY <3>3
      <4> HIDE DEF u
      <4>2. roomy.vram + ExecutionPlan(roomy.recs[off].count)[i].bytes <= VramBudget
        BY <3>2, <4>1
      <4> QED BY <2>3, <3>3, <4>1, <4>2, AdmitKeeps
    <3> HIDE DEF up
    <3>5. SameBut(from, up, off)
      BY <2>4, <3>4 DEF SameBut
    <3>6. done.t = up /\ (~up.grown => done.declined)
      BY <3>1
    <3>7. up.grown \/ ~up.grown
      OBVIOUS
    <3> QED BY <3>4, <3>5, <3>6, <3>7 DEF Flown, done
  <2> QED BY <2>5, <2>6
<1> QED
  BY <1>1, <1>2

\* A span asks for no more units than the plan has.
LEMMA AskedFits ==
  ASSUME NEW plan, NEW n, PlanSound(plan, n), NEW through
  PROVE  Asked(plan, through) \in 0 .. Len(plan)
<1> DEFINE S == {i \in DOMAIN plan : plan[i].rank <= through}
<1>1. S \in SUBSET (1 .. Len(plan)) /\ Len(plan) \in Nat
  BY DEF PlanSound
<1>2. IsFiniteSet(1 .. Len(plan)) /\ Cardinality(1 .. Len(plan)) = Len(plan)
  <2> DEFINE a == 1
             b == Len(plan)
  <2>1. a \in Int /\ b \in Int /\ a = 1 /\ b \in Nat
    BY <1>1
  <2> HIDE DEF a, b
  <2>2. IsFiniteSet(a .. b) /\ Cardinality(a .. b) = IF a > b THEN 0 ELSE b - a + 1
    BY <2>1, FS_Interval
  <2>3. Cardinality(a .. b) = b
    BY <2>1, <2>2
  <2> QED BY <2>2, <2>3 DEF a, b
<1> HIDE DEF S
<1>3. Cardinality(S) \in Nat /\ Cardinality(S) <= Len(plan)
  BY <1>1, <1>2, FS_Subset, FS_CardinalityType
<1> QED
  BY <1>1, <1>3 DEF Asked, S

\* One record restated: the same units of the same payload.
LEMMA RecordRestated ==
  ASSUME NEW t, NEW hs, NEW words, Sound(t, hs, words), NEW off \in DOMAIN t.recs,
         NEW new, RecordSound(new), new.units = t.recs[off].units,
         new.count = t.recs[off].count, new.data = t.recs[off].data,
         NEW after,
         after = [pool |-> t.pool, recs |-> [t.recs EXCEPT ![off] = new], rows |-> t.rows,
                  vram |-> t.vram, fetches |-> after.fetches, grown |-> after.grown]
  PROVE  /\ Sound(after, hs, words) /\ DOMAIN after.recs = DOMAIN t.recs
         /\ after.recs[off] = new /\ after.rows = t.rows /\ after.vram = t.vram
<1> DEFINE f == [t.recs EXCEPT ![off] = new]
<1>1. DOMAIN f = DOMAIN t.recs /\ f[off] = new /\ \A o \in DOMAIN t.recs : o # off => f[o] = t.recs[o]
  BY DEF Sound
<1>2. f = [o \in DOMAIN t.recs |-> f[o]]
  OBVIOUS
<1>3. after.recs = f /\ after.rows = t.rows /\ after.vram = t.vram /\ after.pool = t.pool
  OBVIOUS
<1>4. after = [pool |-> t.pool, recs |-> after.recs, rows |-> after.rows, vram |-> t.vram,
               fetches |-> after.fetches, grown |-> after.grown]
  BY <1>3
<1> HIDE DEF f
<1>5. \A o \in DOMAIN t.recs : /\ RecordSound(after.recs[o])
                               /\ after.recs[o].units = t.recs[o].units
                               /\ after.recs[o].count = t.recs[o].count
                               /\ after.recs[o].data = t.recs[o].data
  BY <1>1, <1>3 DEF Sound
<1>6. after.rows = [r \in Rows |-> after.rows[r]]
      /\ \A r \in Rows : RowSound(after.rows[r]) /\ after.rows[r].units = t.rows[r].units
  BY <1>3 DEF Sound
<1>7. after.recs = [o \in DOMAIN t.recs |-> after.recs[o]]
  BY <1>2, <1>3
<1>8. Sound(after, hs, words)
  BY <1>4, <1>5, <1>6, <1>7, SoundFrame
<1> QED
  BY <1>1, <1>3, <1>8

\* One row restated, and what fetches became.
LEMMA RowRestated ==
  ASSUME NEW t, NEW hs, NEW words, Sound(t, hs, words), NEW r \in Rows,
         NEW new, RowSound(new), new.units = t.rows[r].units, NEW after,
         after = [pool |-> t.pool, recs |-> t.recs, rows |-> [t.rows EXCEPT ![r] = new],
                  vram |-> t.vram, fetches |-> after.fetches, grown |-> after.grown]
  PROVE  Sound(after, hs, words) /\ after.rows[r] = new /\ after.vram = t.vram
<1> DEFINE g == [t.rows EXCEPT ![r] = new]
<1>1. DOMAIN g = Rows /\ g[r] = new /\ \A q \in Rows : q # r => g[q] = t.rows[q]
  BY DEF Sound
<1>2. g = [q \in Rows |-> g[q]]
  BY <1>1
<1>3. after.recs = t.recs /\ after.rows = g /\ after.vram = t.vram /\ after.pool = t.pool
  OBVIOUS
<1>4. after = [pool |-> t.pool, recs |-> after.recs, rows |-> after.rows, vram |-> t.vram,
               fetches |-> after.fetches, grown |-> after.grown]
  BY <1>3
<1> HIDE DEF g
<1>5. /\ after.recs = [o \in DOMAIN t.recs |-> after.recs[o]]
      /\ \A o \in DOMAIN t.recs : /\ RecordSound(after.recs[o])
                                  /\ after.recs[o].units = t.recs[o].units
                                  /\ after.recs[o].count = t.recs[o].count
                                  /\ after.recs[o].data = t.recs[o].data
  BY <1>3 DEF Sound
<1>6. \A q \in Rows : RowSound(after.rows[q]) /\ after.rows[q].units = t.rows[q].units
  BY <1>1, <1>3 DEF Sound
<1>7. after.rows = [q \in Rows |-> after.rows[q]]
  BY <1>2, <1>3
<1>8. Sound(after, hs, words)
  BY <1>4, <1>5, <1>6, <1>7, SoundFrame
<1> QED
  BY <1>1, <1>3, <1>8

\* A record of the same units of the same payload.
LEMMA RecordFields ==
  ASSUME NEW rec, RecordSound(rec), NEW new,
         new = [count |-> new.count, generation |-> new.generation, lastUse |-> new.lastUse,
                lastSeq |-> new.lastSeq, tier |-> new.tier, data |-> new.data, box |-> new.box,
                spilled |-> new.spilled, units |-> new.units],
         new.count = rec.count, new.data = rec.data, new.units = rec.units, TierTells(new)
  PROVE  RecordSound(new)
<1>1. /\ new.data \in Payloads /\ new.data # <<>> /\ new.count = Len(new.data)
      /\ \E k \in Nat : FirstUnits(ExecutionPlan(new.count), new.units, k)
  BY DEF RecordSound
<1> QED
  BY <1>1 DEF RecordSound

\* An import moves no unit.
LEMMA UnspillKeeps ==
  ASSUME NEW t, NEW hs, NEW words, Sound(t, hs, words), NEW off \in DOMAIN t.recs
  PROVE  LET from == UnspillSlot(t, off)
         IN /\ Sound(from, hs, words) /\ DOMAIN from.recs = DOMAIN t.recs
            /\ ~from.recs[off].spilled
            /\ from.recs[off].units = t.recs[off].units
<1> DEFINE rec == t.recs[off]
           from == UnspillSlot(t, off)
           new == [rec EXCEPT !.spilled = FALSE, !.tier = Ram]
<1>1. CASE ~rec.spilled
  <2>1. from = t
    BY <1>1 DEF UnspillSlot
  <2> QED BY <1>1, <2>1
<1>2. CASE rec.spilled
  <2>1. from = [t EXCEPT !.recs[off] = new]
    BY <1>2 DEF UnspillSlot
  <2> HIDE DEF from
  <2>2. t = [pool |-> t.pool, recs |-> t.recs, rows |-> t.rows, vram |-> t.vram,
            fetches |-> t.fetches, grown |-> t.grown] /\ RecordSound(rec)
    BY DEF Sound
  <2>3. rec = [count |-> rec.count, generation |-> rec.generation, lastUse |-> rec.lastUse,
              lastSeq |-> rec.lastSeq, tier |-> rec.tier, data |-> rec.data, box |-> rec.box,
              spilled |-> rec.spilled, units |-> rec.units]
    BY <2>2 DEF RecordSound
  <2> HIDE DEF rec
  <2> DEFINE no == FALSE
  <2>4. new = [rec EXCEPT !.spilled = no, !.tier = Ram] /\ ~no
    OBVIOUS
  <2> HIDE DEF new, no
  <2>41. new = [count |-> rec.count, generation |-> rec.generation, lastUse |-> rec.lastUse,
               lastSeq |-> rec.lastSeq, tier |-> Ram, data |-> rec.data, box |-> rec.box,
               spilled |-> no, units |-> rec.units]
    BY <2>3, <2>4
  <2>5. rec.units = {}
    BY <1>2, <2>2 DEF RecordSound, TierTells, Disk, Vram
  <2>6. RecordSound(new)
    <3>1. /\ new = [count |-> new.count, generation |-> new.generation, lastUse |-> new.lastUse,
                   lastSeq |-> new.lastSeq, tier |-> new.tier, data |-> new.data, box |-> new.box,
                   spilled |-> new.spilled, units |-> new.units]
          /\ new.count = rec.count /\ new.data = rec.data /\ new.units = rec.units
          /\ new.tier = Ram /\ new.spilled = no
      BY <2>41
    <3>2. TierTells(new)
      <4>1. new.spilled \in BOOLEAN /\ ~new.spilled
        BY <3>1 DEF no
      <4>2. new.tier # Disk /\ new.tier # Vram /\ new.tier \in {Disk, Ram, Vram} /\ new.units = {}
        BY <2>5, <3>1 DEF Disk, Ram, Vram
      <4> QED BY <4>1, <4>2 DEF TierTells
    <3> QED BY <2>2, <3>1, <3>2, RecordFields
  <2>7. new.units = rec.units /\ new.count = rec.count /\ new.data = rec.data /\ ~new.spilled
    BY <2>4, <2>41
  <2>8. from = [pool |-> t.pool, recs |-> [t.recs EXCEPT ![off] = new], rows |-> t.rows,
               vram |-> t.vram, fetches |-> from.fetches, grown |-> from.grown]
    BY <2>1, <2>2
  <2>9. Sound(from, hs, words) /\ DOMAIN from.recs = DOMAIN t.recs /\ from.recs[off] = new
    BY <2>6, <2>7, <2>8, RecordRestated DEF rec
  <2> QED BY <2>7, <2>9 DEF rec, from
<1> QED
  BY <1>1, <1>2

\* A slot that is not in VRAM can go to disk.
LEMMA SpillKeeps ==
  ASSUME NEW t, NEW hs, NEW words, Sound(t, hs, words), NEW off \in DOMAIN t.recs,
         t.recs[off].tier # Vram
  PROVE  Sound(SpillSlot(t, off), hs, words)
<1> DEFINE rec == t.recs[off]
           down == SpillSlot(t, off)
           new == [rec EXCEPT !.spilled = TRUE, !.tier = Disk, !.generation = @ + 1]
<1>1. CASE rec.spilled
  BY <1>1 DEF SpillSlot
<1>2. CASE ~rec.spilled
  <2>1. down = [t EXCEPT !.recs[off] = new]
    BY <1>2 DEF SpillSlot
  <2> HIDE DEF down
  <2>2. t = [pool |-> t.pool, recs |-> t.recs, rows |-> t.rows, vram |-> t.vram,
            fetches |-> t.fetches, grown |-> t.grown] /\ RecordSound(rec)
    BY DEF Sound
  <2>3. rec = [count |-> rec.count, generation |-> rec.generation, lastUse |-> rec.lastUse,
              lastSeq |-> rec.lastSeq, tier |-> rec.tier, data |-> rec.data, box |-> rec.box,
              spilled |-> rec.spilled, units |-> rec.units]
    BY <2>2 DEF RecordSound
  <2>4. rec.units = {}
    BY <2>2 DEF RecordSound, TierTells
  <2> HIDE DEF rec
  <2> DEFINE yes == TRUE
             generation == rec.generation + 1
  <2>5. new = [rec EXCEPT !.spilled = yes, !.tier = Disk, !.generation = generation] /\ yes
    OBVIOUS
  <2> HIDE DEF new, yes, generation
  <2>51. new = [count |-> rec.count, generation |-> generation, lastUse |-> rec.lastUse,
               lastSeq |-> rec.lastSeq, tier |-> Disk, data |-> rec.data, box |-> rec.box,
               spilled |-> yes, units |-> rec.units]
    BY <2>3, <2>5
  <2>6. RecordSound(new)
    <3>1. /\ new = [count |-> new.count, generation |-> new.generation, lastUse |-> new.lastUse,
                   lastSeq |-> new.lastSeq, tier |-> new.tier, data |-> new.data, box |-> new.box,
                   spilled |-> new.spilled, units |-> new.units]
          /\ new.count = rec.count /\ new.data = rec.data /\ new.units = rec.units
          /\ new.tier = Disk /\ new.spilled = yes
      BY <2>51
    <3>2. TierTells(new)
      <4>1. new.spilled \in BOOLEAN /\ new.spilled
        BY <3>1 DEF yes
      <4>2. new.tier = Disk /\ new.tier # Vram /\ new.tier \in {Disk, Ram, Vram} /\ new.units = {}
        BY <2>4, <3>1 DEF Disk, Ram, Vram
      <4> QED BY <4>1, <4>2 DEF TierTells
    <3> QED BY <2>2, <3>1, <3>2, RecordFields
  <2>7. new.units = rec.units /\ new.count = rec.count /\ new.data = rec.data
    BY <2>51
  <2>8. down = [pool |-> t.pool, recs |-> [t.recs EXCEPT ![off] = new], rows |-> t.rows,
             vram |-> t.vram, fetches |-> down.fetches, grown |-> down.grown]
    BY <2>1, <2>2
  <2>9. new.units = t.recs[off].units /\ new.count = t.recs[off].count /\ new.data = t.recs[off].data
    BY <2>7 DEF rec
  <2>10. /\ Sound(down, hs, words) /\ DOMAIN down.recs = DOMAIN t.recs
         /\ down.recs[off] = new /\ down.rows = t.rows /\ down.vram = t.vram
    BY <2>6, <2>8, <2>9, RecordRestated
  <2> QED BY <2>10 DEF down
<1> QED
  BY <1>1, <1>2

\* A flight is made unit by unit.
ByUnits(t, off, through, target) ==
  LET from == UnspillSlot(t, off)
      plan == ExecutionPlan(from.recs[off].count)
      low == Cardinality(from.recs[off].units)
      high == Asked(plan, through)
  IN low \in Nat /\ high \in Nat /\ low < high =>
       \E f : /\ f[low] = [t |-> from, declined |-> FALSE]
              /\ \A i \in low + 1 .. high : f[i] = Admitted(f[i - 1], off, plan[i], target)
              /\ FlightPromote(t, off, through, target) = f[high].t

\* What a flight is, from the units already resident to those asked for.
LEMMA FlightIs ==
  ASSUME NEW t, NEW off, NEW through, NEW target
  PROVE  ByUnits(t, off, through, target)
<1> DEFINE from == UnspillSlot(t, off)
           plan == ExecutionPlan(from.recs[off].count)
           low == Cardinality(from.recs[off].units)
           high == Asked(plan, through)
           start == [t |-> from, declined |-> FALSE]
           Is(f, m) == f = [i \in low .. m |-> IF i = low THEN start
                                               ELSE Admitted(f[i - 1], off, plan[i], target)]
           after == CHOOSE f : Is(f, high)
<1> SUFFICES ASSUME low \in Nat, high \in Nat, low < high
             PROVE  \E f : /\ f[low] = start
                           /\ \A i \in low + 1 .. high : f[i] = Admitted(f[i - 1], off, plan[i], target)
                           /\ FlightPromote(t, off, through, target) = f[high].t
  BY DEF ByUnits
<1>0. FlightPromote(t, off, through, target) = after[high].t
  <2>1. ~(high <= low)
    <3> HIDE DEF high, low
    <3> QED OBVIOUS
  <2> QED BY <2>1 DEF FlightPromote
<1> HIDE DEF start, from, plan, low, high
<1>1. \E f : Is(f, high)
  <2> DEFINE bad == {m \in low .. high : ~ \E f : Is(f, m)}
  <2>1. SUFFICES ASSUME bad # {} PROVE FALSE
    <3>1. high \in low .. high
      OBVIOUS
    <3> QED BY <3>1
  <2>2. PICK m \in bad : \A k \in bad : m <= k
    <3>1. bad \in SUBSET Nat
      OBVIOUS
    <3> HIDE DEF bad
    <3> QED BY <2>1, <3>1, LeastIsIn
  <2>3. m \in low .. high /\ ~ \E f : Is(f, m)
    OBVIOUS
  <2>4. m # low
    <3>1. Is([i \in low .. low |-> start], low)
      OBVIOUS
    <3> QED BY <3>1, <2>3
  <2>5. m - 1 \in low .. high /\ ~(m <= m - 1)
    BY <2>3, <2>4
  <2>6. m - 1 \notin bad
    BY <2>2, <2>5
  <2>7. PICK g : Is(g, m - 1)
    BY <2>5, <2>6
  <2> HIDE DEF bad
  <2> DEFINE f == [i \in low .. m |-> IF i <= m - 1 THEN g[i]
                                      ELSE Admitted(g[m - 1], off, plan[m], target)]
  <2>8. \A i \in low .. m : f[i] = IF i = low THEN start ELSE Admitted(f[i - 1], off, plan[i], target)
    <3> TAKE i \in low .. m
    <3>0. m \in Int /\ i \in Int /\ m > low
      BY <2>3, <2>4
    <3>1. CASE i = low
      BY <3>0, <3>1, <2>7
    <3>2. CASE i # low /\ i <= m - 1
      BY <3>0, <3>2, <2>7
    <3>3. CASE i = m
      BY <3>0, <3>3
    <3> QED BY <3>0, <3>1, <3>2, <3>3
  <2>9. Is(f, m)
    <3> HIDE DEF f
    <3>1. f = [i \in low .. m |-> f[i]]
      BY DEF f
    <3> QED BY <2>8, <3>1
  <2> QED BY <2>3, <2>9
<1>2. Is(after, high)
  BY <1>1
<1> HIDE DEF after
<1>3. low \in low .. high /\ \A i \in low + 1 .. high : i \in low .. high /\ i # low
  OBVIOUS
<1>4. after[low] = start
  BY <1>2, <1>3
<1>5. \A i \in low + 1 .. high : after[i] = Admitted(after[i - 1], off, plan[i], target)
  BY <1>2, <1>3
<1> QED
  BY <1>0, <1>4, <1>5

\* A promotion adds the next units of the plan, whatever it evicts for them.
LEMMA FlightKeeps ==
  ASSUME NEW t, NEW hs, NEW words, Sound(t, hs, words), NEW through,
         NEW target, target.class = "slot", target.at \in DOMAIN t.recs
  PROVE  LET to == FlightPromote(t, target.at, through, target)
         IN Sound(to, hs, words) /\ DOMAIN to.recs = DOMAIN t.recs
<1> DEFINE off == target.at
           from == UnspillSlot(t, off)
           plan == ExecutionPlan(from.recs[off].count)
           low == Cardinality(from.recs[off].units)
           high == Asked(plan, through)
           to == FlightPromote(t, off, through, target)
<1>1. /\ Sound(from, hs, words) /\ DOMAIN from.recs = DOMAIN t.recs /\ ~from.recs[off].spilled
  BY UnspillKeeps
<1>2. /\ high <= low => to = from
      /\ low \in Nat /\ high \in Nat /\ low < high =>
           \E f : /\ f[low] = [t |-> from, declined |-> FALSE]
                  /\ \A i \in low + 1 .. high : f[i] = Admitted(f[i - 1], off, plan[i], target)
                  /\ to = f[high].t
  <2>1. high <= low => to = from
    BY DEF FlightPromote
  <2>2. low \in Nat /\ high \in Nat /\ low < high =>
           \E f : /\ f[low] = [t |-> from, declined |-> FALSE]
                  /\ \A i \in low + 1 .. high : f[i] = Admitted(f[i - 1], off, plan[i], target)
                  /\ to = f[high].t
    <3>1. ByUnits(t, off, through, target)
      BY FlightIs
    <3> QED BY <3>1 DEF ByUnits
  <2> QED BY <2>1, <2>2
<1> HIDE DEF from, to
<1>3. RecordSound(from.recs[off]) /\ PlanSound(plan, from.recs[off].count)
      /\ low \in 0 .. Len(plan) /\ Len(plan) \in Nat
  <2>1. RecordSound(from.recs[off])
    BY <1>1 DEF Sound
  <2>2. PlanSound(plan, from.recs[off].count) /\ FirstUnits(plan, from.recs[off].units, low)
    BY <2>1, RecordFacts
  <2> HIDE DEF plan, low
  <2> QED BY <2>1, <2>2 DEF FirstUnits, PlanSound
<1>4. high \in 0 .. Len(plan)
  BY <1>3, AskedFits
<1>5. CASE high <= low
  <2>1. to = from
    BY <1>2, <1>5
  <2> QED BY <1>1, <2>1 DEF to
<1>6. CASE low < high
  <2> HIDE DEF high, low, plan
  <2>1. low \in Nat /\ high \in Nat /\ low <= high
    BY <1>3, <1>4, <1>6
  <2>2. PICK after : /\ after[low] = [t |-> from, declined |-> FALSE]
                     /\ \A i \in low + 1 .. high : after[i] = Admitted(after[i - 1], off, plan[i], target)
                     /\ to = after[high].t
    BY <1>2, <1>6, <2>1
  <2> DEFINE good(i) == Flown(after[i], hs, words, from, off, i)
             bad == {i \in low .. high : ~good(i)}
  <2>3. good(low)
    <3>1. after[low].t = from
      BY <2>2
    <3>2. Cardinality(from.recs[off].units) = low
      BY DEF low
    <3> QED BY <1>1, <3>1, <3>2 DEF Flown, SameBut
  <2>4. ASSUME NEW i \in low + 1 .. high, good(i - 1) PROVE good(i)
    <3>1. i \in 1 .. Len(plan)
      BY <1>3, <1>4, <2>1
    <3>2. Flown(Admitted(after[i - 1], off, plan[i], target), hs, words, from, off, i)
      <4>1. off \in DOMAIN from.recs /\ ~from.recs[off].spilled /\ target.class = "slot" /\ target.at = off
        BY <1>1
      <4>2. i \in 1 .. Len(ExecutionPlan(from.recs[off].count))
        BY <3>1 DEF plan
      <4>3. Flown(after[i - 1], hs, words, from, off, i - 1)
        BY <2>4
      <4> HIDE DEF off
      <4>4. Flown(Admitted(after[i - 1], off, ExecutionPlan(from.recs[off].count)[i], target),
                  hs, words, from, off, i)
        BY <4>1, <4>2, <4>3, AdmittedKeeps
      <4> QED BY <4>4 DEF plan
    <3> QED BY <2>2, <3>2
  <2> HIDE DEF good
  <2>5. bad = {}
    <3> SUFFICES ASSUME bad # {} PROVE FALSE
      OBVIOUS
    <3>1. bad \in SUBSET Nat
      BY <2>1
    <3>2. PICK m \in bad : \A k \in bad : m <= k
      <4> HIDE DEF bad
      <4> QED BY <3>1, LeastIsIn
    <3>3. m \in low .. high /\ ~good(m)
      OBVIOUS
    <3>4. m \in low + 1 .. high
      BY <2>1, <2>3, <3>3
    <3>5. m - 1 \in low .. high /\ ~(m <= m - 1)
      BY <2>1, <3>4
    <3>6. good(m - 1)
      BY <3>2, <3>5
    <3> QED BY <2>4, <3>3, <3>4, <3>6
  <2>6. good(high)
    <3>1. high \in low .. high
      BY <2>1
    <3> QED BY <2>5, <3>1
  <2>7. to = after[high].t
    BY <2>2
  <2>8. Sound(to, hs, words) /\ DOMAIN to.recs = DOMAIN from.recs
    BY <2>6, <2>7 DEF good, Flown, SameBut
  <2> QED BY <1>1, <2>8 DEF to
<1>7. high <= low \/ low < high
  BY <1>3, <1>4
<1> QED
  BY <1>5, <1>6, <1>7

\* A slot gives up its upper units.
LEMMA WithdrawUnitsKeeps ==
  ASSUME NEW t, NEW hs, NEW words, Sound(t, hs, words), NEW off \in DOMAIN t.recs,
         NEW U \in SUBSET t.recs[off].units,
         \A u \in U, w \in t.recs[off].units : w.rank > u.rank => w \in U
  PROVE  LET to == WithdrawUnits(t, off, U)
         IN Sound(to, hs, words) /\ DOMAIN to.recs = DOMAIN t.recs
<1> DEFINE S == {<<"slot", off, u>> : u \in U}
           to == WithdrawUnits(t, off, U)
<1>1. to = Withdraw(t, S)
  BY DEF WithdrawUnits
<1>2. S \in SUBSET Residents(t)
  <2> SUFFICES ASSUME NEW u \in U PROVE <<"slot", off, u>> \in Residents(t)
    OBVIOUS
  <2>1. <<"slot", off, u>> \in ResidentsOf("slot", t.recs)
    BY ResidentIs
  <2> QED BY <2>1 DEF Residents
<1>3. \A o : \A u : u \in UnitsIn(S, "slot", o) <=> o = off /\ u \in U
  <2> TAKE o
  <2> TAKE u
  <2>1. u \in UnitsIn(S, "slot", o) <=> \E x \in S : x[1] = "slot" /\ x[2] = o /\ u = x[3]
    BY DEF UnitsIn
  <2>2. (\E x \in S : x[1] = "slot" /\ x[2] = o /\ u = x[3]) <=> o = off /\ u \in U
    <3>1. \A v : <<"slot", off, v>>[1] = "slot" /\ <<"slot", off, v>>[2] = off /\ <<"slot", off, v>>[3] = v
      OBVIOUS
    <3> QED BY <3>1
  <2> QED BY <2>1, <2>2
<1> HIDE DEF S, to
<1>4. \A o \in DOMAIN t.recs : \A u \in UnitsIn(S, "slot", o), w \in t.recs[o].units :
        w.rank > u.rank => w \in UnitsIn(S, "slot", o)
  BY <1>3
<1>5. Sound(to, hs, words) /\ DOMAIN to.recs = DOMAIN t.recs
  BY <1>1, <1>2, <1>4, WithdrawKeeps
<1> QED
  BY <1>5 DEF to

\* A row gives up its unit.
LEMMA WithdrawRowKeeps ==
  ASSUME NEW t, NEW hs, NEW words, Sound(t, hs, words), NEW r \in Rows
  PROVE  LET to == WithdrawRow(t, r)
         IN Sound(to, hs, words) /\ to.rows[r].units = {}
<1> DEFINE U == t.rows[r].units
           S == {<<"row", r, u>> : u \in U}
           to == WithdrawRow(t, r)
<1>1. to = Withdraw(t, S)
  BY DEF WithdrawRow
<1>2. S \in SUBSET Residents(t)
  <2> SUFFICES ASSUME NEW u \in U PROVE <<"row", r, u>> \in Residents(t)
    OBVIOUS
  <2>1. r \in DOMAIN t.rows
    BY DEF Sound
  <2>2. <<"row", r, u>> \in ResidentsOf("row", t.rows)
    BY <2>1, ResidentIs
  <2> QED BY <2>2 DEF Residents
<1>3. \A o : UnitsIn(S, "slot", o) = {}
  BY DEF UnitsIn
<1>4. \A u \in U : u \in UnitsIn(S, "row", r)
  <2> TAKE u \in U
  <2>1. <<"row", r, u>> \in S /\ <<"row", r, u>>[1] = "row" /\ <<"row", r, u>>[2] = r
        /\ <<"row", r, u>>[3] = u
    OBVIOUS
  <2> QED BY <2>1 DEF UnitsIn
<1> HIDE DEF S, to
<1>5. \A o \in DOMAIN t.recs : \A u \in UnitsIn(S, "slot", o), w \in t.recs[o].units :
        w.rank > u.rank => w \in UnitsIn(S, "slot", o)
  BY <1>3
<1>6. Sound(to, hs, words) /\ to.rows[r].units = U \ UnitsIn(S, "row", r)
  BY <1>1, <1>2, <1>5, WithdrawKeeps
<1>7. to.rows[r].units = {}
  BY <1>4, <1>6
<1> QED
  BY <1>6, <1>7 DEF to

\* What fetches became is nobody's concern.
LEMMA MarkReadyKeeps ==
  ASSUME NEW t, NEW hs, NEW words, Sound(t, hs, words), NEW target
  PROVE  LET to == MarkReady(t, target)
         IN /\ Sound(to, hs, words)
            /\ to.recs = t.recs /\ to.rows = t.rows /\ to.vram = t.vram
<1> DEFINE to == MarkReady(t, target)
<1>1. /\ t = [pool |-> t.pool, recs |-> t.recs, rows |-> t.rows, vram |-> t.vram,
              fetches |-> t.fetches, grown |-> t.grown]
  BY DEF Sound
<1>2. \E x : to = [t EXCEPT !.fetches = x]
  BY DEF MarkReady
<1> HIDE DEF to
<1>3. PICK x : to = [t EXCEPT !.fetches = x]
  BY <1>2
<1>4. to = [pool |-> t.pool, recs |-> t.recs, rows |-> t.rows, vram |-> t.vram,
            fetches |-> x, grown |-> t.grown]
  BY <1>1, <1>3
<1>5. to = [pool |-> t.pool, recs |-> to.recs, rows |-> to.rows, vram |-> t.vram,
            fetches |-> to.fetches, grown |-> to.grown]
      /\ to.recs = t.recs /\ to.rows = t.rows /\ to.vram = t.vram
  BY <1>4
<1>6. /\ to.recs = [o \in DOMAIN t.recs |-> to.recs[o]]
      /\ \A o \in DOMAIN t.recs : /\ RecordSound(to.recs[o])
                                  /\ to.recs[o].units = t.recs[o].units
                                  /\ to.recs[o].count = t.recs[o].count
                                  /\ to.recs[o].data = t.recs[o].data
      /\ to.rows = [r \in Rows |-> to.rows[r]]
      /\ \A r \in Rows : RowSound(to.rows[r]) /\ to.rows[r].units = t.rows[r].units
  BY <1>5 DEF Sound
<1>7. Sound(to, hs, words)
  BY <1>5, <1>6, SoundFrame
<1> QED
  BY <1>5, <1>7 DEF to

\* What a verb may ask for.
Kind(kind) ==
  /\ kind.op \in {"SetTo", "Demote", "Unspill"}
  /\ kind.tier \in {Disk, Ram, Vram} /\ kind.through \in Nat

\* A transition of a pool slot keeps what is kept.
LEMMA ExecutePoolKeeps ==
  ASSUME NEW t, NEW hs, NEW words, Sound(t, hs, words),
         NEW target, target.class = "slot", target.at \in DOMAIN t.recs, NEW kind, Kind(kind)
  PROVE  Sound(ExecutePool(t, target, kind), hs, words)
<1> DEFINE off == target.at
           to == ExecutePool(t, target, kind)
<1>1. CASE kind.op = "SetTo"
  <2> DEFINE tier == kind.tier
             through == kind.through
             once == FlightPromote(t, off, through, target)
             up == Climb(t, off, tier, through, target)
             low == Withdrawn(up, off, tier)
  <2>1. to = Spilled(low, off, tier)
    BY <1>1 DEF ExecutePool, Descend
  <2>2. Sound(up, hs, words) /\ DOMAIN up.recs = DOMAIN t.recs
    <3>1. Sound(once, hs, words) /\ DOMAIN once.recs = DOMAIN t.recs
      BY FlightKeeps
    <3> DEFINE twice == FlightPromote(once, off, through, target)
    <3>2. Sound(twice, hs, words) /\ DOMAIN twice.recs = DOMAIN t.recs
      <4> HIDE DEF once
      <4> QED BY <3>1, FlightKeeps
    <3>3. up = t \/ up = once \/ up = twice
      BY DEF Climb, AfterFlight
    <3> HIDE DEF up, once, twice
    <3> QED BY <3>1, <3>2, <3>3
  <2> HIDE DEF up
  <2>3. Sound(low, hs, words) /\ DOMAIN low.recs = DOMAIN t.recs
    <3> DEFINE U == up.recs[off].units
    <3>1. low = up \/ low = WithdrawUnits(up, off, U)
      BY DEF Withdrawn
    <3>2. /\ Sound(WithdrawUnits(up, off, U), hs, words)
          /\ DOMAIN WithdrawUnits(up, off, U).recs = DOMAIN t.recs
      <4>1. off \in DOMAIN up.recs
        BY <2>2
      <4>2. U \in SUBSET up.recs[off].units
            /\ \A u \in U, w \in up.recs[off].units : w.rank > u.rank => w \in U
        OBVIOUS
      <4> HIDE DEF U, off
      <4> QED BY <2>2, <4>1, <4>2, WithdrawUnitsKeeps
    <3> HIDE DEF low
    <3> QED BY <2>2, <3>1, <3>2
  <2> HIDE DEF low
  <2>4. CASE low.recs[off].tier = Ram /\ tier = Disk
    <3>1. to = SpillSlot(low, off)
      BY <2>1, <2>4 DEF Spilled
    <3>2. Ram # Vram
      BY DEF Ram, Vram
    <3> HIDE DEF off
    <3>3. low.recs[off].tier # Vram /\ off \in DOMAIN low.recs
      BY <2>3, <2>4, <3>2 DEF off
    <3>4. Sound(SpillSlot(low, off), hs, words)
      BY <2>3, <3>3, SpillKeeps
    <3> QED BY <3>1, <3>4
  <2>5. CASE ~(low.recs[off].tier = Ram /\ tier = Disk)
    <3>1. to = low
      BY <2>1, <2>5 DEF Spilled
    <3> QED BY <2>3, <3>1
  <2> QED BY <2>4, <2>5
<1>2. CASE kind.op = "Demote"
  <2> DEFINE U == {u \in t.recs[off].units : u.rank > kind.through}
  <2>1. to = WithdrawUnits(t, off, U)
    BY <1>2 DEF ExecutePool
  <2>2. \A u \in t.recs[off].units : u.rank \in Nat
    <3>1. RecordSound(t.recs[off])
      BY DEF Sound
    <3> QED BY <3>1, RecordFacts
  <2>3. \A u \in U, w \in t.recs[off].units : w.rank > u.rank => w \in U
    BY <2>2 DEF Kind
  <2>4. U \in SUBSET t.recs[off].units
    OBVIOUS
  <2> HIDE DEF U, to
  <2>5. Sound(WithdrawUnits(t, off, U), hs, words) /\ DOMAIN WithdrawUnits(t, off, U).recs = DOMAIN t.recs
    BY <2>3, <2>4, WithdrawUnitsKeeps
  <2> QED BY <2>1, <2>5 DEF to
<1>3. CASE kind.op = "Unspill"
  <2>1. to = MarkReady(UnspillSlot(t, off), target)
    BY <1>3 DEF ExecutePool
  <2>2. Sound(UnspillSlot(t, off), hs, words)
    BY UnspillKeeps
  <2> QED BY <2>1, <2>2, MarkReadyKeeps
<1> QED
  BY <1>1, <1>2, <1>3 DEF Kind

\* A row whose units and tier agree is sound, whatever its stamps say.
LEMMA RowFields ==
  ASSUME NEW row, RowSound(row), NEW new,
         new = [present |-> new.present, tier |-> new.tier, generation |-> new.generation,
                lastUse |-> new.lastUse, lastSeq |-> new.lastSeq, units |-> new.units,
                spilled |-> new.spilled],
         new.units \subseteq {RowUnit}, TierTells(new)
  PROVE  RowSound(new)
BY DEF RowSound

\* A row is imported.
LEMMA UnspillRowKeeps ==
  ASSUME NEW t, NEW hs, NEW words, Sound(t, hs, words),
         NEW target, target.at \in Rows
  PROVE  LET to == UnspillRow(t, target)
         IN /\ Sound(to, hs, words) /\ to.rows[target.at].units = t.rows[target.at].units
            /\ to.vram = t.vram /\ ~to.rows[target.at].spilled
<1> DEFINE r == target.at
           row == t.rows[r]
           to == UnspillRow(t, target)
           new == [row EXCEPT !.spilled = FALSE, !.tier = Ram]
           from == [t EXCEPT !.rows[r] = new]
<1>1. CASE ~row.spilled
  <2>1. to = MarkReady(t, target)
    BY <1>1 DEF UnspillRow
  <2> HIDE DEF to
  <2>2. Sound(to, hs, words) /\ to.rows = t.rows /\ to.vram = t.vram
    BY <2>1, MarkReadyKeeps
  <2> QED BY <1>1, <2>2 DEF to
<1>2. CASE row.spilled
  <2>1. to = MarkReady(from, target)
    BY <1>2 DEF UnspillRow
  <2> HIDE DEF to
  <2>2. t = [pool |-> t.pool, recs |-> t.recs, rows |-> t.rows, vram |-> t.vram,
            fetches |-> t.fetches, grown |-> t.grown] /\ RowSound(row)
    BY DEF Sound
  <2>3. row = [present |-> row.present, tier |-> row.tier, generation |-> row.generation,
              lastUse |-> row.lastUse, lastSeq |-> row.lastSeq, units |-> row.units,
              spilled |-> row.spilled]
    BY <2>2 DEF RowSound
  <2> HIDE DEF row
  <2> DEFINE no == FALSE
  <2>4. new = [row EXCEPT !.spilled = no, !.tier = Ram] /\ ~no
    OBVIOUS
  <2> HIDE DEF new, no
  <2>5. new = [present |-> row.present, tier |-> Ram, generation |-> row.generation,
              lastUse |-> row.lastUse, lastSeq |-> row.lastSeq, units |-> row.units,
              spilled |-> no]
    BY <2>3, <2>4
  <2>6. /\ new = [present |-> new.present, tier |-> new.tier, generation |-> new.generation,
                  lastUse |-> new.lastUse, lastSeq |-> new.lastSeq, units |-> new.units,
                  spilled |-> new.spilled]
        /\ new.units = row.units /\ new.tier = Ram /\ new.spilled = no
    BY <2>5
  <2>7. row.units = {} /\ row.units \subseteq {RowUnit}
    BY <1>2, <2>2 DEF RowSound, TierTells, Disk, Vram
  <2>8. new.spilled \in BOOLEAN /\ ~new.spilled
    BY <2>6 DEF no
  <2>9. TierTells(new)
    <3>1. new.tier # Disk /\ new.tier # Vram /\ new.tier \in {Disk, Ram, Vram} /\ new.units = {}
      BY <2>6, <2>7 DEF Disk, Ram, Vram
    <3> QED BY <2>8, <3>1 DEF TierTells
  <2>10. RowSound(new)
    BY <2>2, <2>6, <2>7, <2>9, RowFields
  <2>11. from = [pool |-> t.pool, recs |-> t.recs, rows |-> [t.rows EXCEPT ![r] = new],
                 vram |-> t.vram, fetches |-> from.fetches, grown |-> from.grown]
    BY <2>2
  <2> HIDE DEF from
  <2>12. new.units = t.rows[r].units
    BY <2>6 DEF row
  <2>13. Sound(from, hs, words) /\ from.rows[r] = new /\ from.vram = t.vram
    BY <2>10, <2>11, <2>12, RowRestated
  <2>14. Sound(to, hs, words) /\ to.rows = from.rows /\ to.vram = from.vram
    BY <2>1, <2>13, MarkReadyKeeps
  <2> QED BY <2>8, <2>12, <2>13, <2>14 DEF to
<1> QED
  BY <1>1, <1>2

\* A row that is not in VRAM can go to disk.
LEMMA SpillRowKeeps ==
  ASSUME NEW t, NEW hs, NEW words, Sound(t, hs, words), NEW r \in Rows, t.rows[r].tier # Vram
  PROVE  Sound(SpillRow(t, r), hs, words)
<1> DEFINE row == t.rows[r]
           to == SpillRow(t, r)
           new == [row EXCEPT !.spilled = TRUE, !.tier = Disk, !.generation = @ + 1]
<1>1. to = [t EXCEPT !.rows[r] = new]
  BY DEF SpillRow
<1> HIDE DEF to
<1>2. t = [pool |-> t.pool, recs |-> t.recs, rows |-> t.rows, vram |-> t.vram,
          fetches |-> t.fetches, grown |-> t.grown] /\ RowSound(row)
  BY DEF Sound
<1>3. row = [present |-> row.present, tier |-> row.tier, generation |-> row.generation,
            lastUse |-> row.lastUse, lastSeq |-> row.lastSeq, units |-> row.units,
            spilled |-> row.spilled]
  BY <1>2 DEF RowSound
<1>4. row.units = {}
  BY <1>2 DEF RowSound, TierTells
<1> HIDE DEF row
<1> DEFINE yes == TRUE
           generation == row.generation + 1
<1>5. new = [row EXCEPT !.spilled = yes, !.tier = Disk, !.generation = generation] /\ yes
  OBVIOUS
<1> HIDE DEF new, yes, generation
<1>6. new = [present |-> row.present, tier |-> Disk, generation |-> generation,
            lastUse |-> row.lastUse, lastSeq |-> row.lastSeq, units |-> row.units,
            spilled |-> yes]
  BY <1>3, <1>5
<1>7. /\ new = [present |-> new.present, tier |-> new.tier, generation |-> new.generation,
                lastUse |-> new.lastUse, lastSeq |-> new.lastSeq, units |-> new.units,
                spilled |-> new.spilled]
      /\ new.units = row.units /\ new.tier = Disk /\ new.spilled = yes
  BY <1>6
<1>8. TierTells(new)
  <2>1. new.spilled \in BOOLEAN /\ new.spilled
    BY <1>7 DEF yes
  <2>2. new.tier = Disk /\ new.tier # Vram /\ new.tier \in {Disk, Ram, Vram} /\ new.units = {}
    BY <1>4, <1>7 DEF Disk, Ram, Vram
  <2> QED BY <2>1, <2>2 DEF TierTells
<1>9. RowSound(new)
  <2>1. new.units \subseteq {RowUnit}
    BY <1>4, <1>7
  <2> QED BY <1>2, <1>7, <1>8, <2>1, RowFields
<1>10. to = [pool |-> t.pool, recs |-> t.recs, rows |-> [t.rows EXCEPT ![r] = new],
             vram |-> t.vram, fetches |-> to.fetches, grown |-> to.grown]
  BY <1>1, <1>2
<1>11. new.units = t.rows[r].units
  BY <1>7 DEF row
<1>12. Sound(to, hs, words) /\ to.rows[r] = new /\ to.vram = t.vram
  BY <1>9, <1>10, <1>11, RowRestated
<1> QED
  BY <1>12 DEF to

\* A row's unit is admitted where there is room for it.
LEMMA PromoteRowKeeps ==
  ASSUME NEW t, NEW hs, NEW words, Sound(t, hs, words), NEW r \in Rows,
         ~t.rows[r].spilled, t.rows[r].tier # Vram, t.vram + RowBytes <= VramBudget
  PROVE  Sound(PromoteRow(t, r), hs, words)
<1> DEFINE row == t.rows[r]
           to == PromoteRow(t, r)
           new == [row EXCEPT !.units = {RowUnit}, !.tier = Vram]
           g == [t.rows EXCEPT ![r] = new]
           x == <<"row", r, RowUnit>>
<1>1. to = [t EXCEPT !.vram = @ + RowBytes, !.rows[r] = new]
  BY DEF PromoteRow
<1> HIDE DEF to
<1>2. t = [pool |-> t.pool, recs |-> t.recs, rows |-> t.rows, vram |-> t.vram,
          fetches |-> t.fetches, grown |-> t.grown] /\ RowSound(row)
  BY DEF Sound
<1>3. row = [present |-> row.present, tier |-> row.tier, generation |-> row.generation,
            lastUse |-> row.lastUse, lastSeq |-> row.lastSeq, units |-> row.units,
            spilled |-> row.spilled]
  BY <1>2 DEF RowSound
<1>4. row.units = {} /\ row.spilled \in BOOLEAN /\ ~row.spilled
  BY <1>2 DEF RowSound, TierTells
<1> HIDE DEF row
<1> DEFINE one == {RowUnit}
<1>5. new = [row EXCEPT !.units = one, !.tier = Vram]
  OBVIOUS
<1> HIDE DEF new, one
<1>6. new = [present |-> row.present, tier |-> Vram, generation |-> row.generation,
            lastUse |-> row.lastUse, lastSeq |-> row.lastSeq, units |-> one,
            spilled |-> row.spilled]
  BY <1>3, <1>5
<1>7. /\ new = [present |-> new.present, tier |-> new.tier, generation |-> new.generation,
                lastUse |-> new.lastUse, lastSeq |-> new.lastSeq, units |-> new.units,
                spilled |-> new.spilled]
      /\ new.units = {RowUnit} /\ new.tier = Vram /\ new.spilled = row.spilled
  BY <1>6 DEF one
<1>8. RowSound(new)
  <2>1. TierTells(new)
    <3>1. new.tier = Vram /\ new.tier # Disk /\ new.tier \in {Disk, Ram, Vram} /\ new.units # {}
      BY <1>7 DEF Disk, Ram, Vram
    <3>2. new.spilled \in BOOLEAN /\ ~new.spilled
      BY <1>4, <1>7
    <3> QED BY <3>1, <3>2 DEF TierTells
  <2>2. new.units \subseteq {RowUnit}
    BY <1>7
  <2> QED BY <1>2, <1>7, <2>1, <2>2, RowFields
<1>9. to = [pool |-> t.pool, recs |-> t.recs, rows |-> g, vram |-> t.vram + RowBytes,
            fetches |-> t.fetches, grown |-> t.grown]
  BY <1>1, <1>2
<1>10. /\ DOMAIN g = Rows /\ g[r] = new /\ \A q \in Rows : q # r => g[q] = t.rows[q]
       /\ DOMAIN t.rows = Rows
  BY DEF Sound
<1>11. g = [q \in Rows |-> g[q]]
  BY <1>10
<1> HIDE DEF g
<1>12. to.pool = t.pool /\ to.recs = t.recs /\ to.rows = g /\ to.vram = t.vram + RowBytes
  BY <1>9
<1>13. VramCovers(to)
  <2>1. x \notin Residents(t)
    <3> SUFFICES ASSUME x \in Residents(t) PROVE FALSE
      OBVIOUS
    <3>1. CASE x \in ResidentsOf("slot", t.recs)
      <4>1. PICK o \in DOMAIN t.recs : \E y \in t.recs[o].units : x = <<"slot", o, y>>
        BY <3>1, ResidentIs
      <4> QED BY <4>1
    <3>2. CASE x \in ResidentsOf("row", t.rows)
      <4>1. PICK o \in DOMAIN t.rows : \E y \in t.rows[o].units : x = <<"row", o, y>>
        BY <3>2, ResidentIs
      <4> QED BY <1>4, <4>1 DEF row
    <3> QED BY <3>1, <3>2 DEF Residents
  <2>2. ResidentsOf("row", g) = ResidentsOf("row", t.rows) \cup {x}
    <3>1. \A y : y \in ResidentsOf("row", g) <=> y \in ResidentsOf("row", t.rows) \/ y = x
      <4> TAKE y
      <4>1. y \in ResidentsOf("row", g) <=> \E o \in Rows : \E v \in g[o].units : y = <<"row", o, v>>
        BY <1>10, ResidentIs
      <4>2. y \in ResidentsOf("row", t.rows) <=> \E o \in Rows : \E v \in t.rows[o].units : y = <<"row", o, v>>
        BY <1>10, ResidentIs
      <4>3. g[r].units = {RowUnit} /\ t.rows[r].units = {}
        BY <1>4, <1>7, <1>10 DEF row
      <4> QED BY <1>10, <4>1, <4>2, <4>3
    <3> QED BY <3>1
  <2>3. Residents(to) = Residents(t) \cup {x}
    BY <1>12, <2>2 DEF Residents
  <2>4. x[3].len = RowBytes /\ RowBytes \in Nat
    BY TierAssumption DEF RowUnit
  <2> HIDE DEF x
  <2>5. VramBytes(Residents(t) \cup {x}) = VramBytes(Residents(t)) + RowBytes
        /\ VramBytes(Residents(t)) \in Nat
    BY <2>1, <2>4, ResidentsTyped, BytesOfMore
  <2>6. t.vram \in Nat /\ VramBytes(Residents(t)) <= t.vram /\ VramBudget \in Nat
    BY TierAssumption DEF Sound, VramCovers
  <2> QED BY <1>12, <2>3, <2>4, <2>5, <2>6 DEF VramCovers
<1>14. Sound(to, hs, words)
  <2>1. to = [pool |-> to.pool, recs |-> to.recs, rows |-> to.rows, vram |-> to.vram,
             fetches |-> to.fetches, grown |-> to.grown]
    BY <1>9
  <2>2. /\ IsFiniteSet(DOMAIN to.recs) /\ to.recs = [o \in DOMAIN to.recs |-> to.recs[o]]
        /\ \A o \in DOMAIN to.recs : RecordSound(to.recs[o])
    BY <1>12 DEF Sound
  <2>3. to.rows = [q \in Rows |-> to.rows[q]]
    BY <1>11, <1>12
  <2>4. \A q \in Rows : RowSound(to.rows[q])
    BY <1>8, <1>10, <1>12 DEF Sound
  <2>5. \E own, said : Owned(to.pool, to.recs, hs, words, own, said)
    BY <1>12 DEF Sound
  <2> QED BY <1>13, <2>1, <2>2, <2>3, <2>4, <2>5, Zenon DEF Sound
<1> QED
  BY <1>14 DEF to

\* A transition of a row keeps what is kept, where it does not wait for itself.
LEMMA ExecuteRowKeeps ==
  ASSUME NEW t, NEW hs, NEW words, Sound(t, hs, words),
         NEW target, target.class = "row", target.at \in Rows, NEW kind, Kind(kind),
         ~WaitsForItself(t, target, kind)
  PROVE  Sound(ExecuteRow(t, target, kind), hs, words)
<1> DEFINE r == target.at
           to == ExecuteRow(t, target, kind)
           row == t.rows[r]
           less == WithdrawRow(t, r)
           up == ClimbRow(t, target)
<1>1. RowSound(row) /\ t.vram \in Nat /\ VramBudget \in Nat /\ RowBytes \in Nat
  BY TierAssumption DEF Sound, VramCovers
<1>2. Sound(less, hs, words) /\ less.rows[r].units = {}
  BY WithdrawRowKeeps
<1>3. Sound(SpillRow(less, r), hs, words)
  <2>1. RowSound(less.rows[r])
    BY <1>2 DEF Sound
  <2>2. less.rows[r].tier # Vram
    BY <1>2, <2>1 DEF RowSound, TierTells
  <2> HIDE DEF less
  <2> QED BY <1>2, <2>2, SpillRowKeeps
<1>4. kind.op = "SetTo" /\ row.tier < kind.tier => Sound(up, hs, words)
  <2> SUFFICES ASSUME kind.op = "SetTo", row.tier < kind.tier PROVE Sound(up, hs, words)
    OBVIOUS
  <2>1. row.tier # Vram /\ ~(t.vram + RowBytes > VramBudget)
    <3>1. row.tier \in {Disk, Ram, Vram} /\ kind.tier \in {Disk, Ram, Vram}
      BY <1>1 DEF RowSound, TierTells, Kind
    <3> QED BY <3>1 DEF Disk, Ram, Vram, WaitsForItself
  <2>2. t.vram + RowBytes <= VramBudget
    BY <1>1, <2>1
  <2>3. CASE row.tier = Disk
    <3> DEFINE from == UnspillRow(t, target)
    <3>1. up = PromoteRow(from, r)
      BY <2>3 DEF ClimbRow
    <3>2. Sound(from, hs, words) /\ from.rows[r].units = row.units /\ from.vram = t.vram
          /\ ~from.rows[r].spilled
      BY UnspillRowKeeps
    <3> HIDE DEF from
    <3>3. from.rows[r].tier # Vram
      <4>1. RowSound(from.rows[r]) /\ row.units = {}
        BY <1>1, <2>1, <3>2 DEF Sound, RowSound, TierTells
      <4> QED BY <3>2, <4>1 DEF RowSound, TierTells
    <3> QED BY <2>2, <3>1, <3>2, <3>3, PromoteRowKeeps
  <2>4. CASE row.tier # Disk
    <3>1. up = PromoteRow(t, r)
      BY <2>4 DEF ClimbRow
    <3>2. ~row.spilled
      BY <1>1, <2>4 DEF RowSound, TierTells
    <3> QED BY <2>1, <2>2, <3>1, <3>2, PromoteRowKeeps
  <2> QED BY <2>3, <2>4
<1>5. CASE kind.op = "Unspill"
  <2>1. to = UnspillRow(t, target)
    BY <1>5 DEF ExecuteRow
  <2> QED BY <2>1, UnspillRowKeeps
<1>6. CASE kind.op = "Demote"
  BY <1>6 DEF ExecuteRow
<1>7. CASE kind.op = "SetTo"
  <2>1. \/ to = t
        \/ to = less
        \/ to = SpillRow(less, r)
        \/ row.tier < kind.tier /\ to = WithdrawRow(up, r)
        \/ row.tier < kind.tier /\ to = up
    <3>1. row.tier \in {Disk, Ram, Vram} /\ kind.tier \in {Disk, Ram, Vram}
      BY <1>1 DEF RowSound, TierTells, Kind
    <3>2. row.tier = kind.tier \/ row.tier > kind.tier \/ row.tier < kind.tier
      BY <3>1 DEF Disk, Ram, Vram
    <3>3. to = IF row.tier = kind.tier THEN t
               ELSE IF row.tier > kind.tier
                 THEN IF kind.tier = Disk THEN SpillRow(less, r) ELSE less
               ELSE IF kind.tier = Ram THEN WithdrawRow(up, r) ELSE up
      BY <1>7 DEF ExecuteRow
    <3> HIDE DEF to, less, up
    <3> QED BY <3>2, <3>3
  <2>2. Sound(up, hs, words) => Sound(WithdrawRow(up, r), hs, words)
    <3> HIDE DEF up
    <3> QED BY WithdrawRowKeeps
  <2> HIDE DEF to, less, up
  <2> QED BY <1>2, <1>3, <1>4, <1>7, <2>1, <2>2 DEF to
<1> QED
  BY <1>5, <1>6, <1>7 DEF Kind

\* A claim only stamps its target.
LEMMA ClaimKeeps ==
  ASSUME NEW t, NEW hs, NEW words, Sound(t, hs, words), NEW target, NEW seq,
         Live(t, target), target.class = "row" => target.at \in Rows
  PROVE  LET c == Claim(t, target, seq)
         IN /\ Sound(c, hs, words) /\ DOMAIN c.recs = DOMAIN t.recs /\ c.vram = t.vram
            /\ target.class = "row" => c.rows[target.at].tier = t.rows[target.at].tier
<1> DEFINE at == target.at
           c == Claim(t, target, seq)
<1>1. t = [pool |-> t.pool, recs |-> t.recs, rows |-> t.rows, vram |-> t.vram,
          fetches |-> t.fetches, grown |-> t.grown]
  BY DEF Sound
<1>2. CASE target.class = "row"
  <2> DEFINE row == t.rows[at]
             new == [row EXCEPT !.lastSeq = seq]
  <2>1. c = [t EXCEPT !.rows[at].lastSeq = seq]
    BY <1>2 DEF Claim
  <2>2. c = [t EXCEPT !.rows[at] = new]
    BY <2>1
  <2> HIDE DEF c
  <2>3. at \in Rows /\ RowSound(row)
    BY <1>2 DEF Sound
  <2>4. row = [present |-> row.present, tier |-> row.tier, generation |-> row.generation,
              lastUse |-> row.lastUse, lastSeq |-> row.lastSeq, units |-> row.units,
              spilled |-> row.spilled]
    BY <2>3 DEF RowSound
  <2> HIDE DEF row
  <2>5. new = [present |-> row.present, tier |-> row.tier, generation |-> row.generation,
              lastUse |-> row.lastUse, lastSeq |-> seq, units |-> row.units,
              spilled |-> row.spilled]
    BY <2>4
  <2> HIDE DEF new
  <2>6. /\ new = [present |-> new.present, tier |-> new.tier, generation |-> new.generation,
                  lastUse |-> new.lastUse, lastSeq |-> new.lastSeq, units |-> new.units,
                  spilled |-> new.spilled]
        /\ new.units = row.units /\ new.tier = row.tier /\ new.spilled = row.spilled
    BY <2>5
  <2>7. RowSound(new)
    <3>1. TierTells(new) /\ new.units \subseteq {RowUnit}
      BY <2>3, <2>6 DEF RowSound, TierTells
    <3> QED BY <2>3, <2>6, <3>1, RowFields
  <2>8. c = [pool |-> t.pool, recs |-> t.recs, rows |-> [t.rows EXCEPT ![at] = new],
            vram |-> t.vram, fetches |-> c.fetches, grown |-> c.grown] /\ c.recs = t.recs
    BY <1>1, <2>2
  <2>9. new.units = t.rows[at].units
    BY <2>6 DEF row
  <2>10. Sound(c, hs, words) /\ c.rows[at] = new /\ c.vram = t.vram
    BY <2>3, <2>7, <2>8, <2>9, RowRestated
  <2> QED BY <2>6, <2>8, <2>10 DEF c, row
<1>3. CASE target.class # "row"
  <2> DEFINE rec == t.recs[at]
             new == [rec EXCEPT !.lastSeq = seq]
  <2>1. c = [t EXCEPT !.recs[at].lastSeq = seq]
    BY <1>3 DEF Claim
  <2>2. c = [t EXCEPT !.recs[at] = new]
    BY <2>1
  <2> HIDE DEF c
  <2>3. at \in DOMAIN t.recs /\ RecordSound(rec)
    BY <1>3 DEF Sound, Live
  <2>4. rec = [count |-> rec.count, generation |-> rec.generation, lastUse |-> rec.lastUse,
              lastSeq |-> rec.lastSeq, tier |-> rec.tier, data |-> rec.data, box |-> rec.box,
              spilled |-> rec.spilled, units |-> rec.units]
    BY <2>3 DEF RecordSound
  <2> HIDE DEF rec
  <2>5. new = [count |-> rec.count, generation |-> rec.generation, lastUse |-> rec.lastUse,
              lastSeq |-> seq, tier |-> rec.tier, data |-> rec.data, box |-> rec.box,
              spilled |-> rec.spilled, units |-> rec.units]
    BY <2>4
  <2> HIDE DEF new
  <2>6. /\ new = [count |-> new.count, generation |-> new.generation, lastUse |-> new.lastUse,
                  lastSeq |-> new.lastSeq, tier |-> new.tier, data |-> new.data, box |-> new.box,
                  spilled |-> new.spilled, units |-> new.units]
        /\ new.count = rec.count /\ new.data = rec.data /\ new.units = rec.units
        /\ new.tier = rec.tier /\ new.spilled = rec.spilled
    BY <2>5
  <2>7. RecordSound(new)
    <3>1. TierTells(new)
      BY <2>3, <2>6 DEF RecordSound, TierTells
    <3> QED BY <2>3, <2>6, <3>1, RecordFields
  <2>8. c = [pool |-> t.pool, recs |-> [t.recs EXCEPT ![at] = new], rows |-> t.rows,
            vram |-> t.vram, fetches |-> c.fetches, grown |-> c.grown]
    BY <1>1, <2>2
  <2>9. new.units = t.recs[at].units /\ new.count = t.recs[at].count /\ new.data = t.recs[at].data
    BY <2>6 DEF rec
  <2>10. Sound(c, hs, words) /\ DOMAIN c.recs = DOMAIN t.recs /\ c.recs[at] = new /\ c.vram = t.vram
    BY <2>3, <2>7, <2>8, <2>9, RecordRestated
  <2> QED BY <1>3, <2>10 DEF c
<1> QED
  BY <1>2, <1>3

\* An intent a verb may have queued.
Sane(x) ==
  /\ x = [target |-> x.target, kind |-> x.kind, seq |-> x.seq]
  /\ x.target.class \in {"slot", "row"} /\ (x.target.class = "row" => x.target.at \in Rows)
  /\ Kind(x.kind)

\* What becomes of what is kept when an intent is executed, cancelled or hangs.
LEMMA AfterIntentKeeps ==
  ASSUME NEW t, NEW hs, NEW words, Sound(t, hs, words), NEW intent, Sane(intent)
  PROVE  Sound(AfterIntent(t, intent), hs, words)
<1> DEFINE target == intent.target
           kind == intent.kind
           c == Claim(t, target, intent.seq)
           after == AfterIntent(t, intent)
<1>1. /\ target.class \in {"slot", "row"} /\ (target.class = "row" => target.at \in Rows)
      /\ Kind(kind)
  BY DEF Sane
<1>2. Live(t, target) =>
        /\ Sound(c, hs, words) /\ DOMAIN c.recs = DOMAIN t.recs /\ c.vram = t.vram
        /\ target.class = "row" => c.rows[target.at].tier = t.rows[target.at].tier
  <2> HIDE DEF target
  <2> QED BY <1>1, ClaimKeeps
<1>3. CASE Hangs(t, intent)
  <2>1. Live(t, target) /\ target.class = "row"
    BY <1>3 DEF Hangs, Cancelled, WaitsForItself
  <2>2. after = c \/ after = UnspillRow(c, target)
    BY <1>3 DEF AfterIntent
  <2>3. Sound(UnspillRow(c, target), hs, words)
    <3> HIDE DEF c, target
    <3> QED BY <1>1, <1>2, <2>1, UnspillRowKeeps
  <2> QED BY <1>2, <2>1, <2>2, <2>3
<1>4. CASE ~Hangs(t, intent)
  <2>1. after = Executed(t, intent)
    BY <1>4 DEF AfterIntent
  <2>2. CASE Cancelled(t, intent)
    <3>1. after = t
      BY <2>1, <2>2 DEF Executed
    <3> QED BY <3>1
  <2>3. ~Cancelled(t, intent) => Live(t, target)
    BY DEF Cancelled
  <2>4. CASE ~Cancelled(t, intent) /\ target.class = "row"
    <3>1. after = ExecuteRow(c, target, kind)
      BY <2>1, <2>4 DEF Executed
    <3>2. ~WaitsForItself(t, target, kind)
      BY <1>4, <2>4 DEF Hangs
    <3>3. ~WaitsForItself(c, target, kind)
      BY <1>2, <2>3, <2>4, <3>2 DEF WaitsForItself
    <3> HIDE DEF c, target, kind
    <3>4. Sound(ExecuteRow(c, target, kind), hs, words)
      BY <1>1, <1>2, <2>3, <2>4, <3>3, ExecuteRowKeeps
    <3> QED BY <3>1, <3>4
  <2>5. CASE ~Cancelled(t, intent) /\ target.class = "slot"
    <3>1. after = ExecutePool(c, target, kind)
      BY <2>1, <2>5 DEF Executed
    <3>2. target.at \in DOMAIN c.recs
      BY <1>2, <2>3, <2>5 DEF Live
    <3> HIDE DEF c, target, kind
    <3>3. Sound(ExecutePool(c, target, kind), hs, words)
      BY <1>1, <1>2, <2>3, <2>5, <3>2, ExecutePoolKeeps
    <3> QED BY <3>1, <3>3
  <2> QED BY <1>1, <2>2, <2>4, <2>5
<1> QED
  BY <1>3, <1>4

\* A batch of intents.
IsBatch(b) == \E S : b \in Seq(S) /\ \A x \in S : Sane(x)

\* A batch one intent longer.
LEMMA BatchGrows ==
  ASSUME NEW b, IsBatch(b), NEW x, Sane(x)
  PROVE  IsBatch(Append(b, x))
<1>1. PICK S : b \in Seq(S) /\ \A y \in S : Sane(y)
  BY DEF IsBatch
<1> DEFINE T == S \cup {x}
<1>2. b \in Seq(T)
  <2>1. S \subseteq T
    OBVIOUS
  <2> HIDE DEF T
  <2> QED BY <1>1, <2>1, SeqMonotonic
<1>3. Append(b, x) \in Seq(T) /\ \A y \in T : Sane(y)
  BY <1>1, <1>2, AppendProperties
<1> QED
  BY <1>3 DEF IsBatch

\* A shard that holds nothing.
LEMMA EmptyBatch == IsBatch(<<>>)
<1> DEFINE S == {x \in {0} : FALSE}
<1>1. <<>> \in Seq(S) /\ \A x \in S : Sane(x)
  OBVIOUS
<1> HIDE DEF S
<1> QED
  BY <1>1 DEF IsBatch

\* What is left of a batch, and what is taken of it for one target.
LEMMA BatchSplits ==
  ASSUME NEW b, IsBatch(b), NEW keep \in SUBSET DOMAIN b
  PROVE  IsBatch(Retained(b, keep))
<1>1. PICK S : b \in Seq(S) /\ \A y \in S : Sane(y)
  BY DEF IsBatch
<1>2. Retained(b, keep) \in Seq(S)
  BY <1>1, RetainedElements
<1> QED
  BY <1>1, <1>2 DEF IsBatch

\* The first target of a batch has at least one intent to execute.
LEMMA GroupTaken ==
  ASSUME NEW b, IsBatch(b), b # <<>>
  PROVE  LET g == Claimed(Retained(b, Fellows(b))) IN IsBatch(g) /\ g # <<>>
<1> DEFINE keep == Fellows(b)
           s == Retained(b, keep)
           last == Last(s)
           f == FoldKinds(s)
           g == Claimed(s)
<1>1. PICK S : b \in Seq(S) /\ \A y \in S : Sane(y)
  BY DEF IsBatch
<1>2. keep \in SUBSET DOMAIN b /\ 1 \in keep
  <2>1. 1 \in DOMAIN b
    BY <1>1, EmptySeq, LenProperties
  <2> QED BY <2>1 DEF Fellows
<1> HIDE DEF keep
<1>3. s \in Seq(S) /\ Len(s) = Cardinality(keep) /\ IsFiniteSet(keep) /\ Cardinality(keep) \in Nat
  BY <1>1, <1>2, RetainedElements
<1>4. s # <<>>
  <2>1. Cardinality(keep) # 0
    BY <1>2, <1>3, FS_EmptySet
  <2> HIDE DEF s
  <2> QED BY <1>3, <2>1
<1> HIDE DEF s
<1>5. last \in S
  BY <1>3, <1>4, FrontLast
<1> HIDE DEF last
<1>6. f \in Seq(S) /\ f # <<>>
  BY <1>3, <1>4, <1>5 DEF FoldKinds, last
<1>7. g = [i \in DOMAIN f |-> [f[i] EXCEPT !.seq = last.seq]]
  BY DEF Claimed, last
<1> HIDE DEF f, g
<1> DEFINE T == {[target |-> x.target, kind |-> x.kind, seq |-> last.seq] : x \in S}
<1>8. \A x \in T : Sane(x)
  <2> TAKE x \in T
  <2>1. PICK y \in S : x = [target |-> y.target, kind |-> y.kind, seq |-> last.seq]
    OBVIOUS
  <2>2. Sane(y) /\ x.target = y.target /\ x.kind = y.kind /\ x.seq = last.seq
    BY <1>1, <2>1
  <2> QED BY <2>1, <2>2 DEF Sane
<1>9. Len(f) \in Nat \ {0} /\ DOMAIN f = 1 .. Len(f) /\ \A i \in 1 .. Len(f) : f[i] \in S
  BY <1>6, EmptySeq, LenProperties, ElementOfSeq
<1>10. \A i \in 1 .. Len(f) : g[i] \in T
  <2> TAKE i \in 1 .. Len(f)
  <2> DEFINE x == f[i]
             stamp == last.seq
  <2>1. x \in S /\ g[i] = [x EXCEPT !.seq = stamp]
    BY <1>7, <1>9
  <2>2. x = [target |-> x.target, kind |-> x.kind, seq |-> x.seq]
    BY <1>1, <2>1 DEF Sane
  <2> HIDE DEF x, stamp
  <2>3. g[i] = [target |-> x.target, kind |-> x.kind, seq |-> stamp]
    BY <2>1, <2>2
  <2> QED BY <2>1, <2>3 DEF stamp
<1> HIDE DEF T
<1>11. g \in [1 .. Len(f) -> T] /\ Len(f) \in Nat
  BY <1>7, <1>9, <1>10
<1>12. g \in Seq(T)
  BY <1>11, SeqDef
<1>13. g # <<>>
  BY <1>9, <1>11
<1>14. IsBatch(g)
  BY <1>8, <1>12 DEF IsBatch
<1> QED
  BY <1>13, <1>14 DEF g, s, keep

\* A payload is rewritten or freed: records go with it, and the one that comes
\* holds nothing in VRAM.
LEMMA PayloadRewritten ==
  ASSUME NEW t, NEW hs, NEW words, Sound(t, hs, words),
         hs = [e \in PoolOwners |-> hs[e]], words = [e \in PoolOwners |-> words[e]],
         NEW e \in PoolOwners, NEW data, IsPayload(data), Writable(t.pool, hs[e], data),
         NEW f, IsFiniteSet(DOMAIN f), f = [o \in DOMAIN f |-> f[o]],
         \A o \in DOMAIN f : /\ RecordSound(f[o])
                             /\ f[o].units = {} \/ (o \in DOMAIN t.recs /\ f[o] = t.recs[o]),
         NEW after,
         after = [pool |-> WriteVarRow(t.pool, hs[e], data).pool, recs |-> f, rows |-> t.rows,
                  vram |-> t.vram, fetches |-> after.fetches, grown |-> after.grown]
  PROVE  Sound(after, [hs EXCEPT ![e] = WriteVarRow(t.pool, hs[e], data).handle],
               [words EXCEPT ![e] = data])
<1> DEFINE prev == hs[e]
           key == OwnerKey(e)
           freed == Release(t.pool, prev)
           w == WriteVarRow(t.pool, prev, data)
           hs2 == [hs EXCEPT ![e] = w.handle]
           words2 == [words EXCEPT ![e] = data]
<1>1. PICK own, said : Owned(t.pool, t.recs, hs, words, own, said)
  BY DEF Sound
<1>2. /\ IsPool(t.pool) /\ Shares(t.pool, own) /\ Says(t.pool, own, said)
      /\ key \in DOMAIN own /\ own[key] = prev
  BY <1>1 DEF Owned
<1> DEFINE rest == Forgotten(own, key)
           all == Remembered(rest, key, w.handle)
           told == Remembered(said, key, data)
<1>3. IsPool(freed) /\ Shares(freed, rest) /\ freed.mem = t.pool.mem
  BY <1>2, ReleaseGives
<1>4. /\ \A k : k \in DOMAIN rest <=> k \in DOMAIN own /\ k # key
      /\ \A k \in DOMAIN rest : rest[k] = own[k]
  BY DEF Forgotten
<1>5. Says(freed, rest, said)
  <2>1. \A k \in DOMAIN own : ReadRange(freed, own[k]) = ReadRange(t.pool, own[k])
    BY <1>3 DEF ReadRange
  <2> HIDE DEF rest, freed
  <2> QED BY <1>2, <1>4, <2>1 DEF Says
<1>6. w = WriteVarRow(freed, NoHandleRange, data) /\ Writable(freed, NoHandleRange, data)
  <2>1. Release(freed, NoHandleRange) = freed
    BY DEF Release, NoHandleRange
  <2>2. w = WriteVarRow(freed, NoHandleRange, data)
    <3> HIDE DEF prev
    <3>1. freed = Release(t.pool, prev)
      OBVIOUS
    <3> HIDE DEF freed
    <3> QED BY <2>1, <3>1 DEF WriteVarRow
  <2>3. Writable(freed, NoHandleRange, data)
    BY <2>1 DEF Writable
  <2> QED BY <2>2, <2>3
<1> HIDE DEF w, freed, rest, key, prev
<1>7. IsPool(w.pool) /\ Shares(w.pool, all) /\ Says(w.pool, all, told)
  <2>1. key \notin DOMAIN rest
    BY <1>4
  <2> QED BY <1>3, <1>5, <1>6, <2>1, WriteGives
<1>8. /\ \A k : k \in DOMAIN all <=> k \in DOMAIN own
      /\ all[key] = w.handle /\ told[key] = data
      /\ \A k \in DOMAIN own : k # key => all[k] = own[k] /\ (k \in DOMAIN said => told[k] = said[k])
  BY <1>2, <1>4 DEF Remembered
<1> HIDE DEF all, told
<1>9. key[1] = "owner" /\ \A d \in PoolOwners : OwnerKey(d) = key <=> d = e
  BY DEF key, OwnerKey
<1>10. \A k \in DOMAIN all : /\ k[1] \in {"owner", "slot"}
                             /\ k[1] = "slot" => all[k] = UnitRange(k[3]) /\ k[3].len > 0
  <2>1. \A k \in DOMAIN own : /\ k[1] \in {"owner", "slot"}
                              /\ k[1] = "slot" => own[k] = UnitRange(k[3]) /\ k[3].len > 0
    BY <1>1 DEF Owned
  <2> QED BY <1>8, <1>9, <2>1
<1>11. /\ hs2 = [d \in PoolOwners |-> hs2[d]] /\ hs2[e] = w.handle /\ words2[e] = data
       /\ \A d \in PoolOwners : d # e => hs2[d] = hs[d] /\ words2[d] = words[d]
  <2> DEFINE h == w.handle
  <2> HIDE DEF h
  <2>1. hs2 = [hs EXCEPT ![e] = h]
    BY DEF h
  <2> HIDE DEF hs2
  <2> QED BY <2>1 DEF h
<1> HIDE DEF hs2, words2
<1>12. \A d \in PoolOwners : /\ OwnerKey(d) \in DOMAIN all /\ all[OwnerKey(d)] = hs2[d]
                             /\ hs2[d].count > 0 => told[OwnerKey(d)] = words2[d]
  <2> TAKE d \in PoolOwners
  <2>1. CASE d = e
    BY <1>2, <1>8, <1>9, <1>11, <2>1
  <2>2. CASE d # e
    <3>1. /\ OwnerKey(d) \in DOMAIN own /\ own[OwnerKey(d)] = hs[d]
          /\ hs[d].count > 0 => said[OwnerKey(d)] = words[d]
      BY <1>1 DEF Owned
    <3>2. hs[d].count > 0 => OwnerKey(d) \in DOMAIN said
      BY <1>2, <3>1 DEF Says
    <3> QED BY <1>8, <1>9, <1>11, <2>2, <3>1, <3>2
  <2> QED BY <2>1, <2>2
<1>13. \A o \in DOMAIN f : \A u \in f[o].units :
         SlotKey(o, u) \in DOMAIN all /\ told[SlotKey(o, u)] = UnitData(f[o], u)
  <2> TAKE o \in DOMAIN f
  <2> TAKE u \in f[o].units
  <2>1. o \in DOMAIN t.recs /\ f[o] = t.recs[o]
    OBVIOUS
  <2>2. SlotKey(o, u) \in DOMAIN own /\ said[SlotKey(o, u)] = UnitData(t.recs[o], u)
    BY <1>1, <2>1 DEF Owned
  <2>3. SlotKey(o, u)[1] = "slot" /\ SlotKey(o, u)[3] = u
    BY DEF SlotKey
  <2>4. SlotKey(o, u) \in DOMAIN said
    <3>1. own[SlotKey(o, u)] = UnitRange(u) /\ u.len > 0
      BY <1>1, <2>2, <2>3 DEF Owned
    <3>2. own[SlotKey(o, u)].count > 0
      BY <3>1 DEF UnitRange
    <3> QED BY <1>2, <2>2, <3>2 DEF Says
  <2>5. SlotKey(o, u) # key
    BY <1>9, <2>3
  <2> QED BY <1>8, <2>1, <2>2, <2>4, <2>5
<1>14. Owned(w.pool, f, hs2, words2, all, told)
  BY <1>7, <1>10, <1>12, <1>13 DEF Owned
<1>15. after.pool = w.pool /\ after.recs = f /\ after.rows = t.rows /\ after.vram = t.vram
       /\ after = [pool |-> after.pool, recs |-> after.recs, rows |-> after.rows, vram |-> after.vram,
                   fetches |-> after.fetches, grown |-> after.grown]
  <2> DEFINE q == w.pool
  <2>1. after = [pool |-> q, recs |-> f, rows |-> t.rows, vram |-> t.vram,
                 fetches |-> after.fetches, grown |-> after.grown]
    BY DEF w, prev
  <2> HIDE DEF q
  <2>2. after.pool = q /\ after.recs = f /\ after.rows = t.rows /\ after.vram = t.vram
    BY <2>1
  <2>3. after = [pool |-> after.pool, recs |-> after.recs, rows |-> after.rows, vram |-> after.vram,
                 fetches |-> after.fetches, grown |-> after.grown]
    BY <2>1, <2>2
  <2> QED BY <2>2, <2>3 DEF q
<1>16. VramCovers(after)
  <2>1. Residents(after) \in SUBSET Residents(t)
    <3> SUFFICES ASSUME NEW x \in Residents(after) PROVE x \in Residents(t)
      OBVIOUS
    <3>1. CASE x \in ResidentsOf("slot", f)
      <4>1. PICK o \in DOMAIN f : \E u \in f[o].units : x = <<"slot", o, u>>
        BY <3>1, ResidentIs
      <4>2. o \in DOMAIN t.recs /\ f[o] = t.recs[o]
        BY <4>1
      <4>3. x \in ResidentsOf("slot", t.recs)
        BY <4>1, <4>2, ResidentIs
      <4> QED BY <4>3 DEF Residents
    <3>2. CASE x \in ResidentsOf("row", t.rows)
      BY <3>2 DEF Residents
    <3> QED BY <1>15, <3>1, <3>2 DEF Residents
  <2>2. IsFiniteSet(Residents(t)) /\ \A x \in Residents(t) : x[3].len \in Nat
    BY ResidentsTyped
  <2>3. VramBytes(Residents(after)) \in Nat /\ VramBytes(Residents(t)) \in Nat
        /\ VramBytes(Residents(after)) <= VramBytes(Residents(t))
    BY <2>1, <2>2, BytesOfFewer
  <2>4. t.vram \in Nat /\ t.vram <= VramBudget /\ VramBytes(Residents(t)) <= t.vram
    BY DEF Sound, VramCovers
  <2> QED BY <1>15, <2>3, <2>4 DEF VramCovers
<1>17. Sound(after, hs2, words2)
  <2>1. /\ IsFiniteSet(DOMAIN after.recs) /\ after.recs = [o \in DOMAIN after.recs |-> after.recs[o]]
        /\ \A o \in DOMAIN after.recs : RecordSound(after.recs[o])
    BY <1>15
  <2>2. after.rows = [r \in Rows |-> after.rows[r]] /\ \A r \in Rows : RowSound(after.rows[r])
    BY <1>15 DEF Sound
  <2>3. \E o1, s1 : Owned(after.pool, after.recs, hs2, words2, o1, s1)
    BY <1>14, <1>15
  <2> QED BY <1>15, <1>16, <2>1, <2>2, <2>3, Zenon DEF Sound
<1> QED
  BY <1>17 DEF hs2, words2, w, prev

\* A payload is written over where it lies.
LEMMA PayloadOverwritten ==
  ASSUME NEW t, NEW hs, NEW words, Sound(t, hs, words), words = [e \in PoolOwners |-> words[e]],
         NEW e \in PoolOwners, NEW data, IsPayload(data), Len(data) = hs[e].count,
         NEW after,
         after = [pool |-> WritePadded(t.pool, hs[e].offset, data), recs |-> t.recs, rows |-> t.rows,
                  vram |-> t.vram, fetches |-> after.fetches, grown |-> after.grown]
  PROVE  Sound(after, hs, [words EXCEPT ![e] = data])
<1> DEFINE key == OwnerKey(e)
           q == WritePadded(t.pool, hs[e].offset, data)
           words2 == [words EXCEPT ![e] = data]
<1>1. PICK own, said : Owned(t.pool, t.recs, hs, words, own, said)
  BY DEF Sound
<1>2. /\ IsPool(t.pool) /\ Shares(t.pool, own) /\ Says(t.pool, own, said)
      /\ key \in DOMAIN own /\ own[key] = hs[e]
  BY <1>1 DEF Owned
<1> DEFINE told == Remembered(said, key, data)
<1>3. IsPool(q) /\ Shares(q, own) /\ Says(q, own, told)
  <2>1. LET p == WritePadded(t.pool, own[key].offset, data)
        IN IsPool(p) /\ Shares(p, own) /\ Says(p, own, Remembered(said, key, data))
    <3> HIDE DEF key
    <3> QED BY <1>2, OverwriteGives
  <2> QED BY <1>2, <2>1
<1> HIDE DEF q, key
<1>4. told[key] = data /\ \A k \in DOMAIN said : k # key => told[k] = said[k]
  BY DEF Remembered
<1> HIDE DEF told
<1>5. key[1] = "owner" /\ \A d \in PoolOwners : OwnerKey(d) = key <=> d = e
  BY DEF key, OwnerKey
<1>6. words2[e] = data /\ \A d \in PoolOwners : d # e => words2[d] = words[d]
  OBVIOUS
<1> HIDE DEF words2
<1>7. \A d \in PoolOwners : /\ OwnerKey(d) \in DOMAIN own /\ own[OwnerKey(d)] = hs[d]
                            /\ hs[d].count > 0 => told[OwnerKey(d)] = words2[d]
  <2> TAKE d \in PoolOwners
  <2>1. /\ OwnerKey(d) \in DOMAIN own /\ own[OwnerKey(d)] = hs[d]
        /\ hs[d].count > 0 => said[OwnerKey(d)] = words[d]
    BY <1>1 DEF Owned
  <2>2. hs[d].count > 0 => OwnerKey(d) \in DOMAIN said
    BY <1>2, <2>1 DEF Says
  <2> QED BY <1>4, <1>5, <1>6, <2>1, <2>2
<1>8. \A o \in DOMAIN t.recs : \A u \in t.recs[o].units :
        SlotKey(o, u) \in DOMAIN own /\ told[SlotKey(o, u)] = UnitData(t.recs[o], u)
  <2> TAKE o \in DOMAIN t.recs
  <2> TAKE u \in t.recs[o].units
  <2>1. SlotKey(o, u) \in DOMAIN own /\ said[SlotKey(o, u)] = UnitData(t.recs[o], u)
    BY <1>1 DEF Owned
  <2>2. SlotKey(o, u)[1] = "slot" /\ SlotKey(o, u)[3] = u
    BY DEF SlotKey
  <2>3. SlotKey(o, u) \in DOMAIN said
    <3>1. own[SlotKey(o, u)] = UnitRange(u) /\ u.len > 0
      BY <1>1, <2>1, <2>2 DEF Owned
    <3>2. own[SlotKey(o, u)].count > 0
      BY <3>1 DEF UnitRange
    <3> QED BY <1>2, <2>1, <3>2 DEF Says
  <2>4. SlotKey(o, u) # key
    BY <1>5, <2>2
  <2> QED BY <1>4, <2>1, <2>3, <2>4
<1>9. \A k \in DOMAIN own : /\ k[1] \in {"owner", "slot"}
                            /\ k[1] = "slot" => own[k] = UnitRange(k[3]) /\ k[3].len > 0
  BY <1>1 DEF Owned
<1>10. Owned(q, t.recs, hs, words2, own, told)
  BY <1>3, <1>7, <1>8, <1>9 DEF Owned
<1>11. /\ after.pool = q /\ after.recs = t.recs /\ after.rows = t.rows /\ after.vram = t.vram
       /\ after = [pool |-> after.pool, recs |-> after.recs, rows |-> after.rows, vram |-> after.vram,
                   fetches |-> after.fetches, grown |-> after.grown]
  <2>1. after = [pool |-> q, recs |-> t.recs, rows |-> t.rows, vram |-> t.vram,
                 fetches |-> after.fetches, grown |-> after.grown]
    BY DEF q
  <2>2. after.pool = q /\ after.recs = t.recs /\ after.rows = t.rows /\ after.vram = t.vram
    BY <2>1
  <2> QED BY <2>1, <2>2
<1>12. Sound(after, hs, words2)
  <2>1. /\ IsFiniteSet(DOMAIN after.recs) /\ after.recs = [o \in DOMAIN after.recs |-> after.recs[o]]
        /\ \A o \in DOMAIN after.recs : RecordSound(after.recs[o])
    BY <1>11 DEF Sound
  <2>2. after.rows = [r \in Rows |-> after.rows[r]] /\ \A r \in Rows : RowSound(after.rows[r])
    BY <1>11 DEF Sound
  <2>3. \E o1, s1 : Owned(after.pool, after.recs, hs, words2, o1, s1)
    BY <1>10, <1>11
  <2>4. VramCovers(after)
    BY <1>11 DEF Sound, VramCovers, Residents
  <2> QED BY <1>11, <2>1, <2>2, <2>3, <2>4, Zenon DEF Sound
<1> QED
  BY <1>12 DEF words2

\* The verbs hand the flush intents it can execute, shard by shard.
PendingSound(queues) ==
  queues = [s \in ShardSet |-> queues[s]] /\ \A s \in ShardSet : IsBatch(queues[s])

\* The flushing thread holds a batch and what is left of a group of it.
FlushSound(f) ==
  /\ f = [pc |-> f.pc, next |-> f.next, shard |-> f.shard, work |-> f.work, group |-> f.group]
  /\ f.next \in Nat \ {0} /\ IsBatch(f.work) /\ IsBatch(f.group)

\* Two columns, one value for each owner.
ColumnsSound(hs, words) ==
  hs = [e \in PoolOwners |-> hs[e]] /\ words = [e \in PoolOwners |-> words[e]]

\* The inductive invariant: what is kept is sound, and so are the intents queued
\* and drained, whatever shard and step the flush is at.
TierInv ==
  /\ Sound(Bundle, handleOf, written) /\ ColumnsSound(handleOf, written)
  /\ PendingSound(pending) /\ FlushSound(flush)

\* An intent joins its shard's queue.
LEMMA QueueKeeps ==
  ASSUME PendingSound(pending), NEW intent, Sane(intent), Queue(intent)
  PROVE  PendingSound(pending')
<1> DEFINE at == ShardOf(intent.target)
           more == Append(pending[at], intent)
<1>1. pending' = [pending EXCEPT ![at] = more]
  BY DEF Queue
<1>2. at \in ShardSet => IsBatch(more)
  BY BatchGrows DEF PendingSound
<1>3. pending = [s \in ShardSet |-> pending[s]] /\ \A s \in ShardSet : IsBatch(pending[s])
  BY DEF PendingSound
<1> HIDE DEF at, more
<1>4. /\ pending' = [s \in ShardSet |-> pending'[s]]
      /\ \A s \in ShardSet : pending'[s] = IF s = at THEN more ELSE pending[s]
  BY <1>1, <1>3
<1>5. \A s \in ShardSet : IsBatch(pending'[s])
  BY <1>2, <1>3, <1>4
<1> QED
  BY <1>4, <1>5 DEF PendingSound

\* The shards are a list, and a flush drains one of it.
LEMMA ShardsListed ==
  Len(Shards) \in Nat /\ \A i \in 1 .. Len(Shards) : Shards[i] \in ShardSet
<1> DEFINE S == {<<"row", r>> : r \in Rows}
           a == SlotShards
           b == SetToSeq(S)
<1>1. IsFiniteSet(S)
  <2> DEFINE h == [r \in Rows |-> <<"row", r>>]
  <2>1. h \in Surjection(Rows, S)
    BY DEF Surjection
  <2>2. IsFiniteSet(Rows)
    BY TierAssumption
  <2> HIDE DEF h, S
  <2> QED BY <2>1, <2>2, FS_Surjection
<1>2. Cardinality(S) \in Nat /\ b \in Bijection(1 .. Cardinality(S), S)
  BY <1>1, FS_CardinalityType, ListedOnce
<1> HIDE DEF b, S
<1>3. b \in Seq(S)
  <2> DEFINE n == Cardinality(S)
  <2>1. b \in [1 .. n -> S] /\ n \in Nat
    BY <1>2 DEF Bijection, Injection
  <2> HIDE DEF n
  <2> QED BY <2>1, SeqDef
<1> DEFINE T == S \cup {a[i] : i \in 1 .. PoolCeiling}
<1>4. a \in Seq(T)
  <2>1. PoolCeiling \in Nat
    BY BufferAssumption
  <2>2. a = [i \in 1 .. PoolCeiling |-> a[i]]
    BY DEF SlotShards
  <2> HIDE DEF a
  <2>3. \A i \in 1 .. PoolCeiling : a[i] \in T
    OBVIOUS
  <2> HIDE DEF T
  <2>4. a \in [1 .. PoolCeiling -> T]
    BY <2>2, <2>3
  <2> QED BY <2>1, <2>4, SeqDef
<1>5. b \in Seq(T)
  <2>1. S \subseteq T
    OBVIOUS
  <2> HIDE DEF T
  <2> QED BY <1>3, <2>1, SeqMonotonic
<1> HIDE DEF T, a
<1>6. Shards = a \o b
  BY DEF Shards, a, b, S
<1>7. Shards \in Seq(T)
  BY <1>4, <1>5, <1>6, ConcatProperties
<1>8. Len(Shards) \in Nat /\ DOMAIN Shards = 1 .. Len(Shards)
  BY <1>7, LenProperties
<1> QED
  BY <1>8 DEF ShardSet

\* Nothing that is kept moved.
LEMMA NothingMoved ==
  ASSUME Sound(Bundle, handleOf, written),
         UNCHANGED <<pool, recs, rowTier, vramUsed>>, UNCHANGED <<handleOf, written>>
  PROVE  Sound(Bundle', handleOf', written')
<1> DEFINE t == Bundle
           after == Bundle'
<1>1. /\ after = [pool |-> pool, recs |-> recs, rows |-> rowTier, vram |-> vramUsed,
                  fetches |-> fetches', grown |-> TRUE]
      /\ t.pool = pool /\ t.recs = recs /\ t.rows = rowTier /\ t.vram = vramUsed
  BY DEF Bundle
<1>2. /\ after.recs = t.recs /\ after.rows = t.rows
      /\ after = [pool |-> t.pool, recs |-> after.recs, rows |-> after.rows, vram |-> t.vram,
                  fetches |-> after.fetches, grown |-> after.grown]
  BY <1>1
<1> HIDE DEF t, after
<1>3. Sound(t, handleOf, written)
  BY DEF t
<1>4. Sound(after, handleOf, written)
  <2>1. /\ t.recs = [o \in DOMAIN t.recs |-> t.recs[o]] /\ \A o \in DOMAIN t.recs : RecordSound(t.recs[o])
        /\ t.rows = [r \in Rows |-> t.rows[r]] /\ \A r \in Rows : RowSound(t.rows[r])
    BY <1>3 DEF Sound
  <2> QED BY <1>2, <1>3, <2>1, SoundFrame
<1> QED
  BY <1>4 DEF after

\* What a demand names.
LEMMA HeldAreSlots ==
  ASSUME NEW target \in Held
  PROVE  target.class = "slot"
BY DEF Held, SlotTarget

\* A row is named by its number.
LEMMA RowTargets ==
  ASSUME NEW r
  PROVE  RowTarget(r).class = "row" /\ RowTarget(r).at = r
BY DEF RowTarget

\* A verb makes intents a flush can execute.
LEMMA SaneIntents ==
  ASSUME NEW target, target.class \in {"slot", "row"}, target.class = "row" => target.at \in Rows,
         NEW kind, Kind(kind), NEW seq
  PROVE  Sane(Intent(target, kind, seq))
<1>1. /\ Intent(target, kind, seq).target = target /\ Intent(target, kind, seq).kind = kind
      /\ Intent(target, kind, seq) = [target |-> target, kind |-> kind, seq |-> seq]
      /\ Intent(target, kind, seq).seq = seq
  BY DEF Intent
<1> QED
  BY <1>1 DEF Sane

\* What a live target is told to be at is a tier.
LEMMA TiersTyped ==
  ASSUME Sound(Bundle, handleOf, written), NEW target, Live(Bundle, target),
         target.class = "row" => target.at \in Rows
  PROVE  TierNow(target) \in {Disk, Ram, Vram}
<1>1. Bundle.recs = recs /\ Bundle.rows = rowTier
  BY DEF Bundle
<1>2. target.class # "row" => target.at \in DOMAIN recs
  BY <1>1 DEF Live
<1>3. \A o \in DOMAIN recs : TierTells(recs[o])
  BY <1>1 DEF Sound, RecordSound
<1>4. \A r \in Rows : TierTells(rowTier[r])
  BY <1>1 DEF Sound, RowSound
<1> QED
  BY <1>2, <1>3, <1>4 DEF TierNow, TierTells

\* A slot is demanded.
LEMMA TouchSlotKeeps ==
  ASSUME TierInv, NEW target \in Held, NEW through \in Spans, NEW tier \in {Ram, Vram},
         TouchSlot(target, through, tier)
  PROVE  TierInv'
<1> DEFINE t == Bundle
           after == Bundle'
           at == target.at
           rec == recs[at]
           new == [rec EXCEPT !.lastUse = clock]
<1>1. /\ recs' = [recs EXCEPT ![at].lastUse = clock] /\ Live(t, target)
      /\ UNCHANGED <<pool, handleOf, written, rowTier, vramUsed, fetches, flush>>
  BY DEF TouchSlot
<1>2. recs' = [recs EXCEPT ![at] = new]
  BY <1>1
<1>3. target.class = "slot"
  BY HeldAreSlots
<1>4. TierNow(target) \in {Disk, Ram, Vram}
  BY <1>1, <1>3, TiersTyped DEF TierInv
<1>5. PendingSound(pending')
  <2> DEFINE now == recs[at].tier
             effective == IF tier > now THEN tier ELSE now
             kind == SetTo(effective, through)
             intent == Intent(target, kind, clock)
  <2>1. Queue(intent)
    BY DEF TouchSlot
  <2>2. now \in {Disk, Ram, Vram}
    BY <1>3, <1>4 DEF TierNow
  <2>3. effective \in {Disk, Ram, Vram} /\ through \in Nat
    BY <2>2, TierAssumption
  <2> HIDE DEF effective
  <2>4. Kind(kind)
    BY <2>3 DEF Kind, SetTo
  <2> HIDE DEF kind
  <2>5. Sane(intent)
    BY <1>3, <2>4, SaneIntents
  <2> HIDE DEF intent
  <2> QED BY <2>1, <2>5, QueueKeeps DEF TierInv
<1>6. Sound(after, handleOf, written)
  <2>1. t.pool = pool /\ t.recs = recs /\ t.rows = rowTier /\ t.vram = vramUsed
    BY DEF Bundle
  <2>2. at \in DOMAIN recs
    BY <1>1, <1>3, <2>1 DEF Live
  <2>3. Sound(t, handleOf, written)
    BY DEF TierInv
  <2>4. RecordSound(rec)
    BY <2>1, <2>2, <2>3 DEF Sound
  <2>5. after = [pool |-> pool, recs |-> [recs EXCEPT ![at] = new], rows |-> rowTier, vram |-> vramUsed,
                 fetches |-> fetches, grown |-> TRUE]
    BY <1>1, <1>2 DEF Bundle
  <2> DEFINE f == [recs EXCEPT ![at] = new]
  <2>6. after = [pool |-> t.pool, recs |-> f, rows |-> t.rows, vram |-> t.vram,
                 fetches |-> after.fetches, grown |-> after.grown]
    <3> HIDE DEF f, after, t
    <3>1. after = [pool |-> pool, recs |-> f, rows |-> rowTier, vram |-> vramUsed,
                   fetches |-> fetches, grown |-> TRUE]
      BY <2>5 DEF f
    <3> QED BY <2>1, <3>1
  <2>7. rec = [count |-> rec.count, generation |-> rec.generation, lastUse |-> rec.lastUse,
              lastSeq |-> rec.lastSeq, tier |-> rec.tier, data |-> rec.data, box |-> rec.box,
              spilled |-> rec.spilled, units |-> rec.units]
    BY <2>4 DEF RecordSound
  <2>8. f = [t.recs EXCEPT ![at] = new]
    BY <2>1
  <2> HIDE DEF f, after, t, rec
  <2>9. new = [count |-> rec.count, generation |-> rec.generation, lastUse |-> clock,
              lastSeq |-> rec.lastSeq, tier |-> rec.tier, data |-> rec.data, box |-> rec.box,
              spilled |-> rec.spilled, units |-> rec.units]
    BY <2>7
  <2> HIDE DEF new
  <2>10. /\ new = [count |-> new.count, generation |-> new.generation, lastUse |-> new.lastUse,
                   lastSeq |-> new.lastSeq, tier |-> new.tier, data |-> new.data, box |-> new.box,
                   spilled |-> new.spilled, units |-> new.units]
         /\ new.count = rec.count /\ new.data = rec.data /\ new.units = rec.units
         /\ new.tier = rec.tier /\ new.spilled = rec.spilled
    BY <2>9
  <2>11. RecordSound(new)
    <3>1. TierTells(new)
      BY <2>4, <2>10 DEF RecordSound, TierTells
    <3> QED BY <2>4, <2>10, <3>1, RecordFields
  <2>12. at \in DOMAIN t.recs /\ new.units = t.recs[at].units /\ new.count = t.recs[at].count
         /\ new.data = t.recs[at].data
    BY <2>1, <2>2, <2>10 DEF rec
  <2> QED BY <2>3, <2>6, <2>8, <2>11, <2>12, RecordRestated
<1> QED
  BY <1>1, <1>5, <1>6 DEF TierInv

\* A row is demanded.
LEMMA TouchRowKeeps ==
  ASSUME TierInv, NEW r \in Rows, NEW tier \in {Ram, Vram}, TouchRow(r, tier)
  PROVE  TierInv'
<1> DEFINE t == Bundle
           after == Bundle'
           row == rowTier[r]
           yes == TRUE
           stamp == clock
           new == [row EXCEPT !.present = yes, !.lastUse = stamp]
           g == [rowTier EXCEPT ![r] = new]
<1>1. /\ rowTier' = [rowTier EXCEPT ![r] = [@ EXCEPT !.present = TRUE, !.lastUse = clock]]
      /\ UNCHANGED <<pool, handleOf, written, recs, vramUsed, fetches, flush>>
  BY DEF TouchRow
<1>2. rowTier' = g
  BY <1>1
<1>3. t.pool = pool /\ t.recs = recs /\ t.rows = rowTier /\ t.vram = vramUsed
  BY DEF Bundle
<1>4. Sound(t, handleOf, written)
  BY DEF TierInv
<1>5. RowSound(row)
  BY <1>3, <1>4 DEF Sound
<1>6. PendingSound(pending')
  <2> DEFINE now == rowTier[r].tier
             effective == IF tier > now THEN tier ELSE now
             kind == SetTo(effective, WholeSpan)
             target == RowTarget(r)
             intent == Intent(target, kind, clock)
  <2>1. Queue(intent)
    BY DEF TouchRow
  <2>2. now \in {Disk, Ram, Vram}
    BY <1>5 DEF RowSound, TierTells
  <2>3. effective \in {Disk, Ram, Vram} /\ WholeSpan \in Nat
    BY <2>2 DEF WholeSpan
  <2> HIDE DEF effective
  <2>4. Kind(kind)
    BY <2>3 DEF Kind, SetTo
  <2>5. target.class = "row" /\ target.at = r
    BY RowTargets
  <2> HIDE DEF kind, target
  <2>6. Sane(intent)
    BY <2>4, <2>5, SaneIntents
  <2> HIDE DEF intent
  <2> QED BY <2>1, <2>6, QueueKeeps DEF TierInv
<1>7. Sound(after, handleOf, written)
  <2>1. after = [pool |-> pool, recs |-> recs, rows |-> g, vram |-> vramUsed,
                 fetches |-> fetches, grown |-> TRUE]
    BY <1>1, <1>2 DEF Bundle
  <2>2. row = [present |-> row.present, tier |-> row.tier, generation |-> row.generation,
              lastUse |-> row.lastUse, lastSeq |-> row.lastSeq, units |-> row.units,
              spilled |-> row.spilled]
    BY <1>5 DEF RowSound
  <2>3. g = [t.rows EXCEPT ![r] = new]
    BY <1>3
  <2> HIDE DEF g, after, t, row, yes, stamp
  <2>4. after = [pool |-> t.pool, recs |-> t.recs, rows |-> g, vram |-> t.vram,
                 fetches |-> after.fetches, grown |-> after.grown]
    BY <1>3, <2>1
  <2>5. new = [present |-> yes, tier |-> row.tier, generation |-> row.generation,
              lastUse |-> stamp, lastSeq |-> row.lastSeq, units |-> row.units,
              spilled |-> row.spilled]
    <3> DEFINE seen == [row EXCEPT !.present = yes]
    <3>1. seen = [present |-> yes, tier |-> row.tier, generation |-> row.generation,
                  lastUse |-> row.lastUse, lastSeq |-> row.lastSeq, units |-> row.units,
                  spilled |-> row.spilled]
      BY <2>2
    <3>2. new = [seen EXCEPT !.lastUse = stamp]
      OBVIOUS
    <3> HIDE DEF seen, new
    <3>3. [seen EXCEPT !.lastUse = stamp] =
            [present |-> yes, tier |-> row.tier, generation |-> row.generation,
             lastUse |-> stamp, lastSeq |-> row.lastSeq, units |-> row.units,
             spilled |-> row.spilled]
      BY <3>1
    <3> QED BY <3>2, <3>3
  <2> HIDE DEF new
  <2>6. /\ new = [present |-> new.present, tier |-> new.tier, generation |-> new.generation,
                  lastUse |-> new.lastUse, lastSeq |-> new.lastSeq, units |-> new.units,
                  spilled |-> new.spilled]
        /\ new.units = row.units /\ new.tier = row.tier /\ new.spilled = row.spilled
    BY <2>5
  <2>7. RowSound(new)
    <3>1. TierTells(new) /\ new.units \subseteq {RowUnit}
      BY <1>5, <2>6 DEF RowSound, TierTells
    <3> QED BY <1>5, <2>6, <3>1, RowFields
  <2>8. new.units = t.rows[r].units
    BY <1>3, <2>6 DEF row
  <2> QED BY <1>4, <2>3, <2>4, <2>7, <2>8, RowRestated
<1> QED
  BY <1>1, <1>6, <1>7 DEF TierInv

\* A demand is withdrawn.
LEMMA ReleaseTierKeeps ==
  ASSUME TierInv, NEW target, target.class \in {"slot", "row"}, target.class = "row" => target.at \in Rows,
         NEW through \in Spans, ReleaseTier(target, through)
  PROVE  TierInv'
<1>1. UNCHANGED <<pool, recs, rowTier, vramUsed, fetches, handleOf, written, flush>>
  BY DEF ReleaseTier, placed
<1>2. Sound(Bundle', handleOf', written')
  BY <1>1, NothingMoved DEF TierInv
<1>3. Live(Bundle, target)
  BY DEF ReleaseTier
<1> DEFINE now == TierNow(target)
<1>4. now \in {Disk, Ram, Vram}
  BY <1>3, TiersTyped DEF TierInv
<1>5. PICK kind \in ReleaseKind(target, now, through) : Queue(Intent(target, kind, clock))
  BY DEF ReleaseTier
<1> HIDE DEF now
<1>6. Kind(kind)
  <2>1. through \in Nat /\ WholeSpan \in Nat
    BY TierAssumption DEF WholeSpan
  <2>2. \A n : Kind(DemoteAbove(n)) <=> n \in Nat
    BY DEF Kind, DemoteAbove
  <2>3. \A tier : Kind(SetTo(tier, WholeSpan)) <=> tier \in {Disk, Ram, Vram}
    BY <2>1 DEF Kind, SetTo
  <2>4. now # Disk => now - 1 \in {Disk, Ram, Vram}
    BY <1>4 DEF Disk, Ram, Vram
  <2>5. \/ kind = DemoteAbove(through)
        \/ kind = SetTo(now - 1, WholeSpan) /\ now # Disk
        \/ kind = SetTo(now, WholeSpan)
    BY <1>5 DEF ReleaseKind
  <2> QED BY <1>4, <2>1, <2>2, <2>3, <2>4, <2>5
<1>7. PendingSound(pending')
  <2>1. Sane(Intent(target, kind, clock))
    BY <1>6, SaneIntents
  <2> QED BY <1>5, <2>1, QueueKeeps DEF TierInv
<1> QED
  BY <1>1, <1>2, <1>7 DEF TierInv

\* What a reader peeked is only told.
LEMMA PeekResidentKeeps ==
  ASSUME TierInv, NEW target, PeekResident(target)
  PROVE  TierInv'
<1>1. UNCHANGED <<pool, recs, rowTier, vramUsed, fetches, handleOf, written, flush, pending>>
  BY DEF PeekResident, placed
<1>2. Sound(Bundle', handleOf', written')
  BY <1>1, NothingMoved DEF TierInv
<1> QED
  BY <1>1, <1>2 DEF TierInv

\* A spilled payload is asked for.
LEMMA PeekSpilledKeeps ==
  ASSUME TierInv, NEW target, target.class \in {"slot", "row"}, target.class = "row" => target.at \in Rows,
         PeekSpilled(target)
  PROVE  TierInv'
<1>1. UNCHANGED <<pool, recs, rowTier, vramUsed, handleOf, written, flush>>
  BY DEF PeekSpilled
<1>2. Sound(Bundle', handleOf', written')
  BY <1>1, NothingMoved DEF TierInv
<1>3. PendingSound(pending')
  <2>1. Queue(Intent(target, Unspill, clock))
    BY DEF PeekSpilled
  <2>2. Kind(Unspill)
    BY DEF Kind, Unspill, WholeSpan
  <2>3. Sane(Intent(target, Unspill, clock))
    BY <2>2, SaneIntents
  <2> QED BY <2>1, <2>3, QueueKeeps DEF TierInv
<1> QED
  BY <1>1, <1>2, <1>3 DEF TierInv

\* A fetch is consumed.
LEMMA CompleteFetchKeeps ==
  ASSUME TierInv, NEW i, CompleteFetch(i)
  PROVE  TierInv'
<1>1. UNCHANGED <<pool, recs, rowTier, vramUsed, handleOf, written, flush, pending>>
  BY DEF CompleteFetch
<1>2. Sound(Bundle', handleOf', written')
  BY <1>1, NothingMoved DEF TierInv
<1> QED
  BY <1>1, <1>2 DEF TierInv

\* What a write leaves of the records.
LEMMA RecordsLeft ==
  ASSUME NEW f, IsFiniteSet(DOMAIN f), NEW x
  PROVE  LET left == RecordsWithout(f, x)
         IN /\ IsFiniteSet(DOMAIN left) /\ left = [o \in DOMAIN left |-> left[o]]
            /\ \A o \in DOMAIN left : o \in DOMAIN f /\ left[o] = f[o]
<1> DEFINE left == RecordsWithout(f, x)
           D == DOMAIN f \ {x}
<1>1. IsFiniteSet(D)
  BY FS_Subset
<1> HIDE DEF D
<1>2. left = [o \in D |-> f[o]]
  BY DEF RecordsWithout, D
<1> HIDE DEF left
<1>3. DOMAIN left = D /\ \A o \in D : left[o] = f[o]
  BY <1>2
<1>4. left = [o \in DOMAIN left |-> left[o]]
  BY <1>2, <1>3
<1> QED
  BY <1>1, <1>3, <1>4 DEF left, D

\* A payload, and a record of it that has nothing resident.
LEMMA FreshRecordSound ==
  ASSUME NEW data \in Payloads, data # <<>>, NEW box
  PROVE  RecordSound(FreshRecord(data, box)) /\ FreshRecord(data, box).units = {}
<1> DEFINE none == {}
           no == FALSE
           new == FreshRecord(data, box)
           n == Len(data)
           plan == ExecutionPlan(n)
<1>1. new = [count |-> n, generation |-> nextGen, lastUse |-> clock, lastSeq |-> 0,
             tier |-> Ram, data |-> data, box |-> box, spilled |-> no, units |-> none]
  BY DEF FreshRecord
<1>2. PlanSound(plan, n)
  BY PlanOfPayload
<1>3. FirstUnits(plan, none, 0)
  <2> HIDE DEF plan
  <2>1. 0 \in 0 .. Len(plan)
    BY <1>2 DEF PlanSound
  <2> DEFINE at == [i \in 1 .. 0 |-> 0]
  <2>2. at \in [1 .. 0 -> Nat] /\ {PlacedUnit(plan, at, i) : i \in 1 .. 0} = none
    OBVIOUS
  <2> HIDE DEF at, none
  <2> QED BY <2>1, <2>2 DEF FirstUnits
<1>4. ~no /\ no \in BOOLEAN /\ none = {}
  OBVIOUS
<1> HIDE DEF new, none, no
<1>5. /\ new = [count |-> new.count, generation |-> new.generation, lastUse |-> new.lastUse,
                lastSeq |-> new.lastSeq, tier |-> new.tier, data |-> new.data, box |-> new.box,
                spilled |-> new.spilled, units |-> new.units]
      /\ new.data = data /\ new.count = n /\ new.tier = Ram /\ new.spilled = no /\ new.units = none
  BY <1>1
<1>6. TierTells(new)
  <2>1. new.spilled \in BOOLEAN /\ ~new.spilled
    BY <1>4, <1>5
  <2>2. new.tier # Disk /\ new.tier # Vram /\ new.tier \in {Disk, Ram, Vram} /\ new.units = {}
    BY <1>4, <1>5 DEF Disk, Ram, Vram
  <2> QED BY <2>1, <2>2 DEF TierTells
<1>7. \E k \in Nat : FirstUnits(ExecutionPlan(new.count), new.units, k)
  <2>1. ExecutionPlan(new.count) = plan /\ new.units = none /\ 0 \in Nat
    BY <1>5
  <2> HIDE DEF plan
  <2> QED BY <1>3, <2>1
<1>8. RecordSound(new)
  BY <1>5, <1>6, <1>7 DEF RecordSound
<1> QED
  BY <1>4, <1>5, <1>8 DEF new

\* What an entity may write is a payload.
LEMMA PayloadTyped ==
  ASSUME NEW data \in Payloads
  PROVE  IsPayload(data)
BY TierAssumption DEF IsPayload

\* An entity's payload is written.
LEMMA WritePayloadKeeps ==
  ASSUME TierInv, NEW e \in PoolOwners, NEW data \in Payloads, WritePayload(e, data)
  PROVE  TierInv'
<1> DEFINE t == Bundle
           after == Bundle'
           prev == handleOf[e]
           w == WriteVarRow(pool, prev, data)
           left == IF prev.count > 0 THEN RecordsWithout(recs, prev.offset) ELSE recs
           new == FreshRecord(data, BoxFor(prev, Len(data)))
           at == w.handle.offset
           f == [o \in DOMAIN left \cup {at} |-> IF o = at THEN new ELSE left[o]]
<1>1. /\ data # <<>> /\ Writable(pool, prev, data)
      /\ pool' = w.pool /\ handleOf' = [handleOf EXCEPT ![e] = w.handle]
      /\ written' = [written EXCEPT ![e] = data] /\ recs' = f
      /\ UNCHANGED <<rowTier, vramUsed, fetches, pending, flush>>
  BY DEF WritePayload
<1>2. t.pool = pool /\ t.recs = recs /\ t.rows = rowTier /\ t.vram = vramUsed
  BY DEF Bundle
<1>3. Sound(t, handleOf, written) /\ ColumnsSound(handleOf, written)
  BY DEF TierInv
<1>4. IsFiniteSet(DOMAIN recs) /\ recs = [o \in DOMAIN recs |-> recs[o]]
      /\ \A o \in DOMAIN recs : RecordSound(recs[o])
  BY <1>2, <1>3 DEF Sound
<1>5. RecordSound(new) /\ new.units = {}
  BY <1>1, FreshRecordSound
<1>6. IsFiniteSet(DOMAIN left) /\ \A o \in DOMAIN left : o \in DOMAIN recs /\ left[o] = recs[o]
  <2>1. LET l == RecordsWithout(recs, prev.offset)
        IN IsFiniteSet(DOMAIN l) /\ \A o \in DOMAIN l : o \in DOMAIN recs /\ l[o] = recs[o]
    BY <1>4, RecordsLeft
  <2> QED BY <1>4, <2>1
<1> HIDE DEF left, new, at
<1>7. /\ IsFiniteSet(DOMAIN f) /\ f = [o \in DOMAIN f |-> f[o]]
      /\ \A o \in DOMAIN f : /\ RecordSound(f[o])
                             /\ f[o].units = {} \/ (o \in DOMAIN t.recs /\ f[o] = t.recs[o])
  <2>1. IsFiniteSet(DOMAIN left \cup {at})
    BY <1>6, FS_AddElement
  <2>2. DOMAIN f = DOMAIN left \cup {at} /\ f[at] = new
        /\ \A o \in DOMAIN left : o # at => f[o] = left[o]
    OBVIOUS
  <2>3. f = [o \in DOMAIN f |-> f[o]]
    BY <2>2
  <2> HIDE DEF f, t
  <2>4. ASSUME NEW o \in DOMAIN f
        PROVE  /\ RecordSound(f[o])
               /\ f[o].units = {} \/ (o \in DOMAIN t.recs /\ f[o] = t.recs[o])
    <3>1. CASE o = at
      BY <1>5, <2>2, <3>1
    <3>2. CASE o # at
      <4>1. o \in DOMAIN recs /\ f[o] = recs[o]
        BY <1>6, <2>2, <3>2
      <4> QED BY <1>2, <1>4, <4>1
    <3> QED BY <3>1, <3>2
  <2> QED BY <2>1, <2>2, <2>3, <2>4
<1> HIDE DEF f
<1>8. after = [pool |-> WriteVarRow(t.pool, handleOf[e], data).pool, recs |-> f, rows |-> t.rows,
               vram |-> t.vram, fetches |-> after.fetches, grown |-> after.grown]
  <2> DEFINE q == w.pool
  <2>1. after = [pool |-> q, recs |-> f, rows |-> rowTier, vram |-> vramUsed,
                 fetches |-> fetches, grown |-> TRUE]
    BY <1>1 DEF Bundle
  <2>2. q = WriteVarRow(t.pool, handleOf[e], data).pool
    BY <1>2
  <2> HIDE DEF q, after, t
  <2>3. after = [pool |-> q, recs |-> f, rows |-> t.rows, vram |-> t.vram,
                 fetches |-> after.fetches, grown |-> after.grown]
    BY <1>2, <2>1
  <2> QED BY <2>2, <2>3
<1>9. IsPayload(data) /\ Writable(t.pool, handleOf[e], data)
  BY <1>1, <1>2, PayloadTyped
<1>10. Sound(after, [handleOf EXCEPT ![e] = WriteVarRow(t.pool, handleOf[e], data).handle],
             [written EXCEPT ![e] = data])
  <2> HIDE DEF after, t
  <2> QED BY <1>3, <1>7, <1>8, <1>9, PayloadRewritten DEF ColumnsSound
<1>11. Sound(after, handleOf', written')
  <2>1. handleOf' = [handleOf EXCEPT ![e] = WriteVarRow(t.pool, handleOf[e], data).handle]
    BY <1>1, <1>2
  <2> HIDE DEF after, t
  <2> QED BY <1>1, <1>10, <2>1
<1>12. ColumnsSound(handleOf', written')
  <2> HIDE DEF w
  <2> QED BY <1>1, <1>3 DEF ColumnsSound
<1> QED
  BY <1>1, <1>11, <1>12 DEF TierInv

\* What an empty write and the despawn hook come to.
LEMMA PayloadGone ==
  ASSUME TierInv, NEW e \in PoolOwners, NEW x,
         pool' = WriteVarRow(pool, handleOf[e], <<>>).pool,
         handleOf' = [handleOf EXCEPT ![e] = NoHandleRange],
         written' = [written EXCEPT ![e] = <<>>],
         recs' = RecordsWithout(recs, x),
         UNCHANGED <<rowTier, vramUsed, fetches, pending, flush>>
  PROVE  TierInv'
<1> DEFINE t == Bundle
           after == Bundle'
           data == <<>>
           f == RecordsWithout(recs, x)
           w == WriteVarRow(pool, handleOf[e], data)
<1>1. t.pool = pool /\ t.recs = recs /\ t.rows = rowTier /\ t.vram = vramUsed
  BY DEF Bundle
<1>2. Sound(t, handleOf, written) /\ ColumnsSound(handleOf, written)
  BY DEF TierInv
<1>3. IsFiniteSet(DOMAIN recs) /\ \A o \in DOMAIN recs : RecordSound(recs[o])
  BY <1>1, <1>2 DEF Sound
<1>4. /\ IsFiniteSet(DOMAIN f) /\ f = [o \in DOMAIN f |-> f[o]]
      /\ \A o \in DOMAIN f : /\ RecordSound(f[o])
                             /\ f[o].units = {} \/ (o \in DOMAIN t.recs /\ f[o] = t.recs[o])
  <2>1. /\ IsFiniteSet(DOMAIN f) /\ f = [o \in DOMAIN f |-> f[o]]
        /\ \A o \in DOMAIN f : o \in DOMAIN recs /\ f[o] = recs[o]
    BY <1>3, RecordsLeft
  <2> HIDE DEF f, t
  <2> QED BY <1>1, <1>3, <2>1
<1>5. w.handle = NoHandleRange /\ IsPayload(data) /\ Writable(t.pool, handleOf[e], data)
  BY DEF WriteVarRow, Writable, IsPayload
<1>6. pool' = w.pool
  OBVIOUS
<1> HIDE DEF f, data
<1>7. after = [pool |-> WriteVarRow(t.pool, handleOf[e], data).pool, recs |-> f, rows |-> t.rows,
               vram |-> t.vram, fetches |-> after.fetches, grown |-> after.grown]
  <2> DEFINE q == w.pool
  <2>1. recs' = f
    BY DEF f
  <2>2. after = [pool |-> q, recs |-> f, rows |-> rowTier, vram |-> vramUsed,
                 fetches |-> fetches, grown |-> TRUE]
    BY <1>6, <2>1 DEF Bundle
  <2>3. q = WriteVarRow(t.pool, handleOf[e], data).pool
    BY <1>1
  <2> HIDE DEF q, after, t
  <2>4. after = [pool |-> q, recs |-> f, rows |-> t.rows, vram |-> t.vram,
                 fetches |-> after.fetches, grown |-> after.grown]
    BY <1>1, <2>2
  <2> QED BY <2>3, <2>4
<1>8. Sound(after, [handleOf EXCEPT ![e] = WriteVarRow(t.pool, handleOf[e], data).handle],
            [written EXCEPT ![e] = data])
  <2> HIDE DEF after, t
  <2> QED BY <1>2, <1>4, <1>5, <1>7, PayloadRewritten DEF ColumnsSound
<1>9. Sound(after, handleOf', written')
  <2>1. handleOf' = [handleOf EXCEPT ![e] = WriteVarRow(t.pool, handleOf[e], data).handle]
    BY <1>1, <1>5
  <2>2. written' = [written EXCEPT ![e] = data]
    BY DEF data
  <2> HIDE DEF after, t
  <2> QED BY <1>8, <2>1, <2>2
<1>10. ColumnsSound(handleOf', written')
  BY <1>2 DEF ColumnsSound
<1> QED
  BY <1>9, <1>10 DEF TierInv

\* An entity writes an empty payload.
LEMMA WriteEmptyKeeps ==
  ASSUME TierInv, NEW e \in PoolOwners, WriteEmpty(e)
  PROVE  TierInv'
<1>1. /\ pool' = WriteVarRow(pool, handleOf[e], <<>>).pool
      /\ handleOf' = [handleOf EXCEPT ![e] = NoHandleRange]
      /\ written' = [written EXCEPT ![e] = <<>>]
      /\ recs' = RecordsWithout(recs, handleOf[e].offset)
      /\ UNCHANGED <<rowTier, vramUsed, fetches, pending, flush>>
  BY DEF WriteEmpty
<1> QED
  BY <1>1, PayloadGone

\* An entity is despawned.
LEMMA FreePayloadKeeps ==
  ASSUME TierInv, NEW e \in PoolOwners, FreePayload(e)
  PROVE  TierInv'
<1>1. /\ pool' = Release(pool, handleOf[e])
      /\ handleOf' = [handleOf EXCEPT ![e] = NoHandleRange]
      /\ written' = [written EXCEPT ![e] = <<>>]
      /\ recs' = RecordsWithout(recs, handleOf[e].offset)
      /\ UNCHANGED <<rowTier, vramUsed, fetches, pending, flush>>
  BY DEF FreePayload
<1>2. WriteVarRow(pool, handleOf[e], <<>>).pool = Release(pool, handleOf[e])
  BY DEF WriteVarRow
<1> QED
  BY <1>1, <1>2, PayloadGone

\* A payload is written over in place.
LEMMA OverwritePayloadKeeps ==
  ASSUME TierInv, NEW e \in PoolOwners, NEW data \in Payloads, OverwritePayload(e, data)
  PROVE  TierInv'
<1> DEFINE t == Bundle
           after == Bundle'
           q == WritePadded(pool, handleOf[e].offset, data)
<1>1. /\ Len(data) = handleOf[e].count /\ pool' = q /\ written' = [written EXCEPT ![e] = data]
      /\ UNCHANGED <<handleOf, recs, rowTier, vramUsed, fetches, pending, flush>>
  BY DEF OverwritePayload
<1>2. t.pool = pool /\ t.recs = recs /\ t.rows = rowTier /\ t.vram = vramUsed
  BY DEF Bundle
<1>3. Sound(t, handleOf, written) /\ ColumnsSound(handleOf, written)
  BY DEF TierInv
<1>4. after = [pool |-> WritePadded(t.pool, handleOf[e].offset, data), recs |-> t.recs, rows |-> t.rows,
               vram |-> t.vram, fetches |-> after.fetches, grown |-> after.grown]
  <2>1. after = [pool |-> q, recs |-> recs, rows |-> rowTier, vram |-> vramUsed,
                 fetches |-> fetches, grown |-> TRUE]
    BY <1>1 DEF Bundle
  <2>2. q = WritePadded(t.pool, handleOf[e].offset, data)
    BY <1>2
  <2> HIDE DEF q, after, t
  <2>3. after = [pool |-> q, recs |-> t.recs, rows |-> t.rows, vram |-> t.vram,
                 fetches |-> after.fetches, grown |-> after.grown]
    BY <1>2, <2>1
  <2> QED BY <2>2, <2>3
<1>5. IsPayload(data)
  BY PayloadTyped
<1>6. Sound(after, handleOf, [written EXCEPT ![e] = data])
  <2> HIDE DEF after, t
  <2> QED BY <1>1, <1>3, <1>4, <1>5, PayloadOverwritten DEF ColumnsSound
<1>7. Sound(after, handleOf', written')
  <2> HIDE DEF after
  <2> QED BY <1>1, <1>6
<1>8. ColumnsSound(handleOf', written')
  BY <1>1, <1>3 DEF ColumnsSound
<1> QED
  BY <1>1, <1>7, <1>8 DEF TierInv

\* A shard is drained.
LEMMA DrainShardKeeps ==
  ASSUME TierInv, DrainShard
  PROVE  TierInv'
<1>1. UNCHANGED <<pool, recs, rowTier, vramUsed, fetches, handleOf, written>>
  BY DEF DrainShard, placed
<1>2. Sound(Bundle', handleOf', written')
  BY <1>1, NothingMoved DEF TierInv
<1>3. PICK n \in NonEmptyFrom(flush.next) :
        /\ flush' = [pc |-> "shards", next |-> n + 1, shard |-> Shards[n],
                     work |-> pending[Shards[n]], group |-> <<>>]
        /\ pending' = [pending EXCEPT ![Shards[n]] = <<>>]
  BY DEF DrainShard
<1> DEFINE at == Shards[n]
<1>4. n \in Nat \ {0} /\ at \in ShardSet
  <2>1. flush.next \in Nat \ {0}
    BY DEF TierInv, FlushSound
  <2>2. Len(Shards) \in Nat
    BY ShardsListed
  <2>3. n \in flush.next .. Len(Shards)
    BY DEF NonEmptyFrom
  <2>4. n \in 1 .. Len(Shards)
    BY <2>1, <2>2, <2>3
  <2> QED BY <2>4, ShardsListed
<1> HIDE DEF at
<1>5. pending = [s \in ShardSet |-> pending[s]] /\ \A s \in ShardSet : IsBatch(pending[s])
  BY DEF TierInv, PendingSound
<1>6. FlushSound(flush')
  <2> DEFINE work == pending[at]
  <2>1. IsBatch(work)
    BY <1>4, <1>5
  <2>2. flush' = [pc |-> "shards", next |-> n + 1, shard |-> at, work |-> work, group |-> <<>>]
    BY <1>3 DEF at
  <2> HIDE DEF work
  <2>3. /\ flush' = [pc |-> flush'.pc, next |-> flush'.next, shard |-> flush'.shard,
                     work |-> flush'.work, group |-> flush'.group]
        /\ flush'.next = n + 1 /\ flush'.work = work /\ flush'.group = <<>>
    BY <2>2
  <2>4. n + 1 \in Nat \ {0}
    BY <1>4
  <2> QED BY <2>1, <2>3, <2>4, EmptyBatch DEF FlushSound
<1>7. PendingSound(pending')
  <2>1. pending' = [pending EXCEPT ![at] = <<>>]
    BY <1>3 DEF at
  <2>2. /\ pending' = [s \in ShardSet |-> pending'[s]]
        /\ \A s \in ShardSet : pending'[s] = IF s = at THEN <<>> ELSE pending[s]
    BY <1>5, <2>1
  <2>3. \A s \in ShardSet : IsBatch(pending'[s])
    BY <1>5, <2>2, EmptyBatch
  <2> QED BY <2>2, <2>3 DEF PendingSound
<1> QED
  BY <1>1, <1>2, <1>6, <1>7 DEF TierInv

\* The first of a batch and the others.
LEMMA BatchTaken ==
  ASSUME NEW b, IsBatch(b), b # <<>>
  PROVE  Sane(Head(b)) /\ IsBatch(Tail(b))
<1>1. PICK S : b \in Seq(S) /\ \A y \in S : Sane(y)
  BY DEF IsBatch
<1>2. Head(b) \in S /\ Tail(b) \in Seq(S)
  BY <1>1, HeadTailProperties
<1> QED
  BY <1>1, <1>2 DEF IsBatch

\* An intent is executed, cancelled, or waits for ever.
LEMMA ExecuteIntentKeeps ==
  ASSUME TierInv, ExecuteIntent
  PROVE  TierInv'
<1> DEFINE t == Bundle
           intent == Head(Group)
           after == AfterIntent(t, intent)
<1>1. /\ after.grown /\ TakenFrom(after) /\ ~Drained
      /\ flush' = IF Hangs(t, intent) THEN [flush EXCEPT !.pc = "hung"]
                  ELSE [flush EXCEPT !.work = RestOfWork, !.group = Tail(Group),
                          !.shard = IF RestOfWork = <<>> /\ Tail(Group) = <<>> THEN NoShard ELSE @]
      /\ UNCHANGED <<handleOf, written, pending>>
  BY DEF ExecuteIntent
<1>2. IsBatch(flush.work) /\ IsBatch(flush.group)
  BY DEF TierInv, FlushSound
<1>3. IsBatch(Group) /\ Group # <<>> /\ IsBatch(RestOfWork)
  <2>1. CASE flush.group # <<>>
    BY <1>2, <2>1 DEF Group, RestOfWork
  <2>2. CASE flush.group = <<>>
    <3> DEFINE b == flush.work
    <3>1. b # <<>>
      BY <1>1, <2>2 DEF Drained
    <3>2. Group = Claimed(Retained(b, Fellows(b))) /\ RestOfWork = Retained(b, DOMAIN b \ Fellows(b))
      BY <2>2 DEF Group, RestOfWork
    <3> HIDE DEF b
    <3>3. IsBatch(b)
      BY <1>2 DEF b
    <3>4. LET g == Claimed(Retained(b, Fellows(b))) IN IsBatch(g) /\ g # <<>>
      BY <3>1, <3>3, GroupTaken
    <3>5. IsBatch(Retained(b, DOMAIN b \ Fellows(b)))
      BY <3>3, BatchSplits
    <3> QED BY <3>2, <3>4, <3>5
  <2> QED BY <2>1, <2>2
<1>4. Sane(intent) /\ IsBatch(Tail(Group))
  BY <1>3, BatchTaken
<1>5. Sound(after, handleOf, written)
  <2>1. Sound(t, handleOf, written)
    BY DEF TierInv
  <2> HIDE DEF t, intent
  <2> QED BY <1>4, <2>1, AfterIntentKeeps
<1> HIDE DEF after
<1>6. Sound(Bundle', handleOf, written)
  <2> DEFINE u == Bundle'
  <2>1. u = [pool |-> after.pool, recs |-> after.recs, rows |-> after.rows, vram |-> after.vram,
             fetches |-> after.fetches, grown |-> TRUE]
    BY <1>1 DEF TakenFrom, Bundle
  <2> HIDE DEF u
  <2>2. /\ u.recs = after.recs /\ u.rows = after.rows
        /\ u = [pool |-> after.pool, recs |-> u.recs, rows |-> u.rows, vram |-> after.vram,
                fetches |-> u.fetches, grown |-> u.grown]
    BY <2>1
  <2>3. /\ after.recs = [o \in DOMAIN after.recs |-> after.recs[o]]
        /\ \A o \in DOMAIN after.recs : RecordSound(after.recs[o])
        /\ after.rows = [r \in Rows |-> after.rows[r]] /\ \A r \in Rows : RowSound(after.rows[r])
    BY <1>5 DEF Sound
  <2>4. Sound(u, handleOf, written)
    BY <1>5, <2>2, <2>3, SoundFrame
  <2> QED BY <2>4 DEF u
<1>7. FlushSound(flush')
  <2>1. flush = [pc |-> flush.pc, next |-> flush.next, shard |-> flush.shard, work |-> flush.work,
                 group |-> flush.group] /\ flush.next \in Nat \ {0}
    BY DEF TierInv, FlushSound
  <2>2. CASE Hangs(t, intent)
    <3> DEFINE f == [flush EXCEPT !.pc = "hung"]
    <3>1. flush' = f
      BY <1>1, <2>2
    <3>2. f = [pc |-> "hung", next |-> flush.next, shard |-> flush.shard, work |-> flush.work,
               group |-> flush.group]
      BY <2>1
    <3> HIDE DEF f
    <3>3. /\ f = [pc |-> f.pc, next |-> f.next, shard |-> f.shard, work |-> f.work, group |-> f.group]
          /\ f.next = flush.next /\ f.work = flush.work /\ f.group = flush.group
      BY <3>2
    <3> QED BY <1>2, <2>1, <3>1, <3>3 DEF FlushSound
  <2>3. CASE ~Hangs(t, intent)
    <3> DEFINE rest == RestOfWork
               tail == Tail(Group)
               held == IF rest = <<>> /\ tail = <<>> THEN NoShard ELSE flush.shard
               f == flush'
    <3>1. f = [flush EXCEPT !.work = rest, !.group = tail, !.shard = held]
      BY <1>1, <2>3
    <3>2. IsBatch(rest) /\ IsBatch(tail)
      BY <1>3, <1>4
    <3> HIDE DEF rest, tail, held, f
    <3>3. f = [pc |-> flush.pc, next |-> flush.next, shard |-> held, work |-> rest, group |-> tail]
      BY <2>1, <3>1
    <3>4. /\ f = [pc |-> f.pc, next |-> f.next, shard |-> f.shard, work |-> f.work, group |-> f.group]
          /\ f.next = flush.next /\ f.work = rest /\ f.group = tail
      BY <3>3
    <3>5. FlushSound(f)
      BY <2>1, <3>2, <3>4 DEF FlushSound
    <3> QED BY <3>5 DEF f
  <2> QED BY <2>2, <2>3
<1> QED
  BY <1>1, <1>6, <1>7 DEF TierInv

\* Pressure on the staging arena exports one record.
LEMMA SpillOldestKeeps ==
  ASSUME TierInv, SpillOldest
  PROVE  TierInv'
<1> DEFINE t == Bundle
           f == [AtRest EXCEPT !.pc = "reconcile"]
<1>1. /\ flush' = f
      /\ UNCHANGED <<pool, handleOf, written, rowTier, vramUsed, fetches, pending>>
  BY DEF SpillOldest
<1>2. PICK oldest \in StagingCandidates : recs' = SpillSlot(t, oldest).recs
  BY DEF SpillOldest
<1>3. t.recs = recs /\ t = [pool |-> pool, recs |-> recs, rows |-> rowTier, vram |-> vramUsed,
                            fetches |-> fetches, grown |-> TRUE]
  BY DEF Bundle
<1>4. oldest \in DOMAIN recs /\ ~recs[oldest].spilled /\ recs[oldest].units = {}
  BY DEF StagingCandidates, StagedBoxes
<1>5. Sound(t, handleOf, written)
  BY DEF TierInv
<1>6. t.recs[oldest].tier # Vram
  <2>1. TierTells(recs[oldest])
    BY <1>3, <1>4, <1>5 DEF Sound, RecordSound
  <2> QED BY <1>3, <1>4, <2>1 DEF TierTells
<1> DEFINE down == SpillSlot(t, oldest)
<1>7. Sound(down, handleOf, written)
  <2> HIDE DEF t
  <2> QED BY <1>3, <1>4, <1>5, <1>6, SpillKeeps
<1>8. Bundle' = down
  <2> DEFINE rec == recs[oldest]
             new == [rec EXCEPT !.spilled = TRUE, !.tier = Disk, !.generation = @ + 1]
             more == [recs EXCEPT ![oldest] = new]
             yes == TRUE
  <2>1. down = [t EXCEPT !.recs[oldest] = new]
    BY <1>3, <1>4 DEF SpillSlot
  <2>2. down = [t EXCEPT !.recs = more]
    BY <1>3, <2>1
  <2>3. t = [pool |-> pool, recs |-> recs, rows |-> rowTier, vram |-> vramUsed,
             fetches |-> fetches, grown |-> yes]
    BY <1>3
  <2> HIDE DEF down, more, t, yes
  <2>4. down = [pool |-> pool, recs |-> more, rows |-> rowTier, vram |-> vramUsed,
                fetches |-> fetches, grown |-> yes]
    BY <2>2, <2>3
  <2>5. recs' = more
    BY <1>2, <2>4 DEF down
  <2> QED BY <1>1, <2>4, <2>5 DEF Bundle, yes
<1>9. FlushSound(flush')
  <2>1. f = [pc |-> "reconcile", next |-> 1, shard |-> NoShard, work |-> <<>>, group |-> <<>>]
    BY DEF AtRest
  <2> HIDE DEF f
  <2>2. /\ f = [pc |-> f.pc, next |-> f.next, shard |-> f.shard, work |-> f.work, group |-> f.group]
        /\ f.next = 1 /\ f.work = <<>> /\ f.group = <<>>
    BY <2>1
  <2> QED BY <1>1, <2>2, EmptyBatch DEF FlushSound
<1> QED
  BY <1>1, <1>7, <1>8, <1>9 DEF TierInv

\* A flush that has not begun holds no intent.
LEMMA AtRestSound == FlushSound(AtRest)
<1>1. /\ AtRest = [pc |-> AtRest.pc, next |-> AtRest.next, shard |-> AtRest.shard,
                   work |-> AtRest.work, group |-> AtRest.group]
      /\ AtRest.next = 1 /\ AtRest.work = <<>> /\ AtRest.group = <<>>
  BY DEF AtRest
<1> QED
  BY <1>1, EmptyBatch DEF FlushSound

\* The flush is over.
LEMMA EndFlushKeeps ==
  ASSUME TierInv, EndFlush
  PROVE  TierInv'
<1>1. /\ UNCHANGED <<pool, recs, rowTier, vramUsed, fetches, handleOf, written, pending>>
      /\ flush' = AtRest
  BY DEF EndFlush, placed
<1>2. Sound(Bundle', handleOf', written')
  BY <1>1, NothingMoved DEF TierInv
<1> QED
  BY <1>1, <1>2, AtRestSound DEF TierInv

\* One step at a time.
LEMMA TierStep ==
  ASSUME TierInv, [TierNext]_tierVars
  PROVE  TierInv'
<1>1. CASE UNCHANGED tierVars
  <2>1. UNCHANGED <<pool, recs, rowTier, vramUsed, fetches, handleOf, written, pending, flush>>
    BY <1>1 DEF tierVars
  <2>2. Sound(Bundle', handleOf', written')
    BY <2>1, NothingMoved DEF TierInv
  <2> QED BY <2>1, <2>2 DEF TierInv
<1>2. ASSUME NEW e \in PoolOwners, NEW data \in Payloads, WritePayload(e, data) PROVE TierInv'
  BY <1>2, WritePayloadKeeps
<1>3. ASSUME NEW e \in PoolOwners, NEW data \in Payloads, OverwritePayload(e, data) PROVE TierInv'
  BY <1>3, OverwritePayloadKeeps
<1>4. ASSUME NEW e \in PoolOwners, WriteEmpty(e) PROVE TierInv'
  BY <1>4, WriteEmptyKeeps
<1>5. ASSUME NEW e \in PoolOwners, FreePayload(e) PROVE TierInv'
  BY <1>5, FreePayloadKeeps
<1>6. ASSUME NEW target \in Held, NEW through \in Spans, NEW tier \in {Ram, Vram},
             TouchSlot(target, through, tier)
      PROVE  TierInv'
  BY <1>6, TouchSlotKeeps
<1>7. ASSUME NEW r \in Rows, NEW tier \in {Ram, Vram}, TouchRow(r, tier) PROVE TierInv'
  BY <1>7, TouchRowKeeps
<1>8. ASSUME NEW target \in Held, NEW through \in Spans, ReleaseTier(target, through) PROVE TierInv'
  <2>1. target.class = "slot"
    BY HeldAreSlots
  <2> QED BY <1>8, <2>1, ReleaseTierKeeps
<1>9. ASSUME NEW r \in Rows, NEW through \in Spans, ReleaseTier(RowTarget(r), through) PROVE TierInv'
  <2> DEFINE target == RowTarget(r)
  <2>1. target.class = "row" /\ target.at = r
    BY RowTargets
  <2>2. ReleaseTier(target, through)
    BY <1>9
  <2> HIDE DEF target
  <2> QED BY <2>1, <2>2, ReleaseTierKeeps
<1>10. ASSUME NEW target \in Held, PeekResident(target) PROVE TierInv'
  BY <1>10, PeekResidentKeeps
<1>11. ASSUME NEW target \in Held \cup {RowTarget(r) : r \in Rows}, PeekSpilled(target) PROVE TierInv'
  <2>1. target.class \in {"slot", "row"} /\ (target.class = "row" => target.at \in Rows)
    <3>1. CASE target \in Held
      BY <3>1, HeldAreSlots
    <3>2. CASE target \in {RowTarget(r) : r \in Rows}
      <4>1. PICK r \in Rows : target = RowTarget(r)
        BY <3>2
      <4> QED BY <4>1, RowTargets
    <3> QED BY <3>1, <3>2
  <2> QED BY <1>11, <2>1, PeekSpilledKeeps
<1>12. ASSUME NEW i \in DOMAIN fetches, CompleteFetch(i) PROVE TierInv'
  BY <1>12, CompleteFetchKeeps
<1>13. CASE DrainShard
  BY <1>13, DrainShardKeeps
<1>14. CASE ExecuteIntent
  BY <1>14, ExecuteIntentKeeps
<1>15. CASE SpillOldest
  BY <1>15, SpillOldestKeeps
<1>16. CASE EndFlush
  BY <1>16, EndFlushKeeps
<1> QED
  BY <1>1, <1>2, <1>3, <1>4, <1>5, <1>6, <1>7, <1>8, <1>9, <1>10, <1>11, <1>12, <1>13, <1>14,
     <1>15, <1>16 DEF TierNext, Flusher

\* An empty pool, and nothing tracked.
LEMMA TierInitInv ==
  ASSUME TierInit
  PROVE  TierInv
<1> DEFINE t == Bundle
           own == [k \in {OwnerKey(e) : e \in PoolOwners} |-> NoHandleRange]
<1>1. /\ pool = NewPool(InitialCap)
      /\ handleOf = [e \in PoolOwners |-> NoHandleRange]
      /\ written = [e \in PoolOwners |-> <<>>]
      /\ DOMAIN recs = {} /\ recs = [o \in {} |-> recs[o]]
      /\ rowTier = [r \in Rows |-> UntouchedRow]
      /\ vramUsed = 0
      /\ pending = [s \in ShardSet |-> <<>>]
      /\ flush = AtRest
  BY DEF TierInit
<1>2. InitialCap \in Nat
  BY TierAssumption
<1>3. IsPool(pool)
  <2>1. /\ pool.cap = InitialCap /\ pool.free = NewRange(InitialCap)
        /\ pool.mem = [i \in 0 .. InitialCap - 1 |-> Blank]
        /\ pool = [cap |-> pool.cap, free |-> pool.free, mem |-> pool.mem]
    BY <1>1 DEF NewPool
  <2>2. IsSoundList(NewRange(InitialCap), InitialCap)
    BY <1>2, NewRangeSound
  <2>3. \A s \in NewRange(InitialCap) : Aligned(s.off)
    <3>1. 0 = 0 * ElemAlign
      BY PoolAssumption
    <3> QED
      BY <3>1 DEF NewRange, SpanOf, Aligned
  <2>4. pool.mem = [i \in 0 .. pool.cap - 1 |-> pool.mem[i]]
    BY <2>1
  <2> QED
    BY <1>2, <2>1, <2>2, <2>3, <2>4 DEF IsPool
<1>4. NoHandleRange.offset = 0 /\ NoHandleRange.count = 0
  BY DEF NoHandleRange
<1>5. OwnedRows(NoHandleRange) = {} /\ IsPlace(NoHandleRange, pool.cap)
  <2>1. PaddedLen(0) = 0
    BY PaddedBounds
  <2>2. 0 = 0 * ElemAlign
    BY PoolAssumption
  <2>3. pool.cap \in Nat
    BY <1>3 DEF IsPool
  <2> QED
    BY <1>4, <2>1, <2>2, <2>3, EmptyOwnsNothing DEF IsPlace, Aligned
<1>6. /\ \A k \in DOMAIN own : own[k] = NoHandleRange /\ k[1] = "owner"
      /\ \A e \in PoolOwners : OwnerKey(e) \in DOMAIN own
  BY DEF OwnerKey
<1> HIDE DEF own
<1>7. Shares(pool, own)
  <2>1. Covered(pool.free) = 0 .. pool.cap - 1
    BY <1>1, <1>2, NewRangeSound DEF NewPool
  <2> QED
    BY <1>5, <1>6, <2>1 DEF Shares
<1>8. Says(pool, own, own)
  BY <1>4, <1>6 DEF Says
<1>9. Owned(pool, recs, handleOf, written, own, own)
  <2>1. \A k \in DOMAIN own : k[1] \in {"owner", "slot"} /\ k[1] # "slot"
    BY <1>6
  <2>2. \A e \in PoolOwners : /\ OwnerKey(e) \in DOMAIN own /\ own[OwnerKey(e)] = handleOf[e]
                              /\ ~(handleOf[e].count > 0)
    BY <1>1, <1>4, <1>6
  <2>3. \A o \in DOMAIN recs : FALSE
    BY <1>1
  <2> QED BY <1>3, <1>7, <1>8, <2>1, <2>2, <2>3 DEF Owned
<1>10. RowSound(UntouchedRow) /\ UntouchedRow.units = {}
  <2> DEFINE row == UntouchedRow
             none == {}
             no == FALSE
  <2>1. row = [present |-> no, tier |-> Ram, generation |-> 0, lastUse |-> 0, lastSeq |-> 0,
               units |-> none, spilled |-> no]
    BY DEF UntouchedRow
  <2>2. no \in BOOLEAN /\ ~no /\ none = {}
    OBVIOUS
  <2> HIDE DEF row, none, no
  <2>3. /\ row = [present |-> row.present, tier |-> row.tier, generation |-> row.generation,
                  lastUse |-> row.lastUse, lastSeq |-> row.lastSeq, units |-> row.units,
                  spilled |-> row.spilled]
        /\ row.tier = Ram /\ row.units = none /\ row.spilled = no
    BY <2>1
  <2>4. TierTells(row)
    <3>1. row.spilled \in BOOLEAN /\ ~row.spilled
      BY <2>2, <2>3
    <3>2. row.tier # Disk /\ row.tier # Vram /\ row.tier \in {Disk, Ram, Vram} /\ row.units = {}
      BY <2>2, <2>3 DEF Disk, Ram, Vram
    <3> QED BY <3>1, <3>2 DEF TierTells
  <2>5. RowSound(row) /\ row.units = {}
    BY <2>2, <2>3, <2>4 DEF RowSound
  <2> QED BY <2>5 DEF row
<1>11. /\ t.pool = pool /\ t.recs = recs /\ t.rows = rowTier /\ t.vram = 0
       /\ t = [pool |-> t.pool, recs |-> t.recs, rows |-> t.rows, vram |-> t.vram,
               fetches |-> t.fetches, grown |-> t.grown]
  BY <1>1 DEF Bundle
<1> HIDE DEF t
<1>12. VramCovers(t)
  <2>1. Residents(t) = {}
    <3> SUFFICES ASSUME NEW x \in Residents(t) PROVE FALSE
      OBVIOUS
    <3>1. x \notin ResidentsOf("slot", recs)
      BY <1>1, ResidentIs
    <3>2. x \notin ResidentsOf("row", rowTier)
      BY <1>1, <1>10, ResidentIs
    <3> QED BY <1>11, <3>1, <3>2 DEF Residents
  <2>2. VramBytes({}) = 0
    <3>1. UnitsOf([x \in {} |-> x[3].len], {}) = {}
      BY DEF UnitsOf
    <3> QED BY <3>1, FS_EmptySet DEF VramBytes, SumOver
  <2> QED BY <1>11, <2>1, <2>2, TierAssumption DEF VramCovers
<1>13. Sound(t, handleOf, written)
  <2>1. IsFiniteSet(DOMAIN t.recs) /\ t.recs = [o \in DOMAIN t.recs |-> t.recs[o]]
        /\ \A o \in DOMAIN t.recs : RecordSound(t.recs[o])
    BY <1>1, <1>11, FS_EmptySet
  <2>2. t.rows = [r \in Rows |-> t.rows[r]] /\ \A r \in Rows : RowSound(t.rows[r])
    BY <1>1, <1>10, <1>11
  <2>3. \E o1, s1 : Owned(t.pool, t.recs, handleOf, written, o1, s1)
    BY <1>9, <1>11
  <2> QED BY <1>11, <1>12, <2>1, <2>2, <2>3, Zenon DEF Sound
<1>14. ColumnsSound(handleOf, written)
  BY <1>1 DEF ColumnsSound
<1>15. PendingSound(pending)
  BY <1>1, EmptyBatch DEF PendingSound
<1>16. FlushSound(flush)
  BY <1>1, AtRestSound
<1> QED
  BY <1>13, <1>14, <1>15, <1>16 DEF TierInv, t

\* What the invariant says of one resident unit.
LEMMA UnitReads ==
  ASSUME NEW p, NEW f, NEW hs, NEW words, NEW own, NEW said, Owned(p, f, hs, words, own, said),
         NEW o \in DOMAIN f, RecordSound(f[o]), NEW u \in f[o].units
  PROVE  LET data == UnitData(f[o], u)
         IN ReadRange(p, [offset |-> u.off, count |-> Len(data)]) = data
<1> DEFINE rec == f[o]
           plan == ExecutionPlan(rec.count)
           data == UnitData(rec, u)
           key == SlotKey(o, u)
           n == Cardinality(rec.units)
<1>1. /\ PlanSound(plan, rec.count) /\ FirstUnits(plan, rec.units, n)
      /\ rec.data \in Payloads /\ rec.data # <<>> /\ rec.count = Len(rec.data)
  BY RecordFacts DEF RecordSound
<1>2. PICK i \in 1 .. Len(plan) : u.rank = plan[i].rank /\ u.len = plan[i].bytes
  <2>1. u \in rec.units
    OBVIOUS
  <2> HIDE DEF plan, n, rec
  <2> QED BY <1>1, <2>1, PrefixFacts
<1>3. data = SubSeq(rec.data, plan[i].off + 1, plan[i].off + plan[i].bytes)
  <2> HIDE DEF rec
  <2>1. RecordSound(rec)
    BY DEF rec
  <2> QED BY <1>2, <2>1, UnitDataIs
<1>4. Len(data) = u.len
  <2> DEFINE from == plan[i].off
             m == plan[i].bytes
             body == rec.data
             cut == SubSeq(body, from + 1, from + m)
  <2>1. from \in Nat /\ m \in Nat \ {0} /\ from + m <= Len(body)
    BY <1>1 DEF PlanSound
  <2>2. body \in Payloads /\ body # <<>>
    BY <1>1
  <2> HIDE DEF from, m, body
  <2>3. Len(cut) = m
    BY <2>1, <2>2, SliceIsPayload
  <2> QED BY <1>2, <1>3, <2>3 DEF from, m, body
<1>5. key \in DOMAIN own /\ said[key] = data /\ key[1] = "slot" /\ key[3] = u
  BY DEF Owned, SlotKey
<1>6. own[key] = UnitRange(u) /\ u.len > 0
  <2> HIDE DEF key
  <2> QED BY <1>5 DEF Owned
<1>7. ReadRange(p, own[key]) = said[key]
  <2> HIDE DEF key
  <2>1. own[key].count > 0
    BY <1>6 DEF UnitRange
  <2> QED BY <1>5, <2>1 DEF Owned, Says
<1>8. [offset |-> u.off, count |-> Len(data)] = UnitRange(u)
  <2> HIDE DEF data
  <2> QED BY <1>4 DEF UnitRange
<1> QED
  BY <1>5, <1>6, <1>7, <1>8

\* What the invariant says of every payload and every resident unit.
LEMMA ContentsHold ==
  ASSUME TierInv
  PROVE  ContentsSurvive
<1>1. Bundle.pool = pool /\ Bundle.recs = recs
  BY DEF Bundle
<1>2. PICK own, said : Owned(pool, recs, handleOf, written, own, said)
  BY <1>1 DEF TierInv, Sound
<1>3. ASSUME NEW e \in PoolOwners, handleOf[e].count > 0
      PROVE  ReadRange(pool, handleOf[e]) = written[e]
  <2> DEFINE key == OwnerKey(e)
  <2>1. key \in DOMAIN own /\ own[key] = handleOf[e] /\ said[key] = written[e]
    BY <1>2, <1>3 DEF Owned
  <2> HIDE DEF key
  <2>2. ReadRange(pool, own[key]) = said[key]
    BY <1>2, <1>3, <2>1 DEF Owned, Says
  <2> QED BY <2>1, <2>2
<1>4. \A o \in DOMAIN recs : RecordSound(recs[o])
  BY <1>1 DEF TierInv, Sound
<1>5. \A o \in DOMAIN recs : \A u \in recs[o].units :
        LET data == UnitData(recs[o], u)
        IN ReadRange(pool, [offset |-> u.off, count |-> Len(data)]) = data
  <2> TAKE o \in DOMAIN recs
  <2> TAKE u \in recs[o].units
  <2> QED BY <1>2, <1>4, UnitReads
<1> QED
  BY <1>3, <1>5 DEF ContentsSurvive

\* What it says of every record.
LEMMA PrefixHolds ==
  ASSUME TierInv
  PROVE  PrefixComplete
<1>1. \A o \in DOMAIN recs : RecordSound(recs[o])
  BY DEF TierInv, Sound, Bundle
<1>2. ASSUME NEW rec, RecordSound(rec)
      PROVE  LET plan == ExecutionPlan(rec.count)
             IN /\ \E k \in 0 .. Len(plan) :
                     {u.rank : u \in rec.units} = {plan[i].rank : i \in 1 .. k}
                /\ rec.tier = Vram <=> rec.units # {}
                /\ rec.tier = Disk <=> rec.spilled
  <2> DEFINE plan == ExecutionPlan(rec.count)
             k == Cardinality(rec.units)
  <2>1. PlanSound(plan, rec.count) /\ FirstUnits(plan, rec.units, k)
    BY <1>2, RecordFacts
  <2> HIDE DEF plan
  <2>2. k \in 0 .. Len(plan) /\ {u.rank : u \in rec.units} = {plan[i].rank : i \in 1 .. k}
    <3>1. {u.rank : u \in rec.units} = {plan[i].rank : i \in 1 .. k}
      <4>1. PICK at \in [1 .. k -> Nat] : rec.units = {PlacedUnit(plan, at, i) : i \in 1 .. k}
        BY <2>1 DEF FirstUnits
      <4>2. \A i : PlacedUnit(plan, at, i).rank = plan[i].rank
        BY DEF PlacedUnit
      <4> HIDE DEF k
      <4> QED BY <4>1, <4>2
    <3> QED BY <2>1, <3>1 DEF FirstUnits
  <2>3. (rec.tier = Vram <=> rec.units # {}) /\ (rec.tier = Disk <=> rec.spilled)
    BY <1>2 DEF RecordSound, TierTells
  <2>4. \E j \in 0 .. Len(plan) : {u.rank : u \in rec.units} = {plan[i].rank : i \in 1 .. j}
    <3> HIDE DEF k
    <3> QED BY <2>2
  <2> QED BY <2>3, <2>4 DEF plan
<1> QED
  BY <1>1, <1>2 DEF PrefixComplete

\* What it says of the account.
LEMMA BudgetHolds ==
  ASSUME TierInv
  PROVE  VramWithinBudget
<1>1. Bundle.vram = vramUsed
  BY DEF Bundle
<1>2. VramCovers(Bundle)
  BY DEF TierInv, Sound
<1>3. VramBytes(Residents(Bundle)) \in Nat
  <2>1. Sound(Bundle, handleOf, written)
    BY DEF TierInv
  <2> DEFINE t == Bundle
  <2> HIDE DEF t
  <2>2. Sound(t, handleOf, written)
    BY <2>1 DEF t
  <2>3. Residents(t) \in SUBSET Residents(t)
    OBVIOUS
  <2>4. VramBytes(Residents(t)) \in Nat
    BY <2>2, <2>3, ResidentsTyped
  <2> QED BY <2>4 DEF t
<1> QED
  BY <1>1, <1>2, <1>3 DEF VramCovers, VramWithinBudget

\* The invariant holds in every state of the specification.
LEMMA TierInductive == TierSpec => []TierInv
<1>1. TierInit => TierInv
  BY TierInitInv
<1>2. TierInv /\ [TierNext]_tierVars => TierInv'
  BY TierStep
<1> QED
  BY <1>1, <1>2, PTL DEF TierSpec

\* Whatever the pool does between two writes of an entity (growth, reuse of
\* freed ranges, promotions and evictions, which all take from one free list),
\* its handle reads back what it wrote last, and every unit resident in VRAM
\* reads back its slice of the staged payload.
THEOREM ContentsStay == TierSpec => []ContentsSurvive
<1>1. TierInv => ContentsSurvive
  BY ContentsHold
<1> QED
  BY <1>1, TierInductive, PTL

\* A record's resident units are always the first ones of its flight plan, with
\* no gap however a flight was declined, evicted from or demoted, and its tier
\* says where the bytes are.
THEOREM PrefixStaysComplete == TierSpec => []PrefixComplete
<1>1. TierInv => PrefixComplete
  BY PrefixHolds
<1> QED
  BY <1>1, TierInductive, PTL

\* No promotion, with the eviction it makes room by, takes the account of VRAM
\* over the budget, and the account never falls below what is placed.
THEOREM VramStaysWithinBudget == TierSpec => []VramWithinBudget
<1>1. TierInv => VramWithinBudget
  BY BudgetHolds
<1> QED
  BY <1>1, TierInductive, PTL

=============================================================================
