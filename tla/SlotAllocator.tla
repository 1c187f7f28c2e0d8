---------------------------- MODULE SlotAllocator ----------------------------
(***************************************************************************)
(* gpu/slot_allocator.rs: a dense index allocator shared by threads.  The   *)
(* free list is behind a mutex, the generations behind a reader-writer lock *)
(* with atomic cells, next and live are atomics; every critical section and *)
(* every atomic operation outside one is a step of its own.  A handle is    *)
(* plain data, so any thread may free any handle that alloc ever returned.  *)
(***************************************************************************)
EXTENDS Integers, SequencesExt

CONSTANTS Threads,
          GenMod,    \* generations are counted modulo GenMod (2^32 in the code)
          MaxSlots,  \* bound: indices ever issued
          MaxFrees   \* bound: successful frees of one index

ASSUME BoundsAssumption ==
    /\ IsFiniteSet(Threads)
    /\ GenMod \in Nat \ {0}
    /\ MaxSlots \in Nat \ {0}
    /\ MaxFrees \in Nat

Index == 0 .. MaxSlots - 1
Generation == 0 .. GenMod - 1
\* wrapping_add(1) of a generation.
Bumped(g) == IF g = GenMod - 1 THEN 0 ELSE g + 1

SlotHandle == [index: Index, generation: Generation]

VARIABLES free,         \* the LIFO free list
          generations,  \* the generation of every index that has a cell
          next,         \* one past the highest index issued
          live,         \* the counter live_count reports
          pc, hnd,      \* per thread: where it is, and its index and generation
          claimed,      \* history: handles returned by alloc and not yet freed
          stale,        \* history: handles whose free succeeded
          frees         \* history: successful frees of every index

allocVars == <<free, generations, next, live>>
historyVars == <<claimed, stale, frees>>
slotVars == <<free, generations, next, live, pc, hnd, claimed, stale, frees>>

Handle(i, g) == [index |-> i, generation |-> g]
NoHandle == Handle(0, 0)

Init == /\ free = <<>>
        /\ generations = <<>>
        /\ next = 0
        /\ live = 0
        /\ pc = [t \in Threads |-> "idle"]
        /\ hnd = [t \in Threads |-> NoHandle]
        /\ claimed = {}
        /\ stale = {}
        /\ frees = [i \in Index |-> 0]

Step(t, from, to) == pc[t] = from /\ pc' = [pc EXCEPT ![t] = to]
Hold(t, h) == hnd' = [hnd EXCEPT ![t] = h]

\* generations is a Vec: index i lives at position i + 1 of the sequence.
HasCell(i) == i < Len(generations)
GenerationOf(i) == generations[i + 1]

\* is_valid: the handle's generation is its index's current one.
IsValid(h) == HasCell(h.index) /\ GenerationOf(h.index) = h.generation

----------------------------------------------------------------------------
\* alloc pops the free list under its mutex.
AllocPop(t) ==
    /\ Step(t, "idle", "read")
    /\ free # <<>>
    /\ Hold(t, Handle(Last(free), 0))
    /\ free' = Front(free)
    /\ UNCHANGED <<generations, next, live, historyVars>>

Extending == {t \in Threads : pc[t] = "extend"}

\* ... or finds it empty, and has let the mutex go before it extends: a free
\* that comes in between does not stop the extension.
AllocEmpty(t) ==
    /\ Step(t, "idle", "extend")
    /\ free = <<>>
    /\ next + Cardinality(Extending) < MaxSlots
    /\ UNCHANGED <<allocVars, hnd, historyVars>>

AllocExtend(t) ==
    /\ Step(t, "extend", "read")
    /\ Hold(t, Handle(next, 0))
    /\ next' = next + 1
    /\ UNCHANGED <<free, generations, live, historyVars>>

\* ensure_and_read_generation under the read lock: the cell is there, or the
\* lock is let go and taken again for writing.
AllocRead(t) ==
    LET i == hnd[t].index IN
    /\ Step(t, "read", "count")
    /\ HasCell(i)
    /\ Hold(t, Handle(i, GenerationOf(i)))
    /\ UNCHANGED <<allocVars, historyVars>>

AllocMissing(t) ==
    /\ Step(t, "read", "grow")
    /\ ~HasCell(hnd[t].index)
    /\ UNCHANGED <<allocVars, hnd, historyVars>>

\* The generations resized to n cells: fresh cells are 0.
Cells(n) == [k \in 1 .. n |-> IF k <= Len(generations) THEN generations[k] ELSE 0]

\* One cell too many.
ResizedLongMutant(n) == Cells(1 + (IF n > Len(generations) THEN n ELSE Len(generations)))

\* Not asking again, under the write lock, whether another thread has grown the
\* vector further meanwhile: its cells are dropped.
ResizedDropMutant(n) == Cells(n)

\* resize_with, which never shrinks.
Resized(n) == Cells(IF n > Len(generations) THEN n ELSE Len(generations))

\* A freer between its load and its compare-and-swap holds the read lock.
ReadLocked == \E t \in Threads : pc[t] = "cas"

AllocGrow(t) ==
    LET i == hnd[t].index IN
    /\ Step(t, "grow", "count")
    /\ ~ReadLocked
    /\ generations' = Resized(i + 1)
    /\ Hold(t, Handle(i, Resized(i + 1)[i + 1]))
    /\ UNCHANGED <<free, next, live, historyVars>>

\* The count is added only for a slot issued for the first time.
AllocCountMutant(t) ==
    /\ Step(t, "count", "idle")
    /\ live' = IF hnd[t].generation = 0 THEN live + 1 ELSE live
    /\ claimed' = claimed \cup {hnd[t]}
    /\ Hold(t, NoHandle)
    /\ UNCHANGED <<free, generations, next, stale, frees>>

\* alloc counts the slot and returns its handle.
AllocCount(t) ==
    /\ Step(t, "count", "idle")
    /\ live' = live + 1
    /\ claimed' = claimed \cup {hnd[t]}
    /\ Hold(t, NoHandle)
    /\ UNCHANGED <<free, generations, next, stale, frees>>

----------------------------------------------------------------------------
\* free of a handle alloc once returned: its generation is not the current
\* one, and it returns false ...
FreeRejected(t) ==
    /\ pc[t] = "idle"
    /\ \E h \in claimed \cup stale : ~IsValid(h)
    /\ UNCHANGED slotVars

\* ... or it is, and the thread goes on with the read lock held.
FreeLoad(t) ==
    /\ Step(t, "idle", "cas")
    /\ \E h \in claimed \cup stale :
        /\ IsValid(h)
        /\ frees[h.index] < MaxFrees
        /\ Hold(t, h)
    /\ UNCHANGED <<allocVars, historyVars>>

\* Another thread freed the same handle first: the compare-and-swap fails.
FreeLost(t) ==
    /\ Step(t, "cas", "idle")
    /\ ~IsValid(hnd[t])
    /\ Hold(t, NoHandle)
    /\ UNCHANGED <<allocVars, historyVars>>

\* What a successful free of h records.
Freed(h) ==
    /\ claimed' = claimed \ {h}
    /\ stale' = stale \cup {h}
    /\ frees' = [frees EXCEPT ![h.index] = @ + 1]

\* A plain store in place of the compare-and-swap: both racing freers succeed.
FreeStoreMutant(t) ==
    /\ Step(t, "cas", "push")
    /\ generations' = [generations EXCEPT ![hnd[t].index + 1] = Bumped(hnd[t].generation)]
    /\ Freed(hnd[t])
    /\ UNCHANGED <<free, next, live, hnd>>

\* compare_exchange(current, current.wrapping_add(1)) succeeds.
FreeCas(t) ==
    /\ Step(t, "cas", "push")
    /\ IsValid(hnd[t])
    /\ generations' = [generations EXCEPT ![hnd[t].index + 1] = Bumped(hnd[t].generation)]
    /\ Freed(hnd[t])
    /\ UNCHANGED <<free, next, live, hnd>>

FreePush(t) ==
    /\ Step(t, "push", "sub")
    /\ free' = Append(free, hnd[t].index)
    /\ UNCHANGED <<generations, next, live, hnd, historyVars>>

FreeSub(t) ==
    /\ Step(t, "sub", "idle")
    /\ live' = live - 1
    /\ Hold(t, NoHandle)
    /\ UNCHANGED <<free, generations, next, historyVars>>

Next == \E t \in Threads :
    \/ AllocPop(t)
    \/ AllocEmpty(t)
    \/ AllocExtend(t)
    \/ AllocRead(t)
    \/ AllocMissing(t)
    \/ AllocGrow(t)
    \/ AllocCount(t)
    \/ FreeRejected(t)
    \/ FreeLoad(t)
    \/ FreeLost(t)
    \/ FreeCas(t)
    \/ FreePush(t)
    \/ FreeSub(t)

Spec == Init /\ [][Next]_slotVars

----------------------------------------------------------------------------
\* The type of every variable; a cell of the generations exists for every
\* handle that was ever returned.
SlotTypeOK ==
    /\ free \in Seq(Index)
    /\ generations \in Seq(Generation) /\ Len(generations) <= next
    /\ next \in 0 .. MaxSlots
    /\ live \in Int
    /\ pc \in [Threads -> {"idle", "extend", "read", "grow", "count", "cas", "push", "sub"}]
    /\ hnd \in [Threads -> SlotHandle]
    /\ claimed \in SUBSET SlotHandle
    /\ stale \in SUBSET SlotHandle
    /\ frees \in [Index -> Nat]

OnFreeList(i) == \E k \in DOMAIN free : free[k] = i
InTransit(t, i) == pc[t] \in {"read", "grow", "count", "push"} /\ hnd[t].index = i
IsClaimed(i) == \E h \in claimed : h.index = i

\* Every index issued is in exactly one place: on the free list once, in the
\* hands of one thread inside alloc or free, or claimed by one handle.  Two
\* handles that are live never share an index, whatever threads race in alloc
\* and free of the same handle, and no index is lost.
IndexConserved ==
    /\ IsInjective(free)
    /\ \A h, k \in claimed : h.index = k.index => h = k
    /\ \A i \in 0 .. next - 1 :
        /\ OnFreeList(i) \/ IsClaimed(i) \/ \E t \in Threads : InTransit(t, i)
        /\ ~(OnFreeList(i) /\ IsClaimed(i))
        /\ \A t \in Threads : InTransit(t, i) =>
            /\ ~OnFreeList(i) /\ ~IsClaimed(i)
            /\ \A s \in Threads : InTransit(s, i) => s = t

\* is_valid and free tell the claims from the past: a handle that was returned
\* and not freed is valid, and one that was freed never is again, even when
\* its index belongs to someone else.
StaleDetected ==
    /\ \A h \in claimed : IsValid(h)
    /\ \A h \in stale : ~IsValid(h)

\* live_count never understates the claims (nor wraps below zero): it counts
\* them and the frees that have bumped the generation and not yet finished.
LiveCounted ==
    live = Cardinality(claimed) + Cardinality({t \in Threads : pc[t] \in {"push", "sub"}})

=============================================================================
