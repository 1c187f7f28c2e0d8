----------------------------- MODULE VarLenPool -----------------------------
(***************************************************************************)
(* A growable pool of variable-length payloads: VarLenGpuPool over a       *)
(* DynamicGpuBuffer and a RangeList (gpu/var_len_pool.rs,                  *)
(* gpu/dynamic_buffer.rs).  A pool is a record                             *)
(*   cap    the buffer's rows                                              *)
(*   free   the free spans of [0, cap)                                     *)
(*   mem    the buffer's contents, one value per row                       *)
(* and a payload a sequence of values.  Every operation holds the pool's   *)
(* lock from start to end, so each is one operator on the record; what     *)
(* the tier engine adds to them is in TieredStorage.                       *)
(***************************************************************************)
EXTENDS RangeList, DynamicBuffer, Sequences

CONSTANT
  ElemAlign      \* elements per 4-byte boundary: elem_align::<T>()

ASSUME PoolAssumption == ElemAlign \in {1, 2, 4}

NewPool(capacity) ==
  [cap |-> capacity, free |-> NewRange(capacity),
   mem |-> [i \in 0 .. capacity - 1 |-> Blank]]

NoHandleRange == [offset |-> 0, count |-> 0]

PaddedLen(count) == AlignUp(count, ElemAlign)

\* The rows a handle owns, the padding included.
OwnedRows(h) == h.offset .. (h.offset + PaddedLen(h.count) - 1)

---------------------------------------------------------------------------
(* Growth lists the new rows as free.                                      *)

Regrown(p, cap) ==
  [cap |-> cap, free |-> AfterExtend(p.free, p.cap, cap),
   mem |-> [i \in 0 .. cap - 1 |-> IF i < p.cap THEN p.mem[i] ELSE Blank]]

---------------------------------------------------------------------------
(* Space for len elements: first fit, or growth by at least len and a      *)
(* second try, which the code expects to succeed.                          *)

Reservable(p, len) ==
  Fitting(p.free, len, ElemAlign) # {} \/ CanHold(p.cap + len)

WithRoom(p, len) ==
  IF Fitting(p.free, len, ElemAlign) # {} THEN p
  ELSE Regrown(p, GrownCapacity(p.cap, p.cap + len))

RetryFits(p, len) == Fitting(WithRoom(p, len).free, len, ElemAlign) # {}

ReservedAt(p, len) == AllocOffset(WithRoom(p, len).free, len, ElemAlign)

Reserve(p, len) ==
  LET q == WithRoom(p, len)
  IN [q EXCEPT !.free = AfterAlloc(q.free, len, ElemAlign)]

Release(p, h) ==
  IF h.count = 0 THEN p
  ELSE [p EXCEPT !.free = AfterFree(p.free, h.offset, PaddedLen(h.count))]

\* DynamicGpuBuffer::write_padded: the payload, then blanks to the boundary.
WritePadded(p, offset, data) ==
  [p EXCEPT !.mem =
    [i \in DOMAIN p.mem |->
       IF i \notin offset .. (offset + PaddedLen(Len(data)) - 1) THEN p.mem[i]
       ELSE IF i - offset < Len(data) THEN data[i - offset + 1] ELSE Blank]]

---------------------------------------------------------------------------
(* VarLenGpuPool::write_var_row: the previous range is freed first, so the *)
(* new payload may land on it.  The result is the pool and the handle.     *)

Writable(p, prev, data) ==
  data = <<>> \/ Reservable(Release(p, prev), PaddedLen(Len(data)))

WriteVarRow(p, prev, data) ==
  LET freed == Release(p, prev)
      len == PaddedLen(Len(data))
      at == ReservedAt(freed, len)
  IN IF data = <<>> THEN [pool |-> freed, handle |-> NoHandleRange]
     ELSE [pool |-> WritePadded(Reserve(freed, len), at, data),
           handle |-> [offset |-> at, count |-> Len(data)]]

ReadRange(p, h) == [i \in 1 .. h.count |-> p.mem[h.offset + i - 1]]

=============================================================================
