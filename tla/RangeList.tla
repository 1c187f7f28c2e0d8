----------------------------- MODULE RangeList -----------------------------
(***************************************************************************)
(* The first-fit range suballocator the growable pools and the geometry    *)
(* arena share (gpu/freelist.rs).  The list is kept sorted and without     *)
(* neighbours, so it is modelled as the set of its free spans; the order   *)
(* is the order of the offsets.  Units are the caller's: elements for a    *)
(* pool, bytes for the arena.                                              *)
(***************************************************************************)
EXTENDS Integers, FiniteSets

Span == [off : Nat, len : Nat]
End(s) == s.off + s.len
SpanOf(off, len) == [off |-> off, len |-> len]

\* The spans of a set that hold something.
NonEmpty(S) == {s \in S : s.len > 0}

\* The units a span, and a set of spans, cover.
Units(s) == s.off .. (s.off + s.len - 1)
Covered(S) == UNION {Units(s) : s \in S}

\* The least multiple of align that is no less than x; align is a power of two.
AlignUp(x, align) == ((x + align - 1) \div align) * align

NewRange(total) == {SpanOf(0, total)}

---------------------------------------------------------------------------
(* RangeList::alloc: the span with the least offset that fits once its     *)
(* start is aligned; the padding before and the tail after stay free.      *)

Pad(s, align) == AlignUp(s.off, align) - s.off
Fits(s, len, align) == Pad(s, align) + len <= s.len

Fitting(free, len, align) == {s \in free : Fits(s, len, align)}

FirstFit(free, len, align) ==
  CHOOSE s \in Fitting(free, len, align) :
    \A u \in Fitting(free, len, align) : s.off <= u.off

AllocOffset(free, len, align) == AlignUp(FirstFit(free, len, align).off, align)

\* The tail keeps the space that was handed out.
AfterAllocMutant(free, len, align) ==
  LET s == FirstFit(free, len, align)
      at == AlignUp(s.off, align)
  IN (free \ {s}) \cup NonEmpty({SpanOf(s.off, at - s.off),
                                 SpanOf(at + len - 1, End(s) - (at + len) + 1)})

AfterAlloc(free, len, align) ==
  LET s == FirstFit(free, len, align)
      at == AlignUp(s.off, align)
  IN (free \ {s}) \cup NonEmpty({SpanOf(s.off, at - s.off),
                                 SpanOf(at + len, End(s) - (at + len))})

---------------------------------------------------------------------------
(* RangeList::free: the span joins the one that starts where it ends and   *)
(* the one that ends where it starts.                                      *)

AfterFree(free, off, len) ==
  IF len = 0 THEN free
  ELSE LET next == {s \in free : s.off = off + len}
           prev == {s \in free : End(s) = off}
           lo == IF prev = {} THEN off ELSE (CHOOSE s \in prev : TRUE).off
           hi == IF next = {} THEN off + len ELSE End(CHOOSE s \in next : TRUE)
       IN (free \ (next \cup prev)) \cup {SpanOf(lo, hi - lo)}

---------------------------------------------------------------------------
(* RangeList::extend_total: growth adds [old, new), to the last span when  *)
(* that ends at the old total.                                             *)

AfterExtend(free, old, new) ==
  LET last == {s \in free : End(s) = old}
  IN IF new = old THEN free
     ELSE IF last = {} THEN free \cup {SpanOf(old, new - old)}
     ELSE LET s == CHOOSE u \in last : TRUE
          IN (free \ {s}) \cup {SpanOf(s.off, new - s.off)}

=============================================================================
