------------------------------- MODULE Leases -------------------------------
(***************************************************************************)
(* Read leases on a cell (lease.rs) and the boundary's decision whether to *)
(* compact it (gpu/harvest.rs).  Readers take a bit of an atomic mask and  *)
(* give it back when their guard drops; the boundary takes back the bits   *)
(* of leases held too long and compacts when no bit is left.  Each atomic  *)
(* operation is one step.  The boundary borrows the leases it is given, so *)
(* none of them drops before its call returns; which of them are overdue   *)
(* is its clock's business and any subset may be.                          *)
(***************************************************************************)
EXTENDS Naturals, FiniteSets

CONSTANTS
  LeaseSlots,   \* the bits of the mask, numbered from 0
  Holders       \* guards that may exist at one time

ASSUME LeaseAssumption == LeaseSlots \in SUBSET Nat /\ LeaseSlots # {}

VARIABLES
  bits,         \* LeaseMask.bits: the slots whose bit is set
  lease,        \* each guard: where it is, its slot, its two flags
  seen,         \* acquire's `cur`
  boundary      \* compaction_ready: where it is, what it has to visit, its answer

leaseVars == <<bits, lease, seen, boundary>>

NoLease == [at |-> "none", slot |-> 0, released |-> FALSE, revoked |-> FALSE]
AtRestBoundary == [at |-> "idle", leases |-> {}, slot |-> 0, unaware |-> {}]

Lowest(S) == CHOOSE n \in S : \A m \in S : n <= m
Outstanding == {h \in Holders : lease[h].at = "held"}

---------------------------------------------------------------------------
(* LeaseMask::acquire: read the mask, then exchange it against the copy    *)
(* with its lowest free bit set, from the start again when that fails.     *)

AcquireLoad(h) ==
  /\ lease[h].at = "none"
  /\ bits # LeaseSlots
  /\ lease' = [lease EXCEPT ![h].at = "loaded"]
  /\ seen' = [seen EXCEPT ![h] = bits]
  /\ UNCHANGED <<bits, boundary>>

AcquireExchange(h) ==
  LET slot == Lowest(LeaseSlots \ seen[h])
  IN /\ lease[h].at = "loaded"
     /\ \/ /\ bits = seen[h]
           /\ bits' = bits \cup {slot}
           /\ lease' = [lease EXCEPT ![h] =
                [at |-> "held", slot |-> slot, released |-> FALSE, revoked |-> FALSE]]
        \/ /\ lease' = [lease EXCEPT ![h] = NoLease]
           /\ UNCHANGED bits
     /\ seen' = [seen EXCEPT ![h] = {}]
     /\ UNCHANGED boundary

---------------------------------------------------------------------------
(* Drop: the flag is swapped first; whoever finds it unset clears the bit. *)

\* The guard clears its bit whether or not it still has it.
DropSwapMutant(h) ==
  /\ lease[h].at = "held" /\ h \notin boundary.leases
  /\ lease' = [lease EXCEPT ![h].at = "dropping", ![h].released = TRUE]
  /\ UNCHANGED <<bits, seen, boundary>>

DropSwap(h) ==
  /\ lease[h].at = "held" /\ h \notin boundary.leases
  /\ lease' = [lease EXCEPT ![h] =
       IF @.released THEN NoLease ELSE [@ EXCEPT !.at = "dropping", !.released = TRUE]]
  /\ UNCHANGED <<bits, seen, boundary>>

DropClear(h) ==
  /\ lease[h].at = "dropping"
  /\ bits' = bits \ {lease[h].slot}
  /\ lease' = [lease EXCEPT ![h] = NoLease]
  /\ UNCHANGED <<seen, boundary>>

---------------------------------------------------------------------------
(* compaction_ready: any_held; revoke_overdue on the leases it was given,  *)
(* each of them flagged, swapped and then cleared; any_held again.         *)

\* The first look, and the answer when nothing is held.
BoundaryLook ==
  /\ boundary.at = "idle"
  /\ \E given \in SUBSET Outstanding :
       boundary' = IF bits = {} THEN [boundary EXCEPT !.at = "decided",
                                        !.unaware = {h \in Outstanding : ~lease[h].revoked}]
                   ELSE [boundary EXCEPT !.at = "revoking", !.leases = given]
  /\ UNCHANGED <<bits, lease, seen>>

\* The next of the leases is overdue; a slice may be visited in any order.
RevokeFlag(h) ==
  /\ boundary.at = "revoking"
  /\ h \in boundary.leases /\ lease[h].at = "held" /\ ~lease[h].revoked
  /\ lease' = [lease EXCEPT ![h].revoked = TRUE]
  /\ UNCHANGED <<bits, seen, boundary>>

RevokeSwap(h) ==
  /\ boundary.at = "revoking"
  /\ h \in boundary.leases /\ lease[h].revoked /\ ~lease[h].released
  /\ lease' = [lease EXCEPT ![h].released = TRUE]
  /\ boundary' = [boundary EXCEPT !.at = "clearing", !.slot = lease[h].slot]
  /\ UNCHANGED <<bits, seen>>

RevokeClear ==
  /\ boundary.at = "clearing"
  /\ bits' = bits \ {boundary.slot}
  /\ boundary' = [boundary EXCEPT !.at = "revoking", !.slot = 0]
  /\ UNCHANGED <<lease, seen>>

\* The second look: the answer is whether the cell may be compacted.
BoundaryDecide ==
  /\ boundary.at = "revoking"
  /\ \A h \in boundary.leases : lease[h].revoked => lease[h].released
  /\ boundary' = IF bits # {} THEN AtRestBoundary
                 ELSE [boundary EXCEPT !.at = "decided", !.leases = {},
                         !.unaware = {h \in Outstanding : ~lease[h].revoked}]
  /\ UNCHANGED <<bits, lease, seen>>

\* compact_gated runs, or the cell is left for the next boundary.
Compacted ==
  /\ boundary.at = "decided"
  /\ boundary' = AtRestBoundary
  /\ UNCHANGED <<bits, lease, seen>>

---------------------------------------------------------------------------
LeaseInit ==
  /\ bits = {}
  /\ lease = [h \in Holders |-> NoLease]
  /\ seen = [h \in Holders |-> {}]
  /\ boundary = AtRestBoundary

LeaseNext ==
  \/ \E h \in Holders :
       \/ AcquireLoad(h) \/ AcquireExchange(h)
       \/ DropSwap(h) \/ DropClear(h)
       \/ RevokeFlag(h) \/ RevokeSwap(h)
  \/ BoundaryLook \/ RevokeClear \/ BoundaryDecide \/ Compacted

LeaseSpec == LeaseInit /\ [][LeaseNext]_leaseVars

---------------------------------------------------------------------------
(* Properties.                                                             *)

\* Who owes the mask a bit: guards that nobody released, and the two that
\* have swapped their flag and not yet cleared it.
Owning == {h \in Holders : lease[h].at = "held" /\ ~lease[h].released}
                \cup {h \in Holders : lease[h].at = "dropping"}

\* A bit is set exactly while one lease owns it, whatever order a revocation,
\* the holder's drop and a new lease on the same bit come in; the boundary
\* clears a bit nobody else owns.
MaskExact ==
  /\ \A h, g \in Owning : lease[h].slot = lease[g].slot => h = g
  /\ boundary.at = "clearing" => \A h \in Owning : lease[h].slot # boundary.slot
  /\ bits = {lease[h].slot : h \in Owning}
            \cup (IF boundary.at = "clearing" THEN {boundary.slot} ELSE {})

\* The boundary compacts a cell only when each reader that had a lease at its
\* last look has been told of the revocation ("compaction proceeds ...
\* immediately" only for leases it revoked, harvest.rs).
ReadersTold == boundary.at = "decided" => boundary.unaware = {}

LeasesHonoured == MaskExact /\ ReadersTold

=============================================================================
