-------------------------- MODULE StreamingProofs --------------------------
(***************************************************************************)
(* What streaming rests on: the leases that keep a cell in place while it  *)
(* is read, and the grid that decides which cells are resident; the        *)
(* streams of deltas that keep a World's replicas current; the assets that *)
(* components wait for; the harvest of what a view shows; the inputs a     *)
(* client predicts, the deltas two editors merge, and a relation's map.    *)
(*                                                                         *)
(* The lease protocol is safe for any number of bits and guards: the       *)
(* mask's bits are exactly those that one guard, or the boundary in the    *)
(* middle of a revocation, owns.  MaskExact is not inductive as it stands: *)
(* a revocation takes the bit of a guard that is held because its flags    *)
(* say so, and an exchange finds a free bit because its copy of the mask   *)
(* had one.                                                                *)
(*                                                                         *)
(* The grid's regions and warm count are exact for any cells, settings and *)
(* pins.  NoThrash is not inductive: that a cell was sent one way has to   *)
(* say that no domain it is in, or is queued for, would send it back.      *)
(*                                                                         *)
(* A replica is current for any slots, components, clients and conditions. *)
(* ReplicaCurrent speaks of a client that is caught up; what is inductive  *)
(* speaks of one that still may be: field by field, either its world or a  *)
(* delta on its way brings the field, nothing behind that takes it, and    *)
(* the last word on its value is the server's.                             *)
(*                                                                         *)
(* References are resolved for any entities, assets and sources, callers   *)
(* and settings.  BoundWhenQuiet speaks of a table with nothing pending;   *)
(* what is inductive says of each component that it is bound to its asset  *)
(* as it is or waits for a pump or a load, of each entry what it waits     *)
(* for, and of the loads that no two have the same token.  AnswersFresh    *)
(* needs that what is under a key would do for every call that asks for    *)
(* it: a content each of them saw, and the latest if the stamp is current. *)
(*                                                                         *)
(* A harvest is exact for any cells, rows, views and widths of a block     *)
(* that divide a liveness word.  An ascending list of a set is the only    *)
(* one, so blocks packed to the left and joined are the filter they stand  *)
(* for; a block lies in one word; and the test of a block and that of a    *)
(* row are one where no product fails to be a number.                      *)
(*                                                                         *)
(* Predictions and merges hold for any inputs, losses, owners, editors and *)
(* deltas.  PredictionKept says what a quiet link shows; what is inductive *)
(* says what a busy one does: which inputs are on their way up, that the   *)
(* bases on their way down only rise, and that each brings the field as of *)
(* its base or follows one that did.                                       *)
(***************************************************************************)
EXTENDS Leases, Grid, Replication, AssetTable, Harvest, Prediction, WellFoundedInduction, StackLemmas

---------------------------------------------------------------------------
(* Leases.                                                                 *)

LeaseTypeOK ==
  /\ bits \in SUBSET LeaseSlots
  /\ lease \in [Holders -> [at : {"none", "loaded", "held", "dropping"},
                            slot : LeaseSlots \cup {0},
                            released : BOOLEAN, revoked : BOOLEAN]]
  /\ seen \in [Holders -> SUBSET LeaseSlots]
  /\ boundary \in [at : {"idle", "revoking", "clearing", "decided"},
                   leases : SUBSET Holders, slot : LeaseSlots \cup {0},
                   unaware : SUBSET Holders]

\* What the flags of a guard say of where it is.
FlagsTell ==
  \A h \in Holders :
    /\ lease[h].at \in {"none", "loaded"} => ~lease[h].revoked
    /\ lease[h].at = "dropping" => lease[h].released
    /\ lease[h].at = "held" /\ lease[h].released => lease[h].revoked

\* A guard about to exchange saw a free bit.
FreeSeen == \A h \in Holders : lease[h].at = "loaded" => seen[h] # LeaseSlots

LeaseInv == LeaseTypeOK /\ FlagsTell /\ FreeSeen /\ MaskExact /\ ReadersTold

\* trailing_zeros of the inverted mask names a bit: a set of slots that is not
\* empty has a lowest one.
LEMMA LowestIsIn ==
  ASSUME NEW S \in SUBSET Nat, S # {}
  PROVE  Lowest(S) \in S
<1>1. \E n \in S : \A m \in S : ~(<<m, n>> \in OpToRel(<, Nat))
  BY NatLessThanWellFounded, WFMin
<1>2. \A m, n \in Nat : m < n => <<m, n>> \in OpToRel(<, Nat)
  BY DEF OpToRel
<1>3. PICK n \in S : \A m \in S : ~(<<m, n>> \in OpToRel(<, Nat))
  BY <1>1
<1>4. \A m \in S : ~(m < n)
  BY <1>2, <1>3
<1>5. \A m \in S : n <= m
  BY <1>4
<1> QED
  BY <1>5 DEF Lowest

\* With no bit set nobody owns one, so every guard still out was told.
LEMMA NoneUnaware ==
  ASSUME LeaseInv, bits = {}
  PROVE  {h \in Outstanding : ~lease[h].revoked} = {}
<1>1. \A h \in Owning : lease[h].slot \in bits
  BY DEF LeaseInv, MaskExact
<1>2. \A h \in Holders : lease[h].at = "held" => lease[h].released = TRUE
  BY <1>1 DEF Owning, LeaseInv, LeaseTypeOK
<1> QED
  BY <1>2 DEF LeaseInv, FlagsTell, Outstanding

\* The owners are the same, and so are their bits.
LEMMA OwnersStay ==
  ASSUME LeaseInv, UNCHANGED bits, Owning' = Owning,
         \A g \in Owning : lease'[g].slot = lease[g].slot,
         \/ UNCHANGED boundary
         \/ boundary.at # "clearing" /\ boundary'.at # "clearing"
  PROVE  MaskExact'
BY DEF LeaseInv, MaskExact

\* One of the owners clears its bit.
LEMMA OwnerLeaves ==
  ASSUME LeaseInv, NEW h \in Owning, Owning' = Owning \ {h},
         \A g \in Owning \ {h} : lease'[g].slot = lease[g].slot,
         bits' = bits \ {lease[h].slot}, UNCHANGED boundary
  PROVE  MaskExact'
BY DEF LeaseInv, MaskExact

\* A fresh pool of bits and guards satisfies the invariant.
LEMMA LeaseInvInitially == LeaseInit => LeaseInv
BY LeaseAssumption DEF LeaseInit, LeaseInv, LeaseTypeOK, FlagsTell, FreeSeen, MaskExact,
  ReadersTold, Owning, NoLease, AtRestBoundary

\* Every step of a reader, of a guard being dropped and of the boundary keeps it.
LEMMA LeaseInvStep == LeaseInv /\ [LeaseNext]_leaseVars => LeaseInv'
<1> SUFFICES ASSUME LeaseInv, [LeaseNext]_leaseVars PROVE LeaseInv'
  OBVIOUS
<1> USE LeaseAssumption DEF LeaseInv
<1>1. ASSUME NEW h \in Holders, AcquireLoad(h) PROVE LeaseInv'
  BY <1>1 DEF AcquireLoad, LeaseTypeOK, FlagsTell, FreeSeen, MaskExact, ReadersTold, Owning
<1>2. ASSUME NEW h \in Holders, AcquireExchange(h) PROVE LeaseInv'
  <2> DEFINE slot == Lowest(LeaseSlots \ seen[h])
  <2>1. slot \in LeaseSlots \ seen[h]
    <3>1. seen[h] \in SUBSET LeaseSlots /\ seen[h] # LeaseSlots
      BY <1>2 DEF AcquireExchange, FreeSeen, LeaseTypeOK
    <3>2. LeaseSlots \ seen[h] \in SUBSET Nat /\ LeaseSlots \ seen[h] # {}
      BY <3>1 DEF LeaseAssumption
    <3> QED
      BY <3>2, LowestIsIn
  <2> HIDE DEF slot
  <2>2. CASE /\ bits = seen[h] /\ bits' = bits \cup {slot}
             /\ lease' = [lease EXCEPT ![h] =
                  [at |-> "held", slot |-> slot, released |-> FALSE, revoked |-> FALSE]]
    <3>1. boundary' = boundary /\ seen' = [seen EXCEPT ![h] = {}]
      BY <1>2 DEF AcquireExchange
    <3>2. (LeaseTypeOK /\ FlagsTell /\ FreeSeen /\ ReadersTold)'
      BY <2>1, <2>2, <3>1 DEF LeaseTypeOK, FlagsTell, FreeSeen, ReadersTold
    <3>3. lease[h].at = "loaded"
      BY <1>2 DEF AcquireExchange
    <3>4. Owning' = Owning \cup {h} /\ h \notin Owning
      BY <2>2, <3>3 DEF Owning, LeaseTypeOK
    <3>5. slot \notin bits
      BY <2>1, <2>2
    <3>6. \A g \in Owning : lease'[g] = lease[g] /\ lease[g].slot # slot
      BY <2>2, <3>4, <3>5 DEF MaskExact, LeaseTypeOK, Owning
    <3>7. lease'[h].slot = slot
      BY <2>2 DEF LeaseTypeOK
    <3>8. MaskExact'
      BY <2>2, <3>1, <3>4, <3>5, <3>6, <3>7 DEF MaskExact
    <3> QED
      BY <3>2, <3>8
  <2>3. CASE lease' = [lease EXCEPT ![h] = NoLease] /\ UNCHANGED bits
    BY <1>2, <2>3 DEF AcquireExchange, NoLease, LeaseTypeOK, FlagsTell, FreeSeen, MaskExact,
      ReadersTold, Owning
  <2> QED
    BY <1>2, <2>2, <2>3 DEF AcquireExchange, slot
<1>3. ASSUME NEW h \in Holders, DropSwap(h) PROVE LeaseInv'
  <2>1. (LeaseTypeOK /\ FlagsTell /\ FreeSeen /\ ReadersTold)'
    <3>1. CASE lease[h].released
      <4>1. lease' = [lease EXCEPT ![h] = NoLease] /\ UNCHANGED <<bits, seen, boundary>>
        BY <1>3, <3>1 DEF DropSwap
      <4>2. NoLease \in [at : {"none", "loaded", "held", "dropping"},
                         slot : LeaseSlots \cup {0}, released : BOOLEAN, revoked : BOOLEAN]
        BY DEF NoLease
      <4>3. LeaseTypeOK'
        BY <4>1, <4>2 DEF LeaseTypeOK
      <4> QED
        BY <4>1, <4>3 DEF NoLease, LeaseTypeOK, FlagsTell, FreeSeen, ReadersTold
    <3>2. CASE ~lease[h].released
      <4>1. /\ lease' = [lease EXCEPT ![h] =
                  [lease[h] EXCEPT !.at = "dropping", !.released = TRUE]]
            /\ UNCHANGED <<bits, seen, boundary>>
        BY <1>3, <3>2 DEF DropSwap
      <4>2. LeaseTypeOK'
        BY <4>1 DEF LeaseTypeOK
      <4> QED
        BY <4>1, <4>2 DEF LeaseTypeOK, FlagsTell, FreeSeen, ReadersTold
    <3> QED
      BY <3>1, <3>2
  <2>2. Owning' = Owning /\ \A g \in Owning : lease'[g].slot = lease[g].slot
    BY <1>3 DEF DropSwap, NoLease, LeaseTypeOK, Owning
  <2>3. MaskExact'
    BY <1>3, <2>2, OwnersStay DEF DropSwap
  <2> QED
    BY <2>1, <2>3
<1>4. ASSUME NEW h \in Holders, DropClear(h) PROVE LeaseInv'
  <2>1. (LeaseTypeOK /\ FlagsTell /\ FreeSeen /\ ReadersTold)'
    <3>1. /\ lease' = [lease EXCEPT ![h] = NoLease] /\ bits' = bits \ {lease[h].slot}
          /\ UNCHANGED <<seen, boundary>>
      BY <1>4 DEF DropClear
    <3>2. NoLease \in [at : {"none", "loaded", "held", "dropping"},
                       slot : LeaseSlots \cup {0}, released : BOOLEAN, revoked : BOOLEAN]
      BY DEF NoLease
    <3>3. LeaseTypeOK'
      BY <3>1, <3>2 DEF LeaseTypeOK
    <3>4. (FlagsTell /\ FreeSeen)'
      BY <3>1, <3>3 DEF NoLease, LeaseTypeOK, FlagsTell, FreeSeen
    <3>5. ReadersTold'
      BY <3>1, <3>3 DEF NoLease, LeaseTypeOK, ReadersTold
    <3> QED
      BY <3>3, <3>4, <3>5
  <2>2. h \in Owning /\ Owning' = Owning \ {h}
    BY <1>4 DEF DropClear, NoLease, LeaseTypeOK, Owning
  <2>3. \A g \in Owning \ {h} : lease'[g].slot = lease[g].slot
    BY <1>4 DEF DropClear, LeaseTypeOK, Owning
  <2>4. bits' = bits \ {lease[h].slot} /\ boundary' = boundary
    BY <1>4 DEF DropClear
  <2>5. MaskExact'
    BY <2>2, <2>3, <2>4, OwnerLeaves
  <2> QED
    BY <2>1, <2>5
<1>5. ASSUME NEW h \in Holders, RevokeFlag(h) PROVE LeaseInv'
  <2>1. (LeaseTypeOK /\ FlagsTell /\ FreeSeen /\ ReadersTold)'
    <3>1. lease' = [lease EXCEPT ![h].revoked = TRUE] /\ lease[h].at = "held"
      BY <1>5 DEF RevokeFlag
    <3>2. UNCHANGED <<bits, seen, boundary>>
      BY <1>5 DEF RevokeFlag
    <3>3. LeaseTypeOK'
      BY <3>1, <3>2 DEF LeaseTypeOK
    <3>4. (FlagsTell /\ FreeSeen)'
      BY <3>1, <3>2, <3>3 DEF LeaseTypeOK, FlagsTell, FreeSeen
    <3>5. ReadersTold'
      BY <3>1, <3>2 DEF ReadersTold, LeaseTypeOK
    <3> QED
      BY <3>3, <3>4, <3>5
  <2>2. Owning' = Owning /\ \A g \in Owning : lease'[g].slot = lease[g].slot
    BY <1>5 DEF RevokeFlag, LeaseTypeOK, Owning
  <2>3. MaskExact'
    BY <1>5, <2>2, OwnersStay DEF RevokeFlag
  <2> QED
    BY <2>1, <2>3
<1>6. ASSUME NEW h \in Holders, RevokeSwap(h) PROVE LeaseInv'
  <2>1. lease[h].at = "held"
    BY <1>6 DEF RevokeSwap, LeaseTypeOK, FlagsTell
  <2>2. (LeaseTypeOK /\ FlagsTell /\ FreeSeen /\ ReadersTold)'
    <3>1. lease' = [lease EXCEPT ![h].released = TRUE] /\ lease[h].revoked
      BY <1>6 DEF RevokeSwap
    <3>2. /\ boundary' = [boundary EXCEPT !.at = "clearing", !.slot = lease[h].slot]
          /\ UNCHANGED <<bits, seen>>
      BY <1>6 DEF RevokeSwap
    <3>3. LeaseTypeOK'
      BY <3>1, <3>2 DEF LeaseTypeOK
    <3>4. (FlagsTell /\ FreeSeen)'
      BY <2>1, <3>1, <3>2, <3>3 DEF LeaseTypeOK, FlagsTell, FreeSeen
    <3>5. ReadersTold'
      BY <3>2 DEF ReadersTold, LeaseTypeOK
    <3> QED
      BY <3>3, <3>4, <3>5
  <2>3. h \in Owning /\ Owning' = Owning \ {h}
    BY <1>6, <2>1 DEF RevokeSwap, LeaseTypeOK, Owning
  <2>4. \A g \in Owning : lease'[g].slot = lease[g].slot
    BY <1>6 DEF RevokeSwap, LeaseTypeOK, Owning
  <2>5. /\ bits' = bits /\ boundary.at # "clearing"
        /\ boundary'.at = "clearing" /\ boundary'.slot = lease[h].slot
    BY <1>6 DEF RevokeSwap, LeaseTypeOK
  <2>6. MaskExact'
    BY <2>3, <2>4, <2>5 DEF MaskExact
  <2> QED
    BY <2>2, <2>6
<1>7. CASE BoundaryLook
  <2>1. bits = {} => {h \in Outstanding : ~lease[h].revoked} = {}
    BY NoneUnaware
  <2>2. (LeaseTypeOK /\ FlagsTell /\ FreeSeen /\ ReadersTold)'
    <3>1. PICK given \in SUBSET Outstanding :
            boundary' = IF bits = {} THEN [boundary EXCEPT !.at = "decided",
                                !.unaware = {h \in Outstanding : ~lease[h].revoked}]
                        ELSE [boundary EXCEPT !.at = "revoking", !.leases = given]
      BY <1>7 DEF BoundaryLook
    <3>2. UNCHANGED <<bits, lease, seen>>
      BY <1>7 DEF BoundaryLook
    <3>3. LeaseTypeOK'
      BY <2>1, <3>1, <3>2 DEF LeaseTypeOK, Outstanding
    <3>4. (FlagsTell /\ FreeSeen)'
      BY <3>2 DEF FlagsTell, FreeSeen
    <3>5. ReadersTold'
      BY <2>1, <3>1 DEF ReadersTold, LeaseTypeOK
    <3> QED
      BY <3>3, <3>4, <3>5
  <2>3. boundary.at # "clearing" /\ boundary'.at # "clearing"
    BY <1>7 DEF BoundaryLook, LeaseTypeOK
  <2>4. Owning' = Owning /\ \A g \in Owning : lease'[g].slot = lease[g].slot
    BY <1>7 DEF BoundaryLook, Owning
  <2>5. MaskExact'
    BY <1>7, <2>3, <2>4, OwnersStay DEF BoundaryLook
  <2> QED
    BY <2>2, <2>5
<1>8. CASE RevokeClear
  <2>1. (LeaseTypeOK /\ FlagsTell /\ FreeSeen /\ ReadersTold)'
    BY <1>8 DEF RevokeClear, LeaseTypeOK, FlagsTell, FreeSeen, ReadersTold
  <2>2. /\ bits' = bits \ {boundary.slot} /\ lease' = lease
        /\ boundary.at = "clearing" /\ boundary'.at # "clearing"
    BY <1>8 DEF RevokeClear, LeaseTypeOK
  <2>3. Owning' = Owning
    BY <2>2 DEF Owning
  <2>4. MaskExact'
    BY <2>2, <2>3 DEF MaskExact
  <2> QED
    BY <2>1, <2>4
<1>9. CASE BoundaryDecide
  <2>1. /\ UNCHANGED <<bits, lease, seen>> /\ boundary.at = "revoking"
        /\ boundary' = IF bits # {} THEN AtRestBoundary
             ELSE [boundary EXCEPT !.at = "decided", !.leases = {},
                     !.unaware = {h \in Outstanding : ~lease[h].revoked}]
    BY <1>9 DEF BoundaryDecide
  <2>2. bits = {} => {h \in Outstanding : ~lease[h].revoked} = {}
    BY NoneUnaware
  <2>3. LeaseTypeOK'
    BY <2>1, <2>2 DEF LeaseTypeOK, AtRestBoundary
  <2>4. (FlagsTell /\ FreeSeen)'
    BY <2>1 DEF FlagsTell, FreeSeen
  <2>5. ReadersTold' /\ boundary'.at # "clearing"
    BY <2>1, <2>2 DEF ReadersTold, LeaseTypeOK, AtRestBoundary
  <2>6. Owning' = Owning
    BY <2>1 DEF Owning
  <2>7. MaskExact'
    BY <2>1, <2>5, <2>6, OwnersStay
  <2> QED
    BY <2>3, <2>4, <2>5, <2>7
<1>10. CASE Compacted
  BY <1>10 DEF Compacted, AtRestBoundary, LeaseTypeOK, FlagsTell, FreeSeen, MaskExact,
    ReadersTold, Owning
<1>11. CASE UNCHANGED leaseVars
  BY <1>11 DEF leaseVars, LeaseTypeOK, FlagsTell, FreeSeen, MaskExact, ReadersTold, Owning
<1> QED
  BY <1>1, <1>2, <1>3, <1>4, <1>5, <1>6, <1>7, <1>8, <1>9, <1>10, <1>11 DEF LeaseNext

\* However readers, drops, revocations and new leases on the same bit race, a
\* bit is set exactly while one owner has it, and the boundary compacts only
\* when every reader still out was told (LeaseMask, HarvestPipeline).
THEOREM LeasesAlwaysHonoured == LeaseSpec => []LeasesHonoured
<1>1. LeaseInv => LeasesHonoured
  BY DEF LeaseInv, LeasesHonoured
<1> QED
  BY <1>1, LeaseInvInitially, LeaseInvStep, PTL DEF LeaseSpec

---------------------------------------------------------------------------
(* The grid.                                                               *)

USE DEF GpuResident, Tracked, Domains

GridTypeOK ==
  /\ domain \in [Tracked -> Domains] /\ Tracked \subseteq Coords
  /\ pinned \in [Coords -> PinDomains \cup {Follow}]
  /\ gpuId \in [Coords -> GridRegions \cup {NoGpuId}]
  /\ idle \subseteq GridRegions /\ retiring \subseteq GridRegions
  /\ transitions \in Seq([coord : Coords, from : Domains, to : Domains])
  /\ \A i \in DOMAIN transitions :
       transitions[i].coord \in Tracked /\ transitions[i].from # transitions[i].to
  /\ warmCount \in Int /\ observer \in Int
  /\ heading \in [Coords -> SUBSET {"up", "down"}]

\* What RegionsMatchDomains counts, said of who has each region.
RegionsHaveOneHolder ==
  /\ \A c \in Coords : (gpuId[c] # NoGpuId) <=> c \in Tracked /\ GpuResident(domain[c])
  /\ \A c, d \in Coords : gpuId[c] # NoGpuId /\ gpuId[c] = gpuId[d] => c = d
  /\ idle \cap retiring = {}
  /\ \A c \in Coords : gpuId[c] \notin idle \cup retiring
  /\ \A g \in GridRegions : g \in idle \cup retiring \/ \E c \in Coords : gpuId[c] = g

\* Where the observer and the pins would not send a cell of domain d down
\* (or up), whatever the warm count is.
StaysUp(c, d) ==
  IF pinned[c] # Follow THEN Rank(pinned[c]) >= Rank(d)
  ELSE /\ d = "Warm" => WarmOn /\ (MarginPromote(c) \/ ~WarmDemote(c))
       /\ d = "Margin" => InnerPromote(c) \/ ~MarginDemote(c)
       /\ d = "Inner" => ~InnerDemote(c)
StaysDown(c, d) ==
  IF pinned[c] # Follow THEN Rank(pinned[c]) <= Rank(d)
  ELSE /\ d \in {"Outer", "Warm"} => ~MarginPromote(c)
       /\ d = "Outer" => ~(WarmOn /\ Within(c, WarmRadius + WarmPad))
       /\ d = "Margin" => ~InnerPromote(c)

Queued(c) == {transitions[i].to : i \in {j \in DOMAIN transitions : transitions[j].coord = c}}

HeadingsHold ==
  \A c \in Coords :
    /\ heading[c] # {} => c \in Tracked
    /\ "up" \in heading[c] => \A d \in {domain[c]} \cup Queued(c) : StaysUp(c, d)
    /\ "down" \in heading[c] => \A d \in {domain[c]} \cup Queued(c) : StaysDown(c, d)
    /\ ~({"up", "down"} \subseteq heading[c])

GridInv == GridTypeOK /\ RegionsHaveOneHolder /\ WarmCounted

\* Without a tier, and nothing pinned to it, no cell is ever sent to it.
TierIsThere ==
  WarmOn \/ /\ \A c \in Tracked : domain[c] # "Warm"
            /\ \A i \in DOMAIN transitions : transitions[i].to # "Warm"

\* What the settings have to be for hysteresis to work.
WellTuned ==
  /\ GridHyst >= 0 /\ WarmHyst >= 0
  /\ WarmOn \/ "Warm" \notin PinDomains

SteadyInv == GridInv /\ TierIsThere /\ HeadingsHold

---------------------------------------------------------------------------
\* classify only sends a cell to a domain there is.
LEMMA TargetIsADomain ==
  ASSUME GridTypeOK, NEW c \in Tracked
  PROVE  Target(c) \in Domains
<1>1. domain[c] \in Domains /\ pinned[c] \in PinDomains \cup {Follow} /\ PinDomains \subseteq Domains
  BY GridAssumption DEF GridTypeOK
<1>2. CASE pinned[c] # Follow
  BY <1>1, <1>2 DEF Target
<1>3. CASE pinned[c] = Follow
  BY <1>1, <1>3 DEF Target
<1> QED
  BY <1>2, <1>3

\* A queue that classify fills holds a step for some of the cells that move.
LEMMA ClassifyQueues ==
  ASSUME GridTypeOK, Classify
  PROVE  /\ transitions' \in Seq([coord : Coords, from : Domains, to : Domains])
         /\ \A i \in DOMAIN transitions' :
              /\ transitions'[i].coord \in Tracked
              /\ transitions'[i].from = domain[transitions'[i].coord]
              /\ transitions'[i].to = Target(transitions'[i].coord)
              /\ transitions'[i].from # transitions'[i].to
<1> DEFINE moving == {c \in Tracked : Target(c) # domain[c]}
           step(c) == [coord |-> c, from |-> domain[c], to |-> Target(c)]
<1>1. PICK order \in SetToSeqs(moving) : transitions' = [i \in DOMAIN order |-> step(order[i])]
  BY DEF Classify
<1>2. Cardinality(moving) \in Nat
  BY FS_Subset, FS_CardinalityType, GridAssumption DEF GridTypeOK
<1>3. order \in [1 .. Cardinality(moving) -> moving]
  BY DEF SetToSeqs
<1>4. \A c \in moving : /\ c \in Tracked /\ step(c) \in [coord : Coords, from : Domains, to : Domains]
                        /\ Target(c) # domain[c]
  BY TargetIsADomain DEF GridTypeOK
<1>5. DOMAIN transitions' = 1 .. Cardinality(moving)
      /\ \A i \in 1 .. Cardinality(moving) : transitions'[i] = step(order[i]) /\ order[i] \in moving
  BY <1>1, <1>3
<1> HIDE DEF moving
<1>6. transitions' \in Seq([coord : Coords, from : Domains, to : Domains])
  <2> DEFINE n == Cardinality(moving)
             queue == transitions'
             Steps == [coord : Coords, from : Domains, to : Domains]
  <2>1. queue = [i \in 1 .. n |-> queue[i]]
    BY <1>1, <1>3
  <2>2. n \in Nat /\ \A i \in 1 .. n : queue[i] \in Steps
    BY <1>2, <1>4, <1>5
  <2> HIDE DEF n, queue, Steps
  <2>3. queue \in Seq(Steps)
    BY <2>1, <2>2, IsASeq
  <2> QED
    BY <2>3 DEF queue, Steps
<1>7. \A i \in DOMAIN transitions' :
        /\ transitions'[i].coord \in Tracked
        /\ transitions'[i].from = domain[transitions'[i].coord]
        /\ transitions'[i].to = Target(transitions'[i].coord)
        /\ transitions'[i].from # transitions'[i].to
  <2> TAKE i \in DOMAIN transitions'
  <2>1. transitions'[i] = step(order[i]) /\ order[i] \in moving
    BY <1>5
  <2> QED
    BY <2>1, <1>4
<1> QED
  BY <1>6, <1>7

\* Commit counts the cell out of Warm and into it.
LEMMA CommitCounts ==
  ASSUME GridTypeOK, WarmCounted, NEW t \in [coord : Coords, from : Domains, to : Domains],
         t.coord \in Tracked, t.from # t.to, domain[t.coord] = t.from, Commit(t)
  PROVE  /\ WarmCounted' /\ warmCount' \in Int
         /\ domain' \in [Tracked -> Domains] /\ Tracked' = Tracked
         /\ domain'[t.coord] = t.to
         /\ \A c \in Tracked \ {t.coord} : domain'[c] = domain[c]
<1> DEFINE W == {c \in Tracked : domain[c] = "Warm"}
<1>1. /\ domain' \in [Tracked -> Domains] /\ Tracked' = Tracked
      /\ domain'[t.coord] = t.to
      /\ \A c \in Tracked \ {t.coord} : domain'[c] = domain[c]
  BY DEF Commit, GridTypeOK
<1>2. IsFiniteSet(W) /\ Cardinality(W) \in Nat
  BY FS_Subset, FS_CardinalityType, GridAssumption DEF GridTypeOK
<1>3. W' = {c \in Tracked : domain'[c] = "Warm"}
  BY <1>1
<1>7. (warmCount = Cardinality(W)) /\ (WarmCounted' <=> warmCount' = Cardinality(W'))
  BY DEF WarmCounted
<1>4. CASE t.from = "Warm"
  <2>1. W' = W \ {t.coord} /\ t.coord \in W
    BY <1>1, <1>3, <1>4
  <2>2. warmCount' = warmCount - 1
    BY <1>4 DEF Commit, GridTypeOK
  <2> HIDE DEF W
  <2>3. Cardinality(W') = Cardinality(W) - 1
    BY <1>2, <2>1, FS_RemoveElement
  <2> QED
    BY <1>1, <1>2, <1>7, <2>2, <2>3 DEF GridTypeOK
<1>5. CASE t.to = "Warm"
  <2>1. W' = W \cup {t.coord} /\ t.coord \notin W
    BY <1>1, <1>3, <1>5
  <2>2. warmCount' = warmCount + 1
    BY <1>5 DEF Commit, GridTypeOK
  <2> HIDE DEF W
  <2>3. Cardinality(W') = Cardinality(W) + 1
    BY <1>2, <2>1, FS_AddElement
  <2> QED
    BY <1>1, <1>2, <1>7, <2>2, <2>3 DEF GridTypeOK
<1>6. CASE t.from # "Warm" /\ t.to # "Warm"
  <2>1. W' = W
    BY <1>1, <1>3, <1>6
  <2>2. warmCount' = warmCount
    BY <1>6 DEF Commit, GridTypeOK
  <2> HIDE DEF W
  <2> QED
    BY <1>1, <1>2, <1>7, <2>1, <2>2 DEF GridTypeOK
<1> QED
  BY <1>4, <1>5, <1>6

\* What execution of one step leaves of the queue.
LEMMA ExecuteDrains ==
  ASSUME GridTypeOK, transitions # <<>>, transitions' = Tail(transitions)
  PROVE  /\ transitions' \in Seq([coord : Coords, from : Domains, to : Domains])
         /\ Head(transitions) = transitions[1] /\ 1 \in DOMAIN transitions
         /\ transitions[1] \in [coord : Coords, from : Domains, to : Domains]
         /\ \A i \in DOMAIN transitions' : i + 1 \in DOMAIN transitions
                                           /\ transitions'[i] = transitions[i + 1]
<1> USE DEF GridTypeOK
<1>1. Len(transitions) \in Nat \ {0} /\ DOMAIN transitions = 1 .. Len(transitions)
  OBVIOUS
<1>2. /\ Tail(transitions) \in Seq([coord : Coords, from : Domains, to : Domains])
      /\ Len(Tail(transitions)) = Len(transitions) - 1
      /\ \A i \in 1 .. Len(transitions) - 1 : Tail(transitions)[i] = transitions[i + 1]
  BY <1>1
<1>3. DOMAIN Tail(transitions) = 1 .. Len(transitions) - 1
  BY <1>2
<1>4. /\ Head(transitions) = transitions[1] /\ 1 \in DOMAIN transitions
      /\ transitions[1] \in [coord : Coords, from : Domains, to : Domains]
  <2> DEFINE Steps == [coord : Coords, from : Domains, to : Domains]
  <2>1. transitions \in Seq(Steps) /\ 1 \in 1 .. Len(transitions)
    BY <1>1
  <2> HIDE DEF Steps
  <2>2. transitions[1] \in Steps /\ Head(transitions) = transitions[1]
    BY <2>1, ElementOfSeq
  <2> QED
    BY <1>1, <2>2 DEF Steps
<1>5. \A i \in DOMAIN Tail(transitions) : i + 1 \in DOMAIN transitions
                                         /\ Tail(transitions)[i] = transitions[i + 1]
  BY <1>1, <1>2, <1>3
<1> QED
  BY <1>2, <1>4, <1>5

\* One step, by what it did: moved the cell or left it, and the store's side.
ExecuteCases(t) ==
  \/ UNCHANGED <<domain, warmCount, storeSide>>
  \/ /\ domain[t.coord] = t.from /\ Commit(t)
     /\ \/ \E g \in idle : /\ ~GpuResident(t.from) /\ GpuResident(t.to)
                           /\ idle' = idle \ {g} /\ retiring' = retiring
                           /\ gpuId' = [gpuId EXCEPT ![t.coord] = g]
        \/ /\ GpuResident(t.from) /\ ~GpuResident(t.to)
           /\ retiring' = retiring \cup {gpuId[t.coord]} /\ idle' = idle
           /\ gpuId' = [gpuId EXCEPT ![t.coord] = NoGpuId]
        \/ (GpuResident(t.from) <=> GpuResident(t.to)) /\ UNCHANGED storeSide

\* Each arm of execute_transitions_with_ram is one of these cases.
LEMMA ExecuteIsOneOf ==
  ASSUME Execute
  PROVE  ExecuteCases(Head(transitions))
<1> DEFINE t == Head(transitions)
<1> SUFFICES ASSUME domain[t.coord] = t.from
             PROVE  ExecuteCases(t)
  BY DEF Execute, ExecuteCases, Decline
<1>1. CASE Promote(t)
  BY <1>1 DEF Promote, ExecuteCases, Decline
<1>2. CASE Demote(t)
  BY <1>2 DEF Demote, ExecuteCases
<1>3. CASE WarmUp(t)
  BY <1>3 DEF WarmUp, ExecuteCases, Decline
<1>4. CASE CoolDown(t)
  BY <1>4 DEF CoolDown, ExecuteCases
<1>5. CASE Reflag(t)
  BY <1>5 DEF Reflag, ExecuteCases
<1> QED
  BY <1>1, <1>2, <1>3, <1>4, <1>5 DEF Execute

---------------------------------------------------------------------------
\* StreamingGrid::new, and each operation after it, keep the invariant.
LEMMA GridInitInv ==
  ASSUME GridInit
  PROVE  GridInv
<1>1. Tracked = {}
  BY DEF GridInit
<1>2. GridTypeOK
  BY <1>1, GridAssumption DEF GridInit, GridTypeOK, Still
<1>3. RegionsHaveOneHolder
  BY <1>1, GridAssumption DEF GridInit, RegionsHaveOneHolder
<1>4. {c \in Tracked : domain[c] = "Warm"} = {}
  BY <1>1
<1> QED
  BY <1>2, <1>3, <1>4, FS_EmptySet DEF GridInv, WarmCounted, GridInit

\* Executing one queued step keeps the invariant and untracks no cell.
LEMMA ExecuteKeeps ==
  ASSUME GridInv, Execute
  PROVE  GridInv' /\ Tracked' = Tracked
<1> DEFINE t == Head(transitions)
<1> USE DEF GridInv
<1>1. transitions # <<>> /\ transitions' = Tail(transitions) /\ UNCHANGED <<pinned, observer, heading>>
  BY DEF Execute
<1>2. /\ t = transitions[1] /\ t \in [coord : Coords, from : Domains, to : Domains]
      /\ t.coord \in Tracked /\ t.from # t.to
  BY <1>1, ExecuteDrains DEF GridTypeOK
<1>3. ExecuteCases(t)
  BY ExecuteIsOneOf
<1> HIDE DEF t
<1>4. ASSUME domain' \in [Tracked -> Domains], Tracked' = Tracked, warmCount' \in Int,
             gpuId' \in [Coords -> GridRegions \cup {NoGpuId}],
             idle' \subseteq GridRegions, retiring' \subseteq GridRegions
      PROVE  GridTypeOK'
  BY <1>1, <1>4, ExecuteDrains DEF GridTypeOK
<1>5. CASE UNCHANGED <<domain, warmCount, storeSide>>
  <2>1. UNCHANGED <<domain, warmCount, gpuId, idle, retiring>>
    BY <1>5 DEF storeSide
  <2>2. GridTypeOK'
    BY <1>4, <2>1 DEF GridTypeOK
  <2> QED
    BY <2>1, <2>2 DEF RegionsHaveOneHolder, WarmCounted
<1>6. CASE /\ domain[t.coord] = t.from /\ Commit(t)
           /\ ~UNCHANGED <<domain, warmCount, storeSide>>
  <2>1. /\ WarmCounted' /\ warmCount' \in Int
        /\ domain' \in [Tracked -> Domains] /\ Tracked' = Tracked
        /\ domain'[t.coord] = t.to
        /\ \A c \in Tracked \ {t.coord} : domain'[c] = domain[c]
    BY <1>2, <1>6, CommitCounts
  <2>2. ASSUME NEW g \in idle, ~GpuResident(t.from), GpuResident(t.to),
               idle' = idle \ {g}, retiring' = retiring,
               gpuId' = [gpuId EXCEPT ![t.coord] = g]
        PROVE  GridInv'
    <3>1. /\ gpuId' \in [Coords -> GridRegions \cup {NoGpuId}]
          /\ gpuId'[t.coord] = g /\ g # NoGpuId
          /\ \A c \in Coords \ {t.coord} : gpuId'[c] = gpuId[c] /\ gpuId[c] # g
      BY <1>2, <2>2, GridAssumption DEF GridTypeOK, RegionsHaveOneHolder
    <3>2. GridTypeOK'
      BY <1>4, <2>1, <2>2, <3>1 DEF GridTypeOK
    <3>3. gpuId[t.coord] = NoGpuId
      BY <1>2, <1>6, <2>2 DEF RegionsHaveOneHolder
    <3>4. \A c \in Coords : (gpuId'[c] # NoGpuId) <=> c \in Tracked' /\ GpuResident(domain'[c])
      BY <1>2, <1>6, <2>1, <2>2, <3>1 DEF RegionsHaveOneHolder
    <3>5. \A c, d \in Coords : gpuId'[c] # NoGpuId /\ gpuId'[c] = gpuId'[d] => c = d
      BY <3>1 DEF RegionsHaveOneHolder
    <3>6. idle' \cap retiring' = {} /\ \A c \in Coords : gpuId'[c] \notin idle' \cup retiring'
      BY <2>2, <3>1 DEF RegionsHaveOneHolder
    <3>7. \A x \in GridRegions : x \in idle' \cup retiring' \/ \E c \in Coords : gpuId'[c] = x
      <4> TAKE x \in GridRegions
      <4>1. CASE x = g
        BY <1>2, <3>1, <4>1 DEF GridTypeOK
      <4>2. ASSUME NEW c \in Coords, gpuId[c] = x, x # g
            PROVE  gpuId'[c] = x
        BY <3>1, <3>3, <4>2, GridAssumption
      <4>3. CASE x # g
        BY <2>2, <4>2, <4>3 DEF RegionsHaveOneHolder
      <4> QED
        BY <4>1, <4>3
    <3> QED
      BY <2>1, <3>2, <3>4, <3>5, <3>6, <3>7 DEF RegionsHaveOneHolder
  <2>3. ASSUME GpuResident(t.from), ~GpuResident(t.to),
               retiring' = retiring \cup {gpuId[t.coord]}, idle' = idle,
               gpuId' = [gpuId EXCEPT ![t.coord] = NoGpuId]
        PROVE  GridInv'
    <3>1. /\ gpuId' \in [Coords -> GridRegions \cup {NoGpuId}]
          /\ gpuId'[t.coord] = NoGpuId
          /\ \A c \in Coords \ {t.coord} : gpuId'[c] = gpuId[c]
      BY <1>2, <2>3 DEF GridTypeOK
    <3>2. gpuId[t.coord] # NoGpuId /\ gpuId[t.coord] \in GridRegions
          /\ gpuId[t.coord] \notin idle \cup retiring
          /\ \A c \in Coords \ {t.coord} : gpuId[c] # gpuId[t.coord]
      BY <1>2, <1>6, <2>3 DEF RegionsHaveOneHolder, GridTypeOK
    <3>3. GridTypeOK'
      BY <1>4, <2>1, <2>3, <3>1, <3>2 DEF GridTypeOK
    <3>4. \A c \in Coords : (gpuId'[c] # NoGpuId) <=> c \in Tracked' /\ GpuResident(domain'[c])
      BY <1>2, <1>6, <2>1, <2>3, <3>1 DEF RegionsHaveOneHolder
    <3>5. \A c, d \in Coords : gpuId'[c] # NoGpuId /\ gpuId'[c] = gpuId'[d] => c = d
      BY <3>1 DEF RegionsHaveOneHolder
    <3>6. idle' \cap retiring' = {} /\ \A c \in Coords : gpuId'[c] \notin idle' \cup retiring'
      BY <1>2, <2>3, <3>1, <3>2, GridAssumption DEF RegionsHaveOneHolder, GridTypeOK
    <3>7. \A x \in GridRegions : x \in idle' \cup retiring' \/ \E c \in Coords : gpuId'[c] = x
      BY <1>2, <2>3, <3>1, <3>2 DEF RegionsHaveOneHolder
    <3> QED
      BY <2>1, <3>3, <3>4, <3>5, <3>6, <3>7 DEF RegionsHaveOneHolder
  <2>4. ASSUME GpuResident(t.from) <=> GpuResident(t.to), UNCHANGED storeSide
        PROVE  GridInv'
    <3>1. UNCHANGED <<gpuId, idle, retiring>>
      BY <2>4 DEF storeSide
    <3>2. GridTypeOK'
      BY <1>4, <2>1, <3>1 DEF GridTypeOK
    <3>3. \A c \in Tracked : GpuResident(domain'[c]) <=> GpuResident(domain[c])
      BY <1>2, <1>6, <2>1, <2>4
    <3> QED
      BY <2>1, <3>1, <3>2, <3>3 DEF RegionsHaveOneHolder
  <2>5. GridInv'
    BY <1>3, <1>6, <2>2, <2>3, <2>4 DEF ExecuteCases
  <2> QED
    BY <2>1, <2>5
<1> QED
  BY <1>3, <1>5, <1>6 DEF ExecuteCases

\* Every step of the grid, its caller or the store keeps the invariant.
LEMMA GridNextInv ==
  ASSUME GridInv, [GridNext]_gridVars
  PROVE  GridInv'
<1> USE DEF GridInv
<1>1. CASE Classify
  <2>1. UNCHANGED <<domain, pinned, gpuId, idle, retiring, warmCount, observer>>
    BY <1>1 DEF Classify, storeSide
  <2>2. heading' \in [Coords -> SUBSET {"up", "down"}]
    <3>1. \A c : Way(domain[c], Target(c)) \in {"up", "down"}
      BY DEF Way
    <3> QED
      BY <1>1, <3>1 DEF Classify, GridTypeOK
  <2>3. /\ transitions' \in Seq([coord : Coords, from : Domains, to : Domains])
        /\ \A i \in DOMAIN transitions' : transitions'[i].coord \in Tracked
                                          /\ transitions'[i].from # transitions'[i].to
    BY <1>1, ClassifyQueues
  <2>4. GridTypeOK'
    BY <2>1, <2>2, <2>3 DEF GridTypeOK
  <2> QED
    BY <2>1, <2>4 DEF RegionsHaveOneHolder, WarmCounted
<1>2. CASE Execute
  BY <1>2, ExecuteKeeps
<1>3. ASSUME NEW c \in Coords, Materialize(c)
      PROVE  GridInv'
  <2>1. /\ c \notin Tracked /\ Tracked' = Tracked \cup {c} /\ domain'[c] = "Outer"
        /\ domain' \in [Tracked \cup {c} -> Domains]
        /\ \A x \in Tracked : domain'[x] = domain[x]
        /\ UNCHANGED <<pinned, gpuId, idle, retiring, transitions, warmCount, observer, heading>>
    BY <1>3 DEF Materialize, storeSide, GridTypeOK
  <2>2. GridTypeOK'
    BY <2>1 DEF GridTypeOK
  <2>3. {x \in Tracked : domain[x] = "Warm"}' = {x \in Tracked : domain[x] = "Warm"}
    BY <2>1
  <2>4. \A x \in Coords : (gpuId[x] # NoGpuId) <=> x \in Tracked' /\ GpuResident(domain'[x])
    BY <2>1 DEF RegionsHaveOneHolder
  <2> QED
    BY <2>1, <2>2, <2>3, <2>4 DEF RegionsHaveOneHolder, WarmCounted
<1>4. ASSUME NEW c \in Coords, NEW d \in PinDomains \cup {Follow}, Pin(c, d)
      PROVE  GridInv'
  <2>1. UNCHANGED <<domain, gpuId, idle, retiring, transitions, warmCount, observer>>
    BY <1>4 DEF Pin, storeSide
  <2>2. GridTypeOK'
    BY <1>4, <2>1 DEF Pin, GridTypeOK, Still
  <2> QED
    BY <2>1, <2>2 DEF RegionsHaveOneHolder, WarmCounted
<1>5. ASSUME NEW p \in Positions, Observe(p)
      PROVE  GridInv'
  <2>1. UNCHANGED <<domain, pinned, gpuId, idle, retiring, transitions, warmCount>>
    BY <1>5 DEF Observe, storeSide
  <2>2. GridTypeOK'
    BY <1>5, <2>1, GridAssumption DEF Observe, GridTypeOK, Still
  <2> QED
    BY <2>1, <2>2 DEF RegionsHaveOneHolder, WarmCounted
<1>6. ASSUME NEW g \in GridRegions, RegionOver(g)
      PROVE  GridInv'
  <2>1. /\ UNCHANGED <<domain, pinned, gpuId, transitions, warmCount, observer, heading>>
        /\ g \in retiring /\ retiring' = retiring \ {g} /\ idle' = idle \cup {g}
    BY <1>6 DEF RegionOver
  <2>2. GridTypeOK'
    BY <2>1 DEF GridTypeOK
  <2>3. RegionsHaveOneHolder'
    BY <2>1 DEF RegionsHaveOneHolder
  <2> QED
    BY <2>1, <2>2, <2>3 DEF WarmCounted
<1>7. CASE UNCHANGED gridVars
  <2>1. UNCHANGED <<domain, pinned, gpuId, idle, retiring, transitions, warmCount, observer, heading>>
    BY <1>7 DEF gridVars, storeSide
  <2> QED
    BY <2>1 DEF GridTypeOK, RegionsHaveOneHolder, WarmCounted
<1> QED
  BY <1>1, <1>2, <1>3, <1>4, <1>5, <1>6, <1>7 DEF GridNext

\* One holder each is what RegionsMatchDomains counts.
LEMMA OneHolderCounts ==
  ASSUME GridTypeOK, RegionsHaveOneHolder
  PROVE  RegionsMatchDomains
<1>1. ASSUME NEW g \in GridRegions
      PROVE  Cardinality({x \in {"idle", "retiring"} : g \in (IF x = "idle" THEN idle ELSE retiring)})
             + Cardinality({c \in Coords : gpuId[c] = g}) = 1
  <2> DEFINE I == {x \in {"idle", "retiring"} : g \in (IF x = "idle" THEN idle ELSE retiring)}
             H == {c \in Coords : gpuId[c] = g}
  <2>1. \/ \E x : I = {x} /\ H = {}
        \/ \E x : I = {} /\ H = {x}
    <3>1. CASE g \in idle
      <4>1. I = {"idle"} /\ H = {}
        BY <3>1 DEF RegionsHaveOneHolder
      <4> QED
        BY <4>1
    <3>2. CASE g \in retiring
      <4>1. I = {"retiring"} /\ H = {}
        BY <3>2 DEF RegionsHaveOneHolder
      <4> QED
        BY <4>1
    <3>3. ASSUME NEW c \in Coords, gpuId[c] = g
          PROVE  I = {} /\ H = {c}
      BY <3>3, GridAssumption DEF RegionsHaveOneHolder
    <3> QED
      BY <3>1, <3>2, <3>3 DEF RegionsHaveOneHolder
  <2> HIDE DEF I, H
  <2>2. Cardinality(I) + Cardinality(H) = 1
    <3>1. \A x : Cardinality({x}) = 1
      BY FS_Singleton
    <3>2. Cardinality({}) = 0
      BY FS_EmptySet
    <3>3. ASSUME NEW x, I = {x}, H = {}
          PROVE  Cardinality(I) + Cardinality(H) = 1
      <4>1. Cardinality(I) = 1 /\ Cardinality(H) = 0
        BY <3>1, <3>2, <3>3, Zenon
      <4> QED
        BY <4>1
    <3>4. ASSUME NEW x, I = {}, H = {x}
          PROVE  Cardinality(I) + Cardinality(H) = 1
      <4>1. Cardinality(I) = 0 /\ Cardinality(H) = 1
        BY <3>1, <3>2, <3>4, Zenon
      <4> QED
        BY <4>1
    <3> QED
      BY <2>1, <3>3, <3>4
  <2> QED
    BY <2>2 DEF I, H
<1> QED
  BY <1>1 DEF RegionsMatchDomains, RegionsHaveOneHolder

\* Through declined promotions, pins and stale queued steps, a cell has a region
\* exactly while it is GPU-resident, every region is idle, retiring or one
\* cell's, and warm_count is the number of warm cells: for any settings.
THEOREM RegionsAndCountsStayExact == GridSpec => [](RegionsMatchDomains /\ WarmCounted)
<1>1. GridInv => RegionsMatchDomains /\ WarmCounted
  BY OneHolderCounts DEF GridInv
<1> QED
  BY <1>1, GridInitInv, GridNextInv, PTL DEF GridSpec

---------------------------------------------------------------------------
(* Hysteresis.                                                             *)

\* A band that is grown still meets the observer.
LEMMA WiderHolds ==
  ASSUME NEW c \in Coords, NEW r \in Int, NEW s \in Int, r <= s, observer \in Int, Within(c, r)
  PROVE  Within(c, s)
<1>1. c * CellWidth \in Int /\ (c + 1) * CellWidth \in Int
  BY GridAssumption
<1> DEFINE low == c * CellWidth
           high == (c + 1) * CellWidth
<1>2. low \in Int /\ high \in Int /\ low - r <= observer /\ observer <= high + r
  BY <1>1 DEF Within
<1> HIDE DEF low, high
<1>3. low - s <= observer /\ observer <= high + s
  BY <1>2
<1> QED
  BY <1>3 DEF Within, low, high

\* Inside a promotion boundary is inside the demotion boundary.
LEMMA PromotedIsNotDemoted ==
  ASSUME GridTypeOK, WellTuned, NEW c \in Coords
  PROVE  /\ InnerPromote(c) => ~InnerDemote(c)
         /\ MarginPromote(c) => ~MarginDemote(c)
         /\ WarmOn /\ Within(c, WarmRadius + WarmPad) => ~WarmDemote(c)
<1>1. /\ observer \in Int /\ GridPad \in Int /\ GridHyst \in Int /\ MarginRadius \in Int
      /\ WarmRadius \in Int /\ WarmPad \in Int /\ WarmHyst \in Int
      /\ GridHyst >= 0 /\ WarmHyst >= 0
  BY GridAssumption DEF GridTypeOK, WellTuned
<1>2. Within(c, GridPad) => Within(c, GridPad + GridHyst)
  BY <1>1, WiderHolds
<1>3. Within(c, MarginRadius + GridPad) => Within(c, MarginRadius + GridPad + GridHyst)
  BY <1>1, WiderHolds
<1>4. Within(c, WarmRadius + WarmPad) => Within(c, WarmRadius + WarmPad + WarmHyst)
  BY <1>1, WiderHolds
<1> QED
  BY <1>2, <1>3, <1>4
     DEF InnerPromote, InnerDemote, MarginPromote, MarginDemote, WarmDemote

\* domain_rank orders the domains.
LEMMA Ranks ==
  /\ Rank("Outer") = 0 /\ Rank("Warm") = 1 /\ Rank("Margin") = 2 /\ Rank("Inner") = 3
  /\ \A d \in Domains : Rank(d) \in 0 .. 3
  /\ \A d, e \in Domains : Rank(d) = Rank(e) => d = e
<1>1. Rank("Outer") = 0 /\ Rank("Warm") = 1 /\ Rank("Margin") = 2 /\ Rank("Inner") = 3
  BY DEF Rank
<1> QED
  BY <1>1

\* Where a followed cell of each domain may be sent, and what the bands say.
LEMMA FollowedTarget ==
  ASSUME GridTypeOK, WellTuned, NEW c \in Tracked, pinned[c] = Follow
  PROVE  /\ domain[c] = "Outer" =>
              \/ Target(c) = "Margin" /\ MarginPromote(c)
              \/ Target(c) = "Warm" /\ WarmOn /\ Within(c, WarmRadius + WarmPad)
              \/ Target(c) = "Outer"
         /\ domain[c] = "Warm" =>
              \/ Target(c) = "Margin" /\ WarmOn /\ MarginPromote(c)
              \/ Target(c) = "Outer" /\ WarmDemote(c) /\ (WarmOn => ~MarginPromote(c))
              \/ Target(c) = "Warm" /\ ~WarmDemote(c)
         /\ domain[c] = "Margin" =>
              \/ Target(c) = "Inner" /\ InnerPromote(c)
              \/ Target(c) = "Margin" /\ ~InnerPromote(c)
              \/ Target(c) = "Warm" /\ WarmOn /\ MarginDemote(c) /\ ~InnerPromote(c)
              \/ Target(c) = "Outer" /\ ~WarmOn /\ MarginDemote(c) /\ ~InnerPromote(c)
         /\ domain[c] = "Inner" =>
              \/ Target(c) = "Margin" /\ InnerDemote(c)
              \/ Target(c) = "Inner"
BY DEF Target, WarmPromote

\* A step up goes where nothing sends the cell down again.
LEMMA UpStays ==
  ASSUME GridTypeOK, WellTuned, NEW c \in Tracked
  PROVE  /\ Rank(Target(c)) > Rank(domain[c]) => StaysUp(c, domain[c])
         /\ StaysUp(c, domain[c]) => Rank(Target(c)) >= Rank(domain[c]) /\ StaysUp(c, Target(c))
<1>1. c \in Coords /\ domain[c] \in Domains /\ Target(c) \in Domains
  BY TargetIsADomain DEF GridTypeOK
<1>2. CASE pinned[c] # Follow
  <2>1. Target(c) = pinned[c]
    BY <1>2 DEF Target
  <2> QED
    BY <1>1, <1>2, <2>1, Ranks DEF StaysUp
<1>3. CASE pinned[c] = Follow
  <2> DEFINE promoted == /\ InnerPromote(c) => ~InnerDemote(c)
                         /\ MarginPromote(c) => ~MarginDemote(c)
                         /\ WarmOn /\ Within(c, WarmRadius + WarmPad) => ~WarmDemote(c)
  <2>1. promoted
    BY <1>1, PromotedIsNotDemoted
  <2>2. CASE domain[c] = "Outer"
    BY <1>3, <2>1, <2>2, FollowedTarget, Ranks DEF StaysUp
  <2>3. CASE domain[c] = "Warm"
    BY <1>3, <2>1, <2>3, FollowedTarget, Ranks DEF StaysUp
  <2>4. CASE domain[c] = "Margin"
    BY <1>3, <2>1, <2>4, FollowedTarget, Ranks DEF StaysUp
  <2>5. CASE domain[c] = "Inner"
    BY <1>3, <2>1, <2>5, FollowedTarget, Ranks DEF StaysUp
  <2> QED
    BY <1>1, <2>2, <2>3, <2>4, <2>5
<1> QED
  BY <1>2, <1>3

\* A step down goes where nothing sends the cell up again.
LEMMA DownStays ==
  ASSUME GridTypeOK, WellTuned, TierIsThere, NEW c \in Tracked
  PROVE  /\ Rank(Target(c)) < Rank(domain[c]) => StaysDown(c, domain[c])
         /\ StaysDown(c, domain[c]) => Rank(Target(c)) <= Rank(domain[c]) /\ StaysDown(c, Target(c))
<1>1. c \in Coords /\ domain[c] \in Domains /\ Target(c) \in Domains
  BY TargetIsADomain DEF GridTypeOK
<1>2. CASE pinned[c] # Follow
  <2>1. Target(c) = pinned[c]
    BY <1>2 DEF Target
  <2> QED
    BY <1>1, <1>2, <2>1, Ranks DEF StaysDown
<1>3. CASE pinned[c] = Follow
  <2> DEFINE promoted == /\ InnerPromote(c) => ~InnerDemote(c)
                         /\ MarginPromote(c) => ~MarginDemote(c)
                         /\ WarmOn /\ Within(c, WarmRadius + WarmPad) => ~WarmDemote(c)
  <2>1. promoted
    BY <1>1, PromotedIsNotDemoted
  <2>2. CASE domain[c] = "Outer"
    BY <1>3, <2>1, <2>2, FollowedTarget, Ranks DEF StaysDown
  <2>3. CASE domain[c] = "Warm"
    <3>1. WarmOn
      BY <2>3 DEF TierIsThere
    <3> QED
      BY <1>3, <2>1, <2>3, <3>1, FollowedTarget, Ranks DEF StaysDown
  <2>4. CASE domain[c] = "Margin"
    BY <1>3, <2>1, <2>4, FollowedTarget, Ranks DEF StaysDown
  <2>5. CASE domain[c] = "Inner"
    BY <1>3, <2>1, <2>5, FollowedTarget, Ranks DEF StaysDown
  <2> QED
    BY <1>1, <2>2, <2>3, <2>4, <2>5
<1> QED
  BY <1>2, <1>3

\* classify sends no cell back the way it came.
LEMMA ClassifySteady ==
  ASSUME SteadyInv, WellTuned, Classify
  PROVE  TierIsThere' /\ HeadingsHold'
<1> DEFINE moving == {c \in Tracked : Target(c) # domain[c]}
<1>1. GridTypeOK /\ TierIsThere /\ HeadingsHold
  BY DEF SteadyInv, GridInv
<1>2. UNCHANGED <<domain, pinned, observer>> /\ transitions = <<>>
  BY DEF Classify
<1>3. \A i \in DOMAIN transitions' :
        /\ transitions'[i].coord \in Tracked
        /\ transitions'[i].to = Target(transitions'[i].coord)
  BY <1>1, ClassifyQueues
<1>4. TierIsThere'
  <2>1. ASSUME ~WarmOn, NEW c \in Tracked
        PROVE  Target(c) # "Warm"
    <3>1. domain[c] # "Warm" /\ domain[c] \in Domains /\ pinned[c] # "Warm"
      BY <1>1, <2>1 DEF TierIsThere, WellTuned, GridTypeOK, Follow
    <3> QED
      BY <2>1, <3>1 DEF Target, WarmPromote
  <2> QED
    BY <1>1, <1>2, <1>3, <2>1 DEF TierIsThere
<1>5. ASSUME NEW c \in Coords
      PROVE  /\ (heading[c] # {} => c \in Tracked)'
             /\ ("up" \in heading[c] => \A d \in {domain[c]} \cup Queued(c) : StaysUp(c, d))'
             /\ ("down" \in heading[c] => \A d \in {domain[c]} \cup Queued(c) : StaysDown(c, d))'
             /\ (~({"up", "down"} \subseteq heading[c]))'
  <2>1. /\ c \in moving => heading'[c] = heading[c] \cup {Way(domain[c], Target(c))}
        /\ c \notin moving => heading'[c] = heading[c]
    BY DEF Classify
  <2>2. \A d : (StaysUp(c, d)' <=> StaysUp(c, d)) /\ (StaysDown(c, d)' <=> StaysDown(c, d))
    BY <1>2 DEF StaysUp, StaysDown, WarmDemote, InnerPromote, InnerDemote, MarginPromote,
                MarginDemote, Within
  <2>3. Queued(c)' \subseteq {Target(c)}
    BY <1>3 DEF Queued
  <2>4. CASE c \notin Tracked
    BY <1>1, <1>2, <2>1, <2>4 DEF HeadingsHold
  <2>5. CASE c \in Tracked
    <3>1. /\ domain[c] \in Domains /\ Target(c) \in Domains
          /\ Rank(domain[c]) \in 0 .. 3 /\ Rank(Target(c)) \in 0 .. 3
          /\ Target(c) # domain[c] => Rank(Target(c)) # Rank(domain[c])
      BY <1>1, <2>5, TargetIsADomain, Ranks DEF GridTypeOK
    <3>2. /\ Rank(Target(c)) > Rank(domain[c]) => StaysUp(c, domain[c])
          /\ StaysUp(c, domain[c]) => Rank(Target(c)) >= Rank(domain[c]) /\ StaysUp(c, Target(c))
      BY <1>1, <2>5, UpStays
    <3>3. /\ Rank(Target(c)) < Rank(domain[c]) => StaysDown(c, domain[c])
          /\ StaysDown(c, domain[c]) => Rank(Target(c)) <= Rank(domain[c]) /\ StaysDown(c, Target(c))
      BY <1>1, <2>5, DownStays
    <3>4. /\ "up" \in heading'[c] =>
               StaysUp(c, domain[c]) /\ (c \in moving => Rank(Target(c)) > Rank(domain[c]))
          /\ "down" \in heading'[c] =>
               StaysDown(c, domain[c]) /\ (c \in moving => Rank(Target(c)) < Rank(domain[c]))
      <4>1. /\ "up" \in heading[c] => StaysUp(c, domain[c])
            /\ "down" \in heading[c] => StaysDown(c, domain[c])
        BY <1>1 DEF HeadingsHold
      <4>2. CASE c \notin moving
        BY <2>1, <4>1, <4>2
      <4>3. CASE c \in moving
        <5>1. /\ Way(domain[c], Target(c)) = "up" => Rank(Target(c)) > Rank(domain[c])
              /\ Way(domain[c], Target(c)) = "down" => Rank(Target(c)) < Rank(domain[c])
          BY <3>1, <4>3 DEF Way
        <5> QED
          BY <2>1, <3>1, <3>2, <3>3, <4>1, <4>3, <5>1
      <4> QED
        BY <4>2, <4>3
    <3>5. ~({"up", "down"} \subseteq heading'[c])
      <4>1. CASE c \in moving
        BY <3>1, <3>4, <4>1
      <4>2. CASE c \notin moving
        BY <1>1, <2>1, <4>2 DEF HeadingsHold
      <4> QED
        BY <4>1, <4>2
    <3> QED
      BY <1>2, <2>2, <2>3, <2>5, <3>2, <3>3, <3>4, <3>5
  <2> QED
    BY <2>4, <2>5
<1> QED
  BY <1>4, <1>5 DEF HeadingsHold

\* Executing or declining a step does not make the cell turn round.
LEMMA ExecuteSteady ==
  ASSUME SteadyInv, Execute
  PROVE  TierIsThere' /\ HeadingsHold'
<1> DEFINE t == Head(transitions)
<1>1. GridTypeOK /\ WarmCounted /\ TierIsThere /\ HeadingsHold /\ GridInv
  BY DEF SteadyInv, GridInv
<1>2. transitions # <<>> /\ transitions' = Tail(transitions) /\ UNCHANGED <<pinned, observer, heading>>
  BY DEF Execute
<1>3. /\ t = transitions[1] /\ 1 \in DOMAIN transitions
      /\ t \in [coord : Coords, from : Domains, to : Domains]
      /\ t.coord \in Tracked /\ t.from # t.to
      /\ \A i \in DOMAIN transitions' : i + 1 \in DOMAIN transitions
                                        /\ transitions'[i] = transitions[i + 1]
  BY <1>1, <1>2, ExecuteDrains DEF GridTypeOK
<1>4. ExecuteCases(t)
  BY ExecuteIsOneOf
<1>5. Tracked' = Tracked
  BY <1>1, ExecuteKeeps
<1> HIDE DEF t
<1>6. \A c \in Tracked : domain'[c] = domain[c] \/ (c = t.coord /\ domain'[c] = t.to)
  <2>1. CASE UNCHANGED domain
    BY <2>1
  <2>2. CASE domain[t.coord] = t.from /\ Commit(t)
    BY <1>1, <1>3, <2>2, CommitCounts
  <2> QED
    BY <1>4, <2>1, <2>2 DEF ExecuteCases
<1>7. TierIsThere'
  BY <1>1, <1>3, <1>5, <1>6 DEF TierIsThere
<1>8. ASSUME NEW c \in Coords
      PROVE  /\ (heading[c] # {} => c \in Tracked)'
             /\ ("up" \in heading[c] => \A d \in {domain[c]} \cup Queued(c) : StaysUp(c, d))'
             /\ ("down" \in heading[c] => \A d \in {domain[c]} \cup Queued(c) : StaysDown(c, d))'
             /\ (~({"up", "down"} \subseteq heading[c]))'
  <2>1. heading'[c] = heading[c] /\ (heading[c] # {} => c \in Tracked)
    BY <1>1, <1>2 DEF HeadingsHold
  <2>2. \A d : (StaysUp(c, d)' <=> StaysUp(c, d)) /\ (StaysDown(c, d)' <=> StaysDown(c, d))
    BY <1>2 DEF StaysUp, StaysDown, WarmDemote, InnerPromote, InnerDemote, MarginPromote,
                MarginDemote, Within
  <2>3. Queued(c)' \subseteq Queued(c)
    BY <1>3 DEF Queued
  <2>4. c = t.coord => t.to \in Queued(c)
    BY <1>3 DEF Queued
  <2>5. c \in Tracked => domain'[c] \in {domain[c]} \cup Queued(c)
    BY <1>6, <2>4
  <2> QED
    BY <1>1, <1>5, <2>1, <2>2, <2>3, <2>5 DEF HeadingsHold
<1> QED
  BY <1>7, <1>8 DEF HeadingsHold

\* Every step keeps what hysteresis rests on.
LEMMA SteadyNext ==
  ASSUME SteadyInv, WellTuned, [GridNext]_gridVars
  PROVE  SteadyInv'
<1>1. GridTypeOK /\ GridInv /\ TierIsThere /\ HeadingsHold
  BY DEF SteadyInv, GridInv
<1>2. GridInv'
  BY <1>1, GridNextInv
<1>3. CASE Classify
  BY <1>2, <1>3, ClassifySteady DEF SteadyInv
<1>4. CASE Execute
  BY <1>2, <1>4, ExecuteSteady DEF SteadyInv
<1>5. ASSUME NEW c \in Coords, Materialize(c)
      PROVE  SteadyInv'
  <2>1. /\ c \notin Tracked /\ Tracked' = Tracked \cup {c} /\ domain'[c] = "Outer"
        /\ \A x \in Tracked : domain'[x] = domain[x]
        /\ UNCHANGED <<pinned, transitions, observer, heading>>
    BY <1>5 DEF Materialize
  <2>2. TierIsThere'
    BY <1>1, <2>1 DEF TierIsThere
  <2>3. \A x, d : (StaysUp(x, d)' <=> StaysUp(x, d)) /\ (StaysDown(x, d)' <=> StaysDown(x, d))
    BY <2>1 DEF StaysUp, StaysDown, WarmDemote, InnerPromote, InnerDemote, MarginPromote,
                MarginDemote, Within
  <2>4. \A x : Queued(x)' = Queued(x)
    BY <2>1 DEF Queued
  <2>5. HeadingsHold'
    BY <1>1, <2>1, <2>3, <2>4 DEF HeadingsHold
  <2> QED
    BY <1>2, <2>2, <2>5 DEF SteadyInv
<1>6. ASSUME UNCHANGED <<domain, transitions>>, heading' = Still
      PROVE  SteadyInv'
  <2>1. \A c \in Coords : heading'[c] = {}
    BY <1>6 DEF Still
  <2>2. HeadingsHold'
    BY <2>1 DEF HeadingsHold
  <2>3. TierIsThere'
    BY <1>1, <1>6 DEF TierIsThere
  <2> QED
    BY <1>2, <2>2, <2>3 DEF SteadyInv
<1>7. ASSUME UNCHANGED <<domain, pinned, transitions, observer, heading>>
      PROVE  SteadyInv'
  <2>1. \A x, d : (StaysUp(x, d)' <=> StaysUp(x, d)) /\ (StaysDown(x, d)' <=> StaysDown(x, d))
    BY <1>7 DEF StaysUp, StaysDown, WarmDemote, InnerPromote, InnerDemote, MarginPromote,
                MarginDemote, Within
  <2>2. \A x : Queued(x)' = Queued(x)
    BY <1>7 DEF Queued
  <2> QED
    BY <1>1, <1>2, <1>7, <2>1, <2>2 DEF SteadyInv, HeadingsHold, TierIsThere
<1>8. ASSUME NEW c \in Coords, NEW d \in PinDomains \cup {Follow}, Pin(c, d)
      PROVE  SteadyInv'
  BY <1>6, <1>8 DEF Pin
<1>9. ASSUME NEW p \in Positions, Observe(p)
      PROVE  SteadyInv'
  BY <1>6, <1>9 DEF Observe
<1>10. ASSUME NEW g \in GridRegions, RegionOver(g)
       PROVE  SteadyInv'
  BY <1>7, <1>10 DEF RegionOver
<1>11. CASE UNCHANGED gridVars
  BY <1>7, <1>11 DEF gridVars
<1> QED
  BY <1>3, <1>4, <1>5, <1>8, <1>9, <1>10, <1>11 DEF GridNext

\* GridExact for any cells, bands, budget and pins: with hysteresis that is not
\* negative, and a warm tier if cells are pinned to it, no cell is sent back
\* the way it came while the observers and the pins stay as they are.
THEOREM GridStaysExact ==
  ASSUME WellTuned
  PROVE  GridSpec => []GridExact
<1>1. GridInit => SteadyInv
  <2> SUFFICES ASSUME GridInit PROVE TierIsThere /\ HeadingsHold
    BY GridInitInv DEF SteadyInv
  <2>1. Tracked = {} /\ DOMAIN transitions = {} /\ \A c \in Coords : heading[c] = {}
    BY DEF GridInit, Still
  <2> QED
    BY <2>1 DEF TierIsThere, HeadingsHold
<1>2. SteadyInv /\ [GridNext]_gridVars => SteadyInv'
  BY SteadyNext
<1>3. SteadyInv => GridExact
  BY OneHolderCounts DEF SteadyInv, GridInv, HeadingsHold, GridExact, NoThrash
<1> QED
  BY <1>1, <1>2, <1>3, PTL DEF GridSpec

---------------------------------------------------------------------------
(* Replication.                                                            *)

AnyField == AnyEntity \X Components

\* A list of whatever is in it, the deltas under way for instance.
Listed(s) == s \in Seq(Range(s))

ReplicaTypeOK ==
  /\ DOMAIN server \subseteq AnyEntity
  /\ nextGen \in [Indices -> Nat]
  /\ tracker \in [spawned : Seq(AnyEntity), despawned : SUBSET AnyEntity,
                  changed : SUBSET AnyField]
  /\ frame \in Nat \ {0}
  /\ applied \in [Clients -> Nat]
  /\ gapped \in [Clients -> BOOLEAN]
  /\ DOMAIN replica = Clients /\ DOMAIN channel = Clients
  /\ DOMAIN withheld = Clients /\ DOMAIN omitted = Clients
  /\ \A c \in Clients : Listed(channel[c])

InTracker == Range(tracker.spawned)

\* The live entity of a slot has the slot's current generation.
SlotsRight == \A e \in DOMAIN server : e.gen = nextGen[e.index]

\* What the tracker recorded: who was spawned lives or its slot is past it, in
\* each slot the later spawn has the later generation, and what a newcomer has
\* was recorded as changed.
TrackerTells ==
  /\ \A o \in InTracker : o \in DOMAIN server \/ o.gen < nextGen[o.index]
  /\ \A n, m \in DOMAIN tracker.spawned :
       n < m /\ tracker.spawned[n].index = tracker.spawned[m].index
         => tracker.spawned[n].gen < tracker.spawned[m].gen
  /\ \A o \in tracker.despawned : o.gen < nextGen[o.index]
  /\ \A e \in DOMAIN server, o \in InTracker : o.index = e.index => e \in InTracker
  /\ \A f \in Held(server) : f[1] \in InTracker => f \in tracker.changed

\* The deltas on their way to a client, and those it would still apply.
Under(c) == Range(channel[c])
Pending(c) == {d \in Under(c) : d.frame > applied[c]}

ChannelTells(c) ==
  /\ \A n, m \in DOMAIN channel[c] : channel[c][n].frame = channel[c][m].frame => n = m
  /\ \A d \in Under(c) : d.frame \in Nat /\ d.frame < frame /\ d.base = d.frame - 1
  /\ applied[c] < frame

FieldsBorn ==
  /\ born \subseteq Held(server)
  /\ \A c \in Clients : \A f \in born : f[1] \in omitted[c] => f \in withheld[c]

\* No delta since the client's baseline is missing.
Complete(c) == ~gapped[c] /\ \A g \in applied[c] + 1 .. frame - 1 : \E d \in Under(c) : d.frame = g

\* What one delta does with a field: brings it with its entity's spawn, leaves
\* its entity alone, leaves it alone.
Lands(d, f) ==
  \E n \in LastSpawns(d.spawned) : d.spawned[n].entity = f[1] /\ f[2] \in d.spawned[n].archetype
Spares(d, e) ==
  /\ \A n \in DOMAIN d.spawned : d.spawned[n].entity.index # e.index
  /\ e \notin d.despawned
Keeps(d, f) == Spares(d, f[1]) /\ f \notin DOMAIN d.values

\* A client with this world, to which these deltas are still to come, has the
\* field or will get it, and nothing to come takes it.
Arrives(world, pending, f) ==
  \/ f \in Held(world) /\ \A d \in pending : Spares(d, f[1])
  \/ \E d \in pending :
       Lands(d, f) /\ \A u \in pending : u.frame > d.frame => Spares(u, f[1])

\* The last word the client has or will get on the field is v.
Told(world, pending, f, v) ==
  \/ f \in Held(world) /\ world[f[1]][f[2]] = v /\ \A d \in pending : Keeps(d, f)
  \/ \E d \in pending :
       /\ f \in DOMAIN d.values /\ d.values[f] = v
       /\ \A u \in pending : u.frame > d.frame => Keeps(u, f)

Current(c, f) == Told(replica[c], Pending(c), f, server[f[1]][f[2]])

Follows(c) ==
  Complete(c) => \A f \in born :
    /\ f[1] \notin omitted[c] => Arrives(replica[c], Pending(c), f)
    /\ f \notin withheld[c] /\ f \notin tracker.changed => Current(c, f)

ReplicaInv ==
  /\ ReplicaTypeOK /\ SlotsRight /\ TrackerTells /\ FieldsBorn
  /\ \A c \in Clients : ChannelTells(c) /\ Follows(c)

\* What a world holds: components of its entities.
LEMMA HeldMeans ==
  ASSUME NEW W, NEW f
  PROVE  f \in Held(W) <=>
           /\ f = <<f[1], f[2]>>
           /\ f[1] \in DOMAIN W /\ f[2] \in Components /\ f[2] \in DOMAIN W[f[1]]
  BY DEF Held, Fields

\* Appending to a list adds the element.
LEMMA ListedAppend ==
  ASSUME NEW s, Listed(s), NEW x
  PROVE  /\ Listed(Append(s, x))
         /\ Len(s) \in Nat /\ DOMAIN s = 1 .. Len(s)
         /\ DOMAIN Append(s, x) = 1 .. Len(s) + 1
         /\ \A n \in 1 .. Len(s) : Append(s, x)[n] = s[n]
         /\ Append(s, x)[Len(s) + 1] = x
         /\ Range(Append(s, x)) = Range(s) \cup {x}
  <1> DEFINE S == Range(s) \cup {x}
             t == Append(s, x)
  <1>1. s \in Seq(Range(s)) /\ Len(s) \in Nat /\ DOMAIN s = 1 .. Len(s)
    BY LenProperties DEF Listed
  <1>2. \A n \in 1 .. Len(s) : s[n] \in S
    BY <1>1 DEF Range
  <1>3. s \in Seq(S)
    BY <1>1, <1>2, SMT
  <1>4. /\ t \in Seq(S) /\ Len(t) = Len(s) + 1
        /\ \A n \in 1 .. Len(s) : t[n] = s[n]
        /\ t[Len(s) + 1] = x
    BY <1>3, AppendProperties
  <1>5. DOMAIN t = 1 .. Len(s) + 1
    BY <1>4, LenProperties
  <1> HIDE DEF t
  <1>6. Range(t) = S
    BY <1>1, <1>4, <1>5 DEF Range
  <1> QED
    BY <1>1, <1>4, <1>5, <1>6 DEF Listed, t

\* The elements of what a removal leaves.
LEMMA RemovedElements ==
  ASSUME NEW s, Listed(s), NEW n \in DOMAIN s
  PROVE  /\ Len(s) \in Nat /\ DOMAIN s = 1 .. Len(s)
         /\ Listed(RemoveFrom(s, n))
         /\ DOMAIN RemoveFrom(s, n) = 1 .. Len(s) - 1
         /\ \A i \in 1 .. Len(s) - 1 :
              RemoveFrom(s, n)[i] = IF i < n THEN s[i] ELSE s[i + 1]
  <1> DEFINE a == SubSeq(s, 1, n - 1)
             b == SubSeq(s, n + 1, Len(s))
             t == a \o b
  <1>1. s \in Seq(Range(s)) /\ Len(s) \in Nat /\ DOMAIN s = 1 .. Len(s)
    BY LenProperties DEF Listed
  <1>2. \A i \in 1 .. Len(s) : s[i] \in Range(s)
    BY <1>1 DEF Range
  <1>3. n \in 1 .. Len(s)
    BY <1>1
  <1>4. /\ a \in Seq(Range(s)) /\ Len(a) = n - 1
        /\ \A i \in 1 .. n - 1 : a[i] = s[i]
    <2>1. /\ a \in Seq(Range(s))
          /\ Len(a) = IF 1 <= n - 1 THEN n - 1 - 1 + 1 ELSE 0
          /\ \A i \in 1 .. n - 1 - 1 + 1 : a[i] = s[1 + i - 1]
      BY <1>1, <1>2, <1>3, SubSeqProperties
    <2> HIDE DEF a
    <2> QED
      BY <2>1, <1>1, <1>3
  <1>5. /\ b \in Seq(Range(s)) /\ Len(b) = Len(s) - n
        /\ \A i \in 1 .. Len(s) - n : b[i] = s[n + i]
    <2>1. /\ b \in Seq(Range(s))
          /\ Len(b) = IF n + 1 <= Len(s) THEN Len(s) - (n + 1) + 1 ELSE 0
          /\ \A i \in 1 .. Len(s) - (n + 1) + 1 : b[i] = s[n + 1 + i - 1]
      BY <1>1, <1>2, <1>3, SubSeqProperties
    <2> HIDE DEF b
    <2>2. Len(b) = Len(s) - n
      BY <2>1, <1>1, <1>3
    <2>3. ASSUME NEW i \in 1 .. Len(s) - n
          PROVE  b[i] = s[n + i]
      <3>1. i \in 1 .. Len(s) - (n + 1) + 1 /\ n + 1 + i - 1 = n + i
        BY <1>1, <1>3
      <3> QED
        BY <2>1, <3>1
    <2> QED
      BY <2>1, <2>2, <2>3
  <1> HIDE DEF a, b
  <1>6. /\ t \in Seq(Range(s))
        /\ Len(t) = Len(a) + Len(b)
        /\ \A i \in 1 .. Len(a) + Len(b) : t[i] = IF i <= Len(a) THEN a[i] ELSE b[i - Len(a)]
    BY <1>4, <1>5, ConcatProperties
  <1>7. DOMAIN t = 1 .. Len(t)
    BY <1>6, LenProperties
  <1> HIDE DEF t
  <1>8. /\ Len(t) = Len(s) - 1
        /\ \A i \in 1 .. Len(s) - 1 : t[i] = IF i < n THEN s[i] ELSE s[i + 1]
    <2>1. Len(t) = Len(s) - 1
      BY <1>1, <1>3, <1>4, <1>5, <1>6
    <2>2. ASSUME NEW i \in 1 .. Len(s) - 1, i < n
          PROVE  t[i] = s[i]
      BY <2>2, <1>1, <1>3, <1>4, <1>5, <1>6
    <2>3. ASSUME NEW i \in 1 .. Len(s) - 1, ~(i < n)
          PROVE  t[i] = s[i + 1]
      <3>1. i - Len(a) \in 1 .. Len(s) - n /\ n + (i - Len(a)) = i + 1
        BY <2>3, <1>1, <1>3, <1>4
      <3>2. t[i] = b[i - Len(a)]
        BY <2>3, <1>1, <1>3, <1>4, <1>5, <1>6
      <3> QED
        BY <3>1, <3>2, <1>5
    <2> QED
      BY <2>1, <2>2, <2>3
  <1>9. Listed(t)
    <2>1. \A i \in 1 .. Len(t) : t[i] \in Range(t)
      BY <1>7 DEF Range
    <2> QED
      BY <2>1, <1>6, SMT DEF Listed
  <1>10. t = RemoveFrom(s, n)
    BY DEF t, a, b, RemoveFrom
  <1> QED
    BY <1>1, <1>7, <1>8, <1>9, <1>10

\* A removal takes one element and leaves the others, when no two deltas of
\* the list are of one frame.
LEMMA RemovedOne ==
  ASSUME NEW s, Listed(s), NEW n \in DOMAIN s,
         \A i, j \in DOMAIN s : s[i].frame = s[j].frame => i = j
  PROVE  /\ Listed(RemoveFrom(s, n))
         /\ Range(RemoveFrom(s, n)) = Range(s) \ {s[n]}
         /\ \A i, j \in DOMAIN RemoveFrom(s, n) :
              RemoveFrom(s, n)[i].frame = RemoveFrom(s, n)[j].frame => i = j
  <1> DEFINE t == RemoveFrom(s, n)
             at(i) == IF i < n THEN i ELSE i + 1
  <1>1. /\ Len(s) \in Nat /\ DOMAIN s = 1 .. Len(s) /\ n \in 1 .. Len(s)
        /\ Listed(t) /\ DOMAIN t = 1 .. Len(s) - 1
        /\ \A i \in 1 .. Len(s) - 1 : t[i] = IF i < n THEN s[i] ELSE s[i + 1]
    BY RemovedElements
  <1> HIDE DEF t
  <1>2. \A i \in DOMAIN t : at(i) \in DOMAIN s /\ at(i) # n /\ t[i] = s[at(i)]
    BY <1>1
  <1>3. \A i, j \in DOMAIN t : at(i) = at(j) => i = j
    BY <1>1
  <1>4. \A i \in DOMAIN s : i # n => \E j \in DOMAIN t : t[j] = s[i]
    <2> SUFFICES ASSUME NEW i \in DOMAIN s, i # n
                 PROVE  \E j \in DOMAIN t : t[j] = s[i]
      OBVIOUS
    <2>1. CASE i < n
      <3>1. i \in DOMAIN t /\ t[i] = s[i]
        BY <1>1, <2>1
      <3> QED
        BY <3>1
    <2>2. CASE i > n
      <3>1. i - 1 \in DOMAIN t /\ t[i - 1] = s[i]
        BY <1>1, <2>2
      <3> QED
        BY <3>1
    <2> QED
      BY <2>1, <2>2, <1>1
  <1> HIDE DEF at
  <1>5. Range(t) = Range(s) \ {s[n]}
    <2>1. ASSUME NEW i \in DOMAIN t
          PROVE  t[i] \in Range(s) /\ t[i] # s[n]
      <3>1. at(i) \in DOMAIN s /\ at(i) # n /\ t[i] = s[at(i)]
        BY <1>2
      <3>2. s[at(i)] # s[n]
        BY <3>1
      <3> QED
        BY <3>1, <3>2 DEF Range
    <2>2. ASSUME NEW d \in Range(s), d # s[n]
          PROVE  d \in Range(t)
      <3>1. PICK i \in DOMAIN s : s[i] = d
        BY DEF Range
      <3>2. PICK j \in DOMAIN t : t[j] = s[i]
        BY <3>1, <2>2, <1>4
      <3> QED
        BY <3>1, <3>2 DEF Range
    <2> QED
      BY <2>1, <2>2 DEF Range
  <1>6. \A i, j \in DOMAIN t : t[i].frame = t[j].frame => i = j
    BY <1>2, <1>3
  <1> QED
    BY <1>1, <1>5, <1>6 DEF t

\* Delta::apply leaves a field its deltas spares where it is, with the value
\* the delta has for it, if any.
LEMMA AppliedKeeps ==
  ASSUME NEW W, NEW d, NEW f \in Held(W), Spares(d, f[1])
  PROVE  /\ f \in Held(Applied(W, d))
         /\ Applied(W, d)[f[1]][f[2]] = IF f \in DOMAIN d.values THEN d.values[f] ELSE W[f[1]][f[2]]
  <1> DEFINE R == Restrict(W, DOMAIN W \ d.despawned)
             S == Spawned(R, d.spawned)
  <1>1. /\ f = <<f[1], f[2]>> /\ f[1] \in DOMAIN W
        /\ f[2] \in Components /\ f[2] \in DOMAIN W[f[1]]
    BY HeldMeans
  <1>2. f[1] \in DOMAIN R /\ R[f[1]] = W[f[1]]
    BY <1>1 DEF Restrict, Spares
  <1> HIDE DEF R
  <1>3. f[1] \in DOMAIN S /\ S[f[1]] = R[f[1]]
    BY <1>2 DEF Spawned, Spares
  <1> HIDE DEF S
  <1>4. Applied(W, d) = WriteFields(S, d.values)
    BY DEF Applied, S, R
  <1>5. /\ f[1] \in DOMAIN WriteFields(S, d.values)
        /\ f[2] \in DOMAIN WriteFields(S, d.values)[f[1]]
        /\ WriteFields(S, d.values)[f[1]][f[2]]
             = IF f \in DOMAIN d.values THEN d.values[f] ELSE S[f[1]][f[2]]
    BY <1>1, <1>2, <1>3 DEF WriteFields
  <1> QED
    BY <1>1, <1>2, <1>3, <1>4, <1>5, HeldMeans

\* Delta::apply gives the client the fields that come with a spawn the delta
\* does not replace.
LEMMA AppliedLands ==
  ASSUME NEW W, NEW d, NEW f, f = <<f[1], f[2]>>, f[2] \in Components, Lands(d, f)
  PROVE  /\ f \in Held(Applied(W, d))
         /\ f \in DOMAIN d.values => Applied(W, d)[f[1]][f[2]] = d.values[f]
  <1> DEFINE R == Restrict(W, DOMAIN W \ d.despawned)
             S == Spawned(R, d.spawned)
  <1> HIDE DEF R
  <1>1. PICK n \in LastSpawns(d.spawned) :
          d.spawned[n].entity = f[1] /\ f[2] \in d.spawned[n].archetype
    BY DEF Lands
  <1>2. n \in DOMAIN d.spawned
    BY <1>1 DEF LastSpawns
  <1>3. f[1] \in DOMAIN S /\ f[2] \in DOMAIN S[f[1]]
    BY <1>1, <1>2 DEF Spawned
  <1> HIDE DEF S
  <1>4. Applied(W, d) = WriteFields(S, d.values)
    BY DEF Applied, S, R
  <1>5. /\ f[1] \in DOMAIN WriteFields(S, d.values)
        /\ f[2] \in DOMAIN WriteFields(S, d.values)[f[1]]
        /\ WriteFields(S, d.values)[f[1]][f[2]]
             = IF f \in DOMAIN d.values THEN d.values[f] ELSE S[f[1]][f[2]]
    BY <1>3 DEF WriteFields
  <1> QED
    BY <1>4, <1>5, HeldMeans

\* One more delta to come that spares the field's entity takes nothing.
LEMMA ArrivesStill ==
  ASSUME NEW W, NEW P, NEW f, NEW d, Arrives(W, P, f), Spares(d, f[1])
  PROVE  Arrives(W, P \cup {d}, f)
  BY DEF Arrives

\* The delta that comes last and spawns the field's entity brings the field.
LEMMA ArrivesLast ==
  ASSUME NEW W, NEW P, NEW f, NEW d, d.frame \in Nat,
         \A u \in P : u.frame \in Nat /\ u.frame < d.frame, Lands(d, f)
  PROVE  Arrives(W, P \cup {d}, f)
  <1>1. \A u \in P \cup {d} : ~(u.frame > d.frame)
    OBVIOUS
  <1> QED
    BY <1>1 DEF Arrives

\* One more delta to come that leaves the field alone does not change the word
\* on it.
LEMMA ToldStill ==
  ASSUME NEW W, NEW P, NEW f, NEW v, NEW d, Told(W, P, f, v), Keeps(d, f)
  PROVE  Told(W, P \cup {d}, f, v)
  BY DEF Told

\* The delta that comes last has the last word.
LEMMA ToldLast ==
  ASSUME NEW W, NEW P, NEW f, NEW d, d.frame \in Nat,
         \A u \in P : u.frame \in Nat /\ u.frame < d.frame, f \in DOMAIN d.values
  PROVE  Told(W, P \cup {d}, f, d.values[f])
  <1>1. \A u \in P \cup {d} : ~(u.frame > d.frame)
    OBVIOUS
  <1> QED
    BY <1>1 DEF Told

\* Applying the first delta to come brings nothing out of place.
LEMMA ArrivesApplied ==
  ASSUME NEW W, NEW P, NEW d \in P, NEW f, f = <<f[1], f[2]>>, f[2] \in Components,
         \A u \in P : u # d => u.frame > d.frame, Arrives(W, P, f)
  PROVE  Arrives(Applied(W, d), P \ {d}, f)
  <1>1. CASE f \in Held(W) /\ \A u \in P : Spares(u, f[1])
    <2>1. f \in Held(Applied(W, d))
      BY <1>1, AppliedKeeps
    <2> QED
      BY <1>1, <2>1 DEF Arrives
  <1>2. CASE \E l \in P : Lands(l, f) /\ \A u \in P : u.frame > l.frame => Spares(u, f[1])
    <2>1. PICK l \in P : Lands(l, f) /\ \A u \in P : u.frame > l.frame => Spares(u, f[1])
      BY <1>2
    <2>2. CASE l = d
      <3>1. f \in Held(Applied(W, d))
        BY <2>1, <2>2, AppliedLands
      <3>2. \A u \in P \ {d} : Spares(u, f[1])
        BY <2>1, <2>2
      <3> QED
        BY <3>1, <3>2 DEF Arrives
    <2>3. CASE l # d
      BY <2>1, <2>3 DEF Arrives
    <2> QED
      BY <2>2, <2>3
  <1> QED
    BY <1>1, <1>2 DEF Arrives

\* Nor does it change the last word on a field the client has or will get.
LEMMA ToldApplied ==
  ASSUME NEW W, NEW P, NEW d \in P, NEW f, NEW v, f = <<f[1], f[2]>>, f[2] \in Components,
         \A u \in P : u # d => u.frame > d.frame,
         Arrives(W, P, f), Told(W, P, f, v)
  PROVE  Told(Applied(W, d), P \ {d}, f, v)
  <1>1. CASE f \in Held(W) /\ W[f[1]][f[2]] = v /\ \A u \in P : Keeps(u, f)
    <2>1. f \in Held(Applied(W, d)) /\ Applied(W, d)[f[1]][f[2]] = v
      <3>1. Spares(d, f[1]) /\ f \notin DOMAIN d.values
        BY <1>1 DEF Keeps
      <3> QED
        BY <1>1, <3>1, AppliedKeeps
    <2> QED
      BY <1>1, <2>1 DEF Told
  <1>2. CASE \E l \in P : /\ f \in DOMAIN l.values /\ l.values[f] = v
                          /\ \A u \in P : u.frame > l.frame => Keeps(u, f)
    <2>1. PICK l \in P : /\ f \in DOMAIN l.values /\ l.values[f] = v
                         /\ \A u \in P : u.frame > l.frame => Keeps(u, f)
      BY <1>2
    <2>2. CASE l = d
      <3>1. \A u \in P \ {d} : Keeps(u, f)
        BY <2>1, <2>2
      <3>2. f \in Held(Applied(W, d)) /\ Applied(W, d)[f[1]][f[2]] = v
        <4>1. CASE f \in Held(W) /\ \A u \in P : Spares(u, f[1])
          BY <4>1, <2>1, <2>2, AppliedKeeps
        <4>2. CASE Lands(d, f)
          BY <4>2, <2>1, <2>2, AppliedLands
        <4>3. CASE \E u \in P \ {d} : Lands(u, f)
          <5>1. PICK u \in P \ {d} : Lands(u, f)
            BY <4>3
          <5>2. PICK n \in DOMAIN u.spawned : u.spawned[n].entity = f[1]
            BY <5>1 DEF Lands, LastSpawns
          <5>3. Spares(u, f[1])
            BY <3>1 DEF Keeps
          <5> QED
            BY <5>2, <5>3 DEF Spares
        <4> QED
          BY <4>1, <4>2, <4>3 DEF Arrives
      <3> QED
        BY <3>1, <3>2 DEF Told
    <2>3. CASE l # d
      BY <2>1, <2>3 DEF Told
    <2> QED
      BY <2>2, <2>3
  <1> QED
    BY <1>1, <1>2 DEF Told

\* A call on the server's World does not reach the clients: it only may leave
\* fields out, or record those whose value it changes.
LEMMA ServerCalls ==
  ASSUME ReplicaInv, UNCHANGED <<frame, clientVars, relevant, channel, withheld, omitted>>,
         born' \subseteq born, tracker.changed \subseteq tracker'.changed,
         \A f \in born' : f \notin tracker'.changed => server'[f[1]][f[2]] = server[f[1]][f[2]]
  PROVE  \A c \in Clients : ChannelTells(c)' /\ Follows(c)'
  <1> SUFFICES ASSUME NEW c \in Clients
               PROVE  ChannelTells(c)' /\ Follows(c)'
    OBVIOUS
  <1> USE DEF clientVars
  <1>1. ChannelTells(c)'
    BY DEF ReplicaInv, ChannelTells, Under
  <1>2. Pending(c)' = Pending(c) /\ (Complete(c)' <=> Complete(c))
    BY DEF Pending, Under, Complete
  <1>3. ASSUME Complete(c)', NEW f \in born'
        PROVE  /\ f[1] \notin omitted'[c] => Arrives(replica[c], Pending(c), f)'
               /\ f \notin withheld'[c] /\ f \notin tracker'.changed => Current(c, f)'
    <2>1. Complete(c) /\ f \in born
      BY <1>2, <1>3
    <2>2. f[1] \notin omitted[c] => Arrives(replica[c], Pending(c), f)
      BY <2>1 DEF ReplicaInv, Follows
    <2>3. f \notin withheld[c] /\ f \notin tracker.changed => Current(c, f)
      BY <2>1 DEF ReplicaInv, Follows
    <2>4. f[1] \notin omitted'[c] => Arrives(replica[c], Pending(c), f)'
      BY <2>2, <1>2
    <2>5. f \notin withheld'[c] /\ f \notin tracker'.changed => Current(c, f)'
      BY <2>3, <1>2 DEF Current
    <2> QED
      BY <2>4, <2>5
  <1> QED
    BY <1>1, <1>3 DEF Follows

\* Entities differ in their slot or their generation.
LEMMA EntityMeans ==
  ASSUME NEW e \in AnyEntity
  PROVE  /\ e = Entity(e.index, e.gen) /\ e.index \in Indices /\ e.gen \in Nat
         /\ \A o \in AnyEntity : o.index = e.index /\ o.gen = e.gen => o = e
  BY ReplicationAssumption DEF AnyEntity, Entity

\* The newcomer is the latest of its slot.
LEMMA SpawnKeeps ==
  ASSUME ReplicaInv, NEW i \in Indices, Spawn(i)
  PROVE  ReplicaInv'
  <1> DEFINE e == Entity(i, nextGen[i])
  <1>1. /\ e \in AnyEntity /\ e.index = i /\ e.gen = nextGen[i] /\ e \notin DOMAIN server
        /\ \A o \in DOMAIN server : o.index # i
    <2>1. nextGen[i] \in 0 .. MaxGen
      BY ReplicationAssumption DEF Spawn, ReplicaInv, ReplicaTypeOK, Entity
    <2> QED
      BY <2>1 DEF Spawn, AnyEntity, Entity
  <1>2. /\ server' = Put(server, e, NoComponents)
        /\ tracker' = [tracker EXCEPT !.spawned = Append(@, e)]
    BY DEF Spawn
  <1>u. UNCHANGED <<nextGen, frame, born, clientVars, relevant, channel, withheld, omitted>>
    BY DEF Spawn
  <1> HIDE DEF e
  <1>3. /\ DOMAIN server' = DOMAIN server \cup {e} /\ server'[e] = NoComponents
        /\ \A o \in DOMAIN server : server'[o] = server[o]
    <2> DEFINE w == Put(server, e, NoComponents)
    <2>1. /\ DOMAIN w = DOMAIN server \cup {e} /\ w[e] = NoComponents
          /\ \A o \in DOMAIN server : o # e => w[o] = server[o]
      BY DEF Put
    <2> HIDE DEF w
    <2>2. server' = w
      BY <1>2 DEF w
    <2> QED
      BY <1>1, <2>1, <2>2
  <1>4. DOMAIN NoComponents = {}
    BY DEF NoComponents
  <1>5. \A f : f \in Held(server') <=> f \in Held(server)
    <2>1. ASSUME NEW f
          PROVE  f \in Held(server') <=> f \in Held(server)
      <3>1. CASE f[1] = e
        BY <3>1, <1>1, <1>3, <1>4, HeldMeans
      <3>2. CASE f[1] # e
        BY <3>2, <1>3, HeldMeans
      <3> QED
        BY <3>1, <3>2
    <2> QED
      BY <2>1
  <1>6. /\ tracker.spawned \in Seq(AnyEntity) /\ tracker.despawned \in SUBSET AnyEntity
        /\ tracker.changed \in SUBSET AnyField
        /\ tracker' = [spawned |-> Append(tracker.spawned, e),
                       despawned |-> tracker.despawned, changed |-> tracker.changed]
    BY <1>2 DEF ReplicaInv, ReplicaTypeOK
  <1> DEFINE s == tracker.spawned
             t == Append(s, e)
  <1>7. /\ Len(s) \in Nat /\ DOMAIN s = 1 .. Len(s)
        /\ t \in Seq(AnyEntity) /\ DOMAIN t = 1 .. Len(s) + 1
        /\ \A n \in 1 .. Len(s) : t[n] = s[n] /\ s[n] \in AnyEntity
        /\ t[Len(s) + 1] = e
    BY <1>1, <1>6, AppendProperties, LenProperties, ElementOfSeq
  <1>8. InTracker' = InTracker \cup {e} /\ tracker'.changed = tracker.changed
        /\ tracker'.despawned = tracker.despawned /\ tracker'.spawned = t
    <2>1. tracker'.spawned = t
      BY <1>6
    <2> HIDE DEF t
    <2>2. Range(t) = Range(s) \cup {e}
      BY <1>7 DEF Range
    <2> QED
      BY <1>6, <2>1, <2>2 DEF InTracker
  <1> HIDE DEF t
  <1>10. ReplicaTypeOK'
    <2>1. DOMAIN server' \subseteq AnyEntity
      BY <1>1, <1>3 DEF ReplicaInv, ReplicaTypeOK
    <2>2. tracker' \in [spawned : Seq(AnyEntity), despawned : SUBSET AnyEntity,
                        changed : SUBSET AnyField]
      BY <1>6, <1>7 DEF t
    <2> QED
      BY <2>1, <2>2, <1>u DEF ReplicaInv, ReplicaTypeOK, clientVars, Listed
  <1>11. SlotsRight'
    BY <1>1, <1>3, <1>u DEF ReplicaInv, SlotsRight
  <1>12. TrackerTells'
    <2>1. \A o \in InTracker' : o \in DOMAIN server' \/ o.gen < nextGen'[o.index]
      BY <1>3, <1>8, <1>u DEF ReplicaInv, TrackerTells
    <2>2. ASSUME NEW n \in 1 .. Len(s) + 1, NEW m \in 1 .. Len(s) + 1, n < m,
                 t[n].index = t[m].index
          PROVE  t[n].gen < t[m].gen
      <3>1. n \in 1 .. Len(s) /\ t[n] = s[n] /\ s[n] \in InTracker
        BY <2>2, <1>7 DEF InTracker, Range
      <3>2. CASE m = Len(s) + 1
        <4>1. t[m] = e /\ s[n].index = i
          BY <3>1, <3>2, <2>2, <1>1, <1>7
        <4>2. s[n] \notin DOMAIN server
          BY <4>1, <1>1
        <4>3. s[n].gen < nextGen[i]
          BY <3>1, <4>1, <4>2 DEF ReplicaInv, TrackerTells
        <4> QED
          BY <3>1, <4>1, <4>3, <1>1
      <3>3. CASE m \in 1 .. Len(s)
        BY <3>1, <3>3, <2>2, <1>7 DEF ReplicaInv, TrackerTells
      <3> QED
        BY <3>2, <3>3, <1>7
    <2>3. \A o \in tracker'.despawned : o.gen < nextGen'[o.index]
      BY <1>8, <1>u DEF ReplicaInv, TrackerTells
    <2>4. ASSUME NEW l \in DOMAIN server', NEW o \in InTracker', o.index = l.index
          PROVE  l \in InTracker'
      <3>1. CASE l = e
        BY <3>1, <1>8
      <3>2. CASE l \in DOMAIN server
        <4>1. o \in InTracker
          BY <3>2, <2>4, <1>1, <1>8
        <4> QED
          BY <3>2, <4>1, <2>4, <1>8 DEF ReplicaInv, TrackerTells
      <3> QED
        BY <3>1, <3>2, <1>3
    <2>5. ASSUME NEW f \in Held(server'), f[1] \in InTracker'
          PROVE  f \in tracker'.changed
      <3>1. f \in Held(server) /\ f[1] # e
        BY <2>5, <1>1, <1>5, HeldMeans
      <3> QED
        BY <3>1, <2>5, <1>8 DEF ReplicaInv, TrackerTells
    <2>6. \A n, m \in DOMAIN tracker'.spawned :
            n < m /\ tracker'.spawned[n].index = tracker'.spawned[m].index
              => tracker'.spawned[n].gen < tracker'.spawned[m].gen
      BY <2>2, <1>7, <1>8
    <2> QED
      BY <2>1, <2>3, <2>4, <2>5, <2>6 DEF TrackerTells
  <1>13. FieldsBorn'
    BY <1>5, <1>u DEF ReplicaInv, FieldsBorn
  <1>14. \A c \in Clients : ChannelTells(c)' /\ Follows(c)'
    <2>1. \A f \in born' : server'[f[1]][f[2]] = server[f[1]][f[2]]
      <3>1. \A f \in born : f[1] \in DOMAIN server
        BY HeldMeans DEF ReplicaInv, FieldsBorn
      <3> QED
        BY <3>1, <1>3, <1>u
    <2> QED
      BY <2>1, <1>8, <1>u, ServerCalls
  <1> QED
    BY <1>10, <1>11, <1>12, <1>13, <1>14 DEF ReplicaInv

\* A despawn ends the entity's generation.
LEMMA DespawnKeeps ==
  ASSUME ReplicaInv, NEW e \in DOMAIN server, Despawn(e)
  PROVE  ReplicaInv'
  <1>1. /\ e \in AnyEntity /\ e.index \in Indices /\ e.gen = nextGen[e.index] /\ e.gen \in Nat
    BY EntityMeans DEF ReplicaInv, ReplicaTypeOK, SlotsRight
  <1>2. /\ DOMAIN server' = DOMAIN server \ {e}
        /\ \A o \in DOMAIN server' : server'[o] = server[o]
    BY DEF Despawn, Restrict
  <1>3. /\ nextGen' \in [Indices -> Nat] /\ nextGen'[e.index] = e.gen + 1
        /\ \A i \in Indices : i # e.index => nextGen'[i] = nextGen[i]
    BY <1>1 DEF Despawn, ReplicaInv, ReplicaTypeOK
  <1>4. /\ tracker.spawned \in Seq(AnyEntity) /\ tracker.despawned \in SUBSET AnyEntity
        /\ tracker.changed \in SUBSET AnyField
        /\ tracker' = [spawned |-> tracker.spawned,
                       despawned |-> tracker.despawned \cup {e}, changed |-> tracker.changed]
    BY DEF Despawn, ReplicaInv, ReplicaTypeOK
  <1>5. /\ InTracker' = InTracker /\ tracker'.spawned = tracker.spawned
        /\ tracker'.changed = tracker.changed
        /\ tracker'.despawned = tracker.despawned \cup {e}
    BY <1>4 DEF InTracker
  <1>6. InTracker \subseteq AnyEntity
    BY <1>4, ElementOfSeq, LenProperties DEF InTracker, Range
  <1>7. \A o \in AnyEntity : o.gen < nextGen[o.index] => o.gen < nextGen'[o.index]
    BY <1>1, <1>3, EntityMeans
  <1>8. \A o \in AnyEntity : o \in DOMAIN server' \/ o.gen < nextGen'[o.index]
                             \/ ~(o \in DOMAIN server \/ o.gen < nextGen[o.index])
    BY <1>1, <1>2, <1>3, <1>7
  <1>9. UNCHANGED <<frame, clientVars, relevant, channel, withheld, omitted>>
        /\ born' = {f \in born : f[1] # e}
    BY DEF Despawn
  <1>10. ReplicaTypeOK'
    BY <1>1, <1>2, <1>3, <1>4, <1>9 DEF ReplicaInv, ReplicaTypeOK, clientVars, Listed
  <1>11. SlotsRight'
    <2>1. ASSUME NEW o \in DOMAIN server'
          PROVE  o.gen = nextGen'[o.index]
      <3>1. o \in AnyEntity /\ o # e /\ o.gen = nextGen[o.index] /\ o.index \in Indices
        BY <1>2, EntityMeans DEF ReplicaInv, ReplicaTypeOK, SlotsRight
      <3>2. o.index # e.index
        BY <3>1, <1>1, EntityMeans
      <3> QED
        BY <3>1, <3>2, <1>3
    <2> QED
      BY <2>1 DEF SlotsRight
  <1>12. \A f \in Held(server') : f \in Held(server) /\ f[1] # e
    BY <1>2, HeldMeans
  <1>13. TrackerTells'
    <2>1. \A o \in InTracker' : o \in DOMAIN server' \/ o.gen < nextGen'[o.index]
      BY <1>5, <1>6, <1>8 DEF ReplicaInv, TrackerTells
    <2>2. \A o \in tracker'.despawned : o.gen < nextGen'[o.index]
      BY <1>1, <1>3, <1>4, <1>5, <1>7 DEF ReplicaInv, TrackerTells
    <2>3. \A l \in DOMAIN server', o \in InTracker' : o.index = l.index => l \in InTracker'
      BY <1>2, <1>5 DEF ReplicaInv, TrackerTells
    <2>4. \A f \in Held(server') : f[1] \in InTracker' => f \in tracker'.changed
      BY <1>5, <1>12 DEF ReplicaInv, TrackerTells
    <2>5. \A n, m \in DOMAIN tracker'.spawned :
            n < m /\ tracker'.spawned[n].index = tracker'.spawned[m].index
              => tracker'.spawned[n].gen < tracker'.spawned[m].gen
      BY <1>5 DEF ReplicaInv, TrackerTells
    <2> QED
      BY <2>1, <2>2, <2>3, <2>4, <2>5 DEF TrackerTells
  <1>14. FieldsBorn'
    <2>1. \A f \in born' : f \in Held(server')
      <3>1. \A f \in born' : f \in Held(server) /\ f[1] # e
        BY <1>9 DEF ReplicaInv, FieldsBorn
      <3> QED
        BY <3>1, <1>2, HeldMeans
    <2> QED
      BY <2>1, <1>9 DEF ReplicaInv, FieldsBorn
  <1>15. \A c \in Clients : ChannelTells(c)' /\ Follows(c)'
    <2>1. \A f \in born' : server'[f[1]][f[2]] = server[f[1]][f[2]]
      <3>1. \A f \in born' : f[1] \in DOMAIN server'
        BY <1>14, HeldMeans DEF FieldsBorn
      <3> QED
        BY <3>1, <1>2
    <2> QED
      BY <2>1, <1>5, <1>9, ServerCalls
  <1> QED
    BY <1>10, <1>11, <1>13, <1>14, <1>15 DEF ReplicaInv

\* A call on one live entity records the component it changes.
LEMMA ChangeKeeps ==
  ASSUME ReplicaInv, NEW e \in DOMAIN server, NEW k \in Components,
         DOMAIN server' = DOMAIN server,
         \A o \in DOMAIN server : o # e => server'[o] = server[o],
         \A l \in Components : l # k =>
           /\ l \in DOMAIN server'[e] <=> l \in DOMAIN server[e]
           /\ server'[e][l] = server[e][l] \/ l \notin DOMAIN server[e],
         tracker' = [tracker EXCEPT !.changed = @ \cup {<<e, k>>}],
         \/ born' = born /\ k \in DOMAIN server'[e]
         \/ born' = born \ {<<e, k>>},
         UNCHANGED <<nextGen, frame, clientVars, relevant, channel, withheld, omitted>>
  PROVE  ReplicaInv'
  <1>1. /\ tracker.spawned \in Seq(AnyEntity) /\ tracker.despawned \in SUBSET AnyEntity
        /\ tracker.changed \in SUBSET AnyField
        /\ tracker' = [spawned |-> tracker.spawned, despawned |-> tracker.despawned,
                       changed |-> tracker.changed \cup {<<e, k>>}]
    BY DEF ReplicaInv, ReplicaTypeOK
  <1>2. /\ InTracker' = InTracker /\ tracker'.spawned = tracker.spawned
        /\ tracker'.changed = tracker.changed \cup {<<e, k>>}
        /\ tracker'.despawned = tracker.despawned
    BY <1>1 DEF InTracker
  <1>3. \A f : f # <<e, k>> => (f \in Held(server') <=> f \in Held(server))
    <2>1. ASSUME NEW f, f # <<e, k>>
          PROVE  f \in Held(server') <=> f \in Held(server)
      <3>1. CASE f[1] = e
        BY <3>1, <2>1, HeldMeans
      <3>2. CASE f[1] # e
        BY <3>2, HeldMeans
      <3> QED
        BY <3>1, <3>2
    <2> QED
      BY <2>1
  <1>4. ReplicaTypeOK'
    <2>1. <<e, k>> \in AnyField
      BY DEF ReplicaInv, ReplicaTypeOK, AnyField
    <2> QED
      BY <2>1, <1>1 DEF ReplicaInv, ReplicaTypeOK, clientVars, Listed
  <1>5. SlotsRight'
    BY DEF ReplicaInv, SlotsRight
  <1>6. TrackerTells'
    <2>1. \A f \in Held(server') : f[1] \in InTracker' => f \in tracker'.changed
      BY <1>2, <1>3 DEF ReplicaInv, TrackerTells
    <2> QED
      BY <2>1, <1>2 DEF ReplicaInv, TrackerTells
  <1>7. FieldsBorn'
    <2>1. ASSUME NEW f \in born'
          PROVE  f \in Held(server')
      <3>1. f \in Held(server)
        BY DEF ReplicaInv, FieldsBorn
      <3>2. CASE f # <<e, k>>
        BY <3>1, <3>2, <1>3
      <3>3. CASE f = <<e, k>>
        <4>1. k \in DOMAIN server'[e]
          BY <3>3
        <4> QED
          BY <4>1, <3>3, HeldMeans
      <3> QED
        BY <3>2, <3>3
    <2> QED
      BY <2>1 DEF ReplicaInv, FieldsBorn
  <1>8. \A c \in Clients : ChannelTells(c)' /\ Follows(c)'
    <2>1. ASSUME NEW f \in born', f \notin tracker'.changed
          PROVE  server'[f[1]][f[2]] = server[f[1]][f[2]]
      <3>1. f \in Held(server) /\ f # <<e, k>>
        BY <2>1, <1>2 DEF ReplicaInv, FieldsBorn
      <3>2. CASE f[1] = e
        BY <3>1, <3>2, HeldMeans
      <3>3. CASE f[1] # e
        BY <3>1, <3>3, HeldMeans
      <3> QED
        BY <3>2, <3>3
    <2>2. born' \subseteq born /\ tracker.changed \subseteq tracker'.changed
      BY <1>2
    <2> QED
      BY <2>1, <2>2, ServerCalls
  <1> QED
    BY <1>4, <1>5, <1>6, <1>7, <1>8 DEF ReplicaInv

\* A value set is a change recorded.
LEMMA SetKeeps ==
  ASSUME ReplicaInv, NEW e \in DOMAIN server, NEW k \in Components, NEW v \in Values, Set(e, k, v)
  PROVE  ReplicaInv'
  <1> DEFINE x == Put(server[e], k, v)
             w == Put(server, e, x)
  <1>1. DOMAIN x = DOMAIN server[e] \cup {k} /\ \A l \in DOMAIN server[e] : l # k => x[l] = server[e][l]
    BY DEF Put
  <1> HIDE DEF x
  <1>2. DOMAIN w = DOMAIN server /\ w[e] = x /\ \A o \in DOMAIN server : o # e => w[o] = server[o]
    BY DEF Put
  <1> HIDE DEF w
  <1>3. server' = w
    BY DEF Set, w, x
  <1>4. /\ tracker' = [tracker EXCEPT !.changed = @ \cup {<<e, k>>}]
        /\ UNCHANGED <<nextGen, frame, born, clientVars, relevant, channel, withheld, omitted>>
    BY DEF Set
  <1> QED
    BY <1>1, <1>2, <1>3, <1>4, ChangeKeeps

\* A component taken is a change recorded, of a field that is no longer owed.
LEMMA UnsetKeeps ==
  ASSUME ReplicaInv, NEW e \in DOMAIN server, NEW k \in Components, Unset(e, k)
  PROVE  ReplicaInv'
  <1> DEFINE x == Restrict(server[e], DOMAIN server[e] \ {k})
             w == Put(server, e, x)
  <1>1. DOMAIN x = DOMAIN server[e] \ {k} /\ \A l \in DOMAIN server[e] : l # k => x[l] = server[e][l]
    BY DEF Restrict
  <1> HIDE DEF x
  <1>2. DOMAIN w = DOMAIN server /\ w[e] = x /\ \A o \in DOMAIN server : o # e => w[o] = server[o]
    BY DEF Put
  <1> HIDE DEF w
  <1>3. server' = w
    BY DEF Unset, w, x
  <1>4. /\ tracker' = [tracker EXCEPT !.changed = @ \cup {<<e, k>>}]
        /\ born' = born \ {<<e, k>>}
        /\ UNCHANGED <<nextGen, frame, clientVars, relevant, channel, withheld, omitted>>
    BY DEF Unset
  <1> QED
    BY <1>1, <1>2, <1>3, <1>4, ChangeKeeps

\* What the frame boundary sends one client of the frame.
LEMMA DrainedMeans ==
  ASSUME ReplicaInv, NEW c \in Clients
  PROVE  LET d == View(Drained, c)
         IN /\ d.frame = frame /\ d.base = frame - 1
            /\ d.despawned = tracker.despawned
            /\ DOMAIN d.spawned = DOMAIN tracker.spawned
            /\ \A n \in DOMAIN tracker.spawned :
                 /\ d.spawned[n].entity = tracker.spawned[n]
                 /\ d.spawned[n].archetype = ArchetypeOf(tracker.spawned[n])
            /\ \A f : f \in DOMAIN d.values <=>
                 f \in tracker.changed /\ f \in Held(server) /\ Sees(c, f)
            /\ \A f \in DOMAIN d.values : d.values[f] = server[f[1]][f[2]]
            /\ DOMAIN Drained.values = tracker.changed \cap Held(server)
  <1> DEFINE sp == [i \in DOMAIN tracker.spawned |->
                      [entity |-> tracker.spawned[i],
                       archetype |-> ArchetypeOf(tracker.spawned[i])]]
             vs == [f \in tracker.changed \cap Held(server) |-> server[f[1]][f[2]]]
             ws == Restrict(vs, {f \in DOMAIN vs : Sees(c, f)})
  <1>1. Drained = [frame |-> frame, base |-> frame - 1, despawned |-> tracker.despawned,
                   spawned |-> sp, values |-> vs]
    BY DEF Drained
  <1>2. /\ DOMAIN sp = DOMAIN tracker.spawned
        /\ \A n \in DOMAIN tracker.spawned :
             /\ sp[n].entity = tracker.spawned[n]
             /\ sp[n].archetype = ArchetypeOf(tracker.spawned[n])
    OBVIOUS
  <1>3. /\ DOMAIN vs = tracker.changed \cap Held(server)
        /\ \A f \in DOMAIN vs : vs[f] = server[f[1]][f[2]]
    OBVIOUS
  <1>4. /\ DOMAIN ws = {f \in DOMAIN vs : Sees(c, f)}
        /\ \A f \in DOMAIN ws : ws[f] = vs[f]
    BY DEF Restrict
  <1>5. View(Drained, c) = [Drained EXCEPT !.values = Restrict(@, {f \in DOMAIN @ : Sees(c, f)})]
    BY DEF View
  <1> HIDE DEF sp, vs
  <1>6. View(Drained, c) = [frame |-> frame, base |-> frame - 1, despawned |-> tracker.despawned,
                            spawned |-> sp, values |-> ws]
    <2>1. Drained.values = vs
      BY <1>1
    <2>2. View(Drained, c) = [Drained EXCEPT !.values = ws]
      BY <1>5, <2>1
    <2> HIDE DEF ws
    <2> QED
      BY <1>1, <2>2
  <1> HIDE DEF ws
  <1> QED
    BY <1>1, <1>2, <1>3, <1>4, <1>6

\* The frame's delta lands what its newcomers hold, and spares whoever lives
\* and is no newcomer.
LEMMA DrainedFor ==
  ASSUME ReplicaInv, NEW c \in Clients, NEW f \in Held(server)
  PROVE  /\ f[1] \in InTracker => Lands(View(Drained, c), f)
         /\ f[1] \notin InTracker => Spares(View(Drained, c), f[1])
  <1> DEFINE d == View(Drained, c)
             e == f[1]
  <1>1. /\ d.despawned = tracker.despawned
        /\ DOMAIN d.spawned = DOMAIN tracker.spawned
        /\ \A n \in DOMAIN tracker.spawned :
             /\ d.spawned[n].entity = tracker.spawned[n]
             /\ d.spawned[n].archetype = ArchetypeOf(tracker.spawned[n])
    BY DrainedMeans
  <1>2. /\ e \in DOMAIN server /\ f[2] \in DOMAIN server[e] /\ e.gen = nextGen[e.index]
        /\ e \in AnyEntity /\ e.gen \in Nat
    BY HeldMeans, EntityMeans DEF ReplicaInv, ReplicaTypeOK, SlotsRight
  <1> HIDE DEF d, e
  <1>3. ASSUME e \in InTracker
        PROVE  Lands(d, f)
    <2>1. PICK n \in DOMAIN tracker.spawned : tracker.spawned[n] = e
      BY <1>3 DEF InTracker, Range
    <2>2. ASSUME NEW m \in DOMAIN d.spawned, m > n, d.spawned[m].entity.index = e.index
          PROVE  FALSE
      <3> DEFINE o == tracker.spawned[m]
      <3>1. m \in DOMAIN tracker.spawned /\ o.index = e.index
        BY <2>2, <1>1
      <3>2. n \in Int /\ m \in Int /\ n < m
        BY <2>1, <2>2, <3>1, LenProperties DEF ReplicaInv, ReplicaTypeOK
      <3>3. e.gen < o.gen
        BY <2>1, <3>1, <3>2 DEF ReplicaInv, TrackerTells
      <3>4. o \in InTracker /\ o \in AnyEntity
        BY <3>1, ElementOfSeq, LenProperties DEF InTracker, Range, ReplicaInv, ReplicaTypeOK
      <3>5. o.gen \in Nat
        BY <3>4, EntityMeans
      <3>6. o \in DOMAIN server \/ o.gen < nextGen[o.index]
        BY <3>4 DEF ReplicaInv, TrackerTells
      <3>7. o.gen = nextGen[o.index] \/ o.gen < nextGen[o.index]
        BY <3>6 DEF ReplicaInv, SlotsRight
      <3> QED
        BY <3>1, <3>3, <3>5, <3>7, <1>2
    <2>3. n \in LastSpawns(d.spawned)
      BY <2>1, <2>2, <1>1 DEF LastSpawns
    <2>4. f[2] \in d.spawned[n].archetype
      BY <2>1, <1>1, <1>2 DEF ArchetypeOf
    <2> QED
      BY <2>1, <2>3, <2>4, <1>1 DEF Lands, e
  <1>4. ASSUME e \notin InTracker
        PROVE  Spares(d, e)
    <2>1. ASSUME NEW n \in DOMAIN d.spawned
          PROVE  d.spawned[n].entity.index # e.index
      <3>1. tracker.spawned[n] \in InTracker /\ d.spawned[n].entity = tracker.spawned[n]
        BY <1>1 DEF InTracker, Range
      <3> QED
        BY <3>1, <1>2, <1>4 DEF ReplicaInv, TrackerTells
    <2>2. e \notin d.despawned
      BY <1>1, <1>2 DEF ReplicaInv, TrackerTells
    <2> QED
      BY <2>1, <2>2 DEF Spares
  <1> QED
    BY <1>3, <1>4 DEF d, e

\* The frame boundary sends every client the frame's delta.
LEMMA EndFrameKeeps ==
  ASSUME ReplicaInv, EndFrame
  PROVE  ReplicaInv'
  <1>1. /\ channel' = [c \in Clients |-> Append(channel[c], View(Drained, c))]
        /\ withheld' = [c \in Clients |->
             {f \in withheld[c] \cup DOMAIN Drained.values :
                f \in DOMAIN Drained.values /\ f[1] \notin omitted[c] => ~Sees(c, f)}]
        /\ omitted' = [c \in Clients |-> omitted[c] \ InTracker]
        /\ born' = born \cup {f \in Held(server) : f[1] \in InTracker}
        /\ tracker' = EmptyTracker /\ frame' = frame + 1
        /\ UNCHANGED <<server, nextGen, replica, applied, gapped>>
    BY DEF EndFrame, InTracker, clientVars
  <1>2. /\ tracker'.spawned = <<>> /\ tracker'.despawned = {} /\ tracker'.changed = {}
        /\ InTracker' = {}
    BY <1>1 DEF EmptyTracker, InTracker, Range
  <1>3. frame \in Nat \ {0}
    BY DEF ReplicaInv, ReplicaTypeOK
  <1>4. born' \subseteq Held(server)
    BY <1>1 DEF ReplicaInv, FieldsBorn
  <1>5. ASSUME NEW c \in Clients
        PROVE  /\ Listed(channel'[c])
               /\ Len(channel[c]) \in Nat /\ DOMAIN channel[c] = 1 .. Len(channel[c])
               /\ DOMAIN channel'[c] = 1 .. Len(channel[c]) + 1
               /\ \A n \in 1 .. Len(channel[c]) : channel'[c][n] = channel[c][n]
               /\ channel'[c][Len(channel[c]) + 1] = View(Drained, c)
               /\ Under(c)' = Under(c) \cup {View(Drained, c)}
    <2>1. Listed(channel[c]) /\ channel'[c] = Append(channel[c], View(Drained, c))
      BY <1>1 DEF ReplicaInv, ReplicaTypeOK
    <2> DEFINE s == channel[c]
               t == Append(s, View(Drained, c))
    <2>2. /\ Listed(t) /\ Len(s) \in Nat /\ DOMAIN s = 1 .. Len(s)
          /\ DOMAIN t = 1 .. Len(s) + 1
          /\ \A n \in 1 .. Len(s) : t[n] = s[n]
          /\ t[Len(s) + 1] = View(Drained, c)
          /\ Range(t) = Range(s) \cup {View(Drained, c)}
      BY <2>1, ListedAppend
    <2>3. channel'[c] = t
      BY <2>1
    <2> HIDE DEF t
    <2> QED
      BY <2>2, <2>3 DEF Under
  <1>6. ReplicaTypeOK'
    <2>1. EmptyTracker \in [spawned : Seq(AnyEntity), despawned : SUBSET AnyEntity,
                            changed : SUBSET AnyField]
      BY DEF EmptyTracker
    <2> QED
      BY <2>1, <1>1, <1>5 DEF ReplicaInv, ReplicaTypeOK
  <1>7. SlotsRight'
    BY <1>1 DEF ReplicaInv, SlotsRight
  <1>8. TrackerTells'
    BY <1>2 DEF TrackerTells
  <1>9. FieldsBorn'
    <2>1. ASSUME NEW c \in Clients, NEW f \in born', f[1] \in omitted'[c]
          PROVE  f \in withheld'[c]
      <3>1. f[1] \in omitted[c] /\ f[1] \notin InTracker
        BY <2>1, <1>1
      <3>2. f \in born
        BY <3>1, <1>1
      <3>3. f \in withheld[c]
        BY <3>1, <3>2 DEF ReplicaInv, FieldsBorn
      <3> QED
        BY <3>1, <3>3, <1>1
    <2> QED
      BY <2>1, <1>1, <1>4 DEF FieldsBorn
  <1>10. ASSUME NEW c \in Clients
         PROVE  ChannelTells(c)' /\ Follows(c)'
    <2> DEFINE d == View(Drained, c)
    <2>1. /\ d.frame = frame /\ d.base = frame - 1
          /\ \A f : f \in DOMAIN d.values <=>
               f \in tracker.changed /\ f \in Held(server) /\ Sees(c, f)
          /\ \A f \in DOMAIN d.values : d.values[f] = server[f[1]][f[2]]
          /\ DOMAIN Drained.values = tracker.changed \cap Held(server)
      BY DrainedMeans
    <2>2. \A u \in Under(c) : u.frame \in Nat /\ u.frame < frame /\ u.base = u.frame - 1
      BY DEF ReplicaInv, ChannelTells
    <2>3. Under(c)' = Under(c) \cup {d}
      BY <1>5
    <2>4. applied[c] \in Nat /\ applied[c] < frame /\ applied'[c] = applied[c]
      BY <1>1 DEF ReplicaInv, ReplicaTypeOK, ChannelTells
    <2>l. \A f \in Held(server) : /\ f[1] \in InTracker => Lands(d, f)
                                  /\ f[1] \notin InTracker => Spares(d, f[1])
      BY DrainedFor
    <2> HIDE DEF d
    <2>5. ChannelTells(c)'
      <3>1. \A u \in Under(c)' : u.frame \in Nat /\ u.frame < frame' /\ u.base = u.frame - 1
        BY <1>1, <1>3, <2>1, <2>2, <2>3
      <3>2. ASSUME NEW n \in DOMAIN channel'[c], NEW m \in DOMAIN channel'[c],
                   channel'[c][n].frame = channel'[c][m].frame
            PROVE  n = m
        <4> DEFINE L == Len(channel[c])
        <4>1. /\ L \in Nat /\ DOMAIN channel[c] = 1 .. L
              /\ DOMAIN channel'[c] = 1 .. L + 1
              /\ \A i \in 1 .. L : channel'[c][i] = channel[c][i]
              /\ channel'[c][L + 1].frame = frame
          BY <1>5, <2>1 DEF d
        <4>2. \A i \in 1 .. L : channel'[c][i].frame \in Nat /\ channel'[c][i].frame < frame
          BY <4>1, <2>2 DEF Under, Range
        <4>3. \A i, j \in 1 .. L : channel'[c][i].frame = channel'[c][j].frame => i = j
          BY <4>1 DEF ReplicaInv, ChannelTells
        <4> HIDE DEF L
        <4> QED
          BY <4>1, <4>2, <4>3, <3>2, <1>3
      <3> QED
        BY <3>1, <3>2, <2>4, <1>1, <1>3 DEF ChannelTells
    <2>6. Pending(c)' = Pending(c) \cup {d}
      BY <2>1, <2>3, <2>4 DEF Pending
    <2>7. \A u \in Pending(c) : u.frame \in Nat /\ u.frame < d.frame
      BY <2>1, <2>2 DEF Pending
    <2>8. Complete(c)' => Complete(c)
      <3> SUFFICES ASSUME Complete(c)', NEW g \in applied[c] + 1 .. frame - 1
                   PROVE  \E u \in Under(c) : u.frame = g
        BY <1>1 DEF Complete
      <3>1. g \in applied[c] + 1 .. frame' - 1 /\ g # frame
        BY <1>1, <1>3, <2>4
      <3>2. PICK u \in Under(c)' : u.frame = g
        BY <3>1, <2>4 DEF Complete
      <3> QED
        BY <3>1, <3>2, <2>1, <2>3
    <2>9. ASSUME Complete(c)', NEW f \in born', f[1] \notin omitted'[c]
          PROVE  Arrives(replica[c], Pending(c) \cup {d}, f)
      <3>1. f \in Held(server)
        BY <1>4
      <3>2. CASE f[1] \in InTracker
        BY <3>1, <3>2, <2>1, <2>7, <2>l, <1>3, ArrivesLast
      <3>3. CASE f[1] \notin InTracker
        <4>1. f \in born /\ f[1] \notin omitted[c]
          BY <3>3, <2>9, <1>1
        <4>2. Arrives(replica[c], Pending(c), f)
          BY <4>1, <2>8, <2>9 DEF ReplicaInv, Follows
        <4>3. Spares(d, f[1])
          BY <3>1, <3>3, <2>l
        <4> QED
          BY <4>2, <4>3, ArrivesStill
      <3> QED
        BY <3>2, <3>3
    <2>10. ASSUME Complete(c)', NEW f \in born', f \notin withheld'[c]
           PROVE  Told(replica[c], Pending(c) \cup {d}, f, server[f[1]][f[2]])
      <3>1. f \in Held(server)
        BY <1>4
      <3>2. CASE f \in tracker.changed
        <4>1. f \in DOMAIN Drained.values
          BY <3>1, <3>2, <2>1
        <4>2. Sees(c, f)
          BY <4>1, <2>10, <1>1
        <4>3. f \in DOMAIN d.values /\ d.values[f] = server[f[1]][f[2]]
          BY <4>2, <3>1, <3>2, <2>1
        <4>4. Told(replica[c], Pending(c) \cup {d}, f, d.values[f])
          BY <4>3, <2>1, <2>7, <1>3, ToldLast
        <4> QED
          BY <4>3, <4>4
      <3>3. CASE f \notin tracker.changed
        <4>1. f[1] \notin InTracker
          BY <3>1, <3>3 DEF ReplicaInv, TrackerTells
        <4>2. f \in born
          BY <4>1, <1>1
        <4>3. f \notin withheld[c]
          BY <3>3, <2>1, <2>10, <1>1
        <4>4. Told(replica[c], Pending(c), f, server[f[1]][f[2]])
          BY <4>2, <4>3, <3>3, <2>8, <2>10 DEF ReplicaInv, Follows, Current
        <4>5. Keeps(d, f)
          BY <4>1, <3>1, <3>3, <2>1, <2>l DEF Keeps
        <4> QED
          BY <4>4, <4>5, ToldStill
      <3> QED
        BY <3>2, <3>3
    <2>11. Follows(c)'
      <3>1. ASSUME Complete(c)', NEW f \in born', f[1] \notin omitted'[c]
            PROVE  Arrives(replica[c], Pending(c), f)'
        BY <3>1, <2>6, <2>9, <1>1
      <3>2. ASSUME Complete(c)', NEW f \in born', f \notin withheld'[c]
            PROVE  Current(c, f)'
        BY <3>2, <2>6, <2>10, <1>1 DEF Current
      <3> QED
        BY <3>1, <3>2 DEF Follows
    <2> QED
      BY <2>5, <2>11
  <1> QED
    BY <1>6, <1>7, <1>8, <1>9, <1>10 DEF ReplicaInv

\* What the server knows of the clients does not change when a client's own
\* channel does.
LEMMA ClientSteps ==
  ASSUME ReplicaInv, UNCHANGED serverVars, ReplicaTypeOK', FieldsBorn'
  PROVE  /\ SlotsRight' /\ TrackerTells'
         /\ (\A c \in Clients : ChannelTells(c)' /\ Follows(c)') => ReplicaInv'
  BY DEF ReplicaInv, serverVars, SlotsRight, TrackerTells, InTracker

\* Nothing changes for a client whose own state does not.
LEMMA OthersFollow ==
  ASSUME ReplicaInv, UNCHANGED serverVars, NEW c \in Clients,
         channel'[c] = channel[c], replica'[c] = replica[c], applied'[c] = applied[c],
         gapped'[c] = gapped[c], withheld'[c] = withheld[c], omitted'[c] = omitted[c]
  PROVE  ChannelTells(c)' /\ Follows(c)'
  <1> USE DEF serverVars
  <1>1. Under(c)' = Under(c)
    BY DEF Under
  <1>2. ChannelTells(c)'
    BY <1>1 DEF ReplicaInv, ChannelTells
  <1>3. Pending(c)' = Pending(c) /\ (Complete(c)' <=> Complete(c))
    BY <1>1 DEF Pending, Complete
  <1>4. ASSUME NEW f \in born
        PROVE  /\ Arrives(replica[c], Pending(c), f)' <=> Arrives(replica[c], Pending(c), f)
               /\ Current(c, f)' <=> Current(c, f)
    BY <1>3 DEF Current
  <1> QED
    BY <1>2, <1>3, <1>4 DEF ReplicaInv, Follows

\* What a client may see now says nothing of what it was sent.
LEMMA RefocusKeeps ==
  ASSUME ReplicaInv, NEW c \in Clients, NEW S, Refocus(c, S)
  PROVE  ReplicaInv'
  <1>1. UNCHANGED <<serverVars, clientVars, channel, withheld, omitted>>
    BY DEF Refocus
  <1>2. ReplicaTypeOK' /\ FieldsBorn'
    BY <1>1 DEF ReplicaInv, ReplicaTypeOK, FieldsBorn, serverVars, clientVars, Listed
  <1>3. \A d \in Clients : ChannelTells(d)' /\ Follows(d)'
    BY <1>1, OthersFollow DEF clientVars
  <1> QED
    BY <1>1, <1>2, <1>3, ClientSteps

\* What taking one delta off a client's channel leaves.
LEMMA Taken ==
  ASSUME ReplicaInv, UNCHANGED serverVars, NEW c \in Clients, NEW n \in DOMAIN channel[c],
         channel' = [channel EXCEPT ![c] = RemoveFrom(@, n)],
         applied'[c] \in Nat, applied'[c] < frame
  PROVE  /\ Listed(channel'[c]) /\ DOMAIN channel' = Clients
         /\ \A o \in Clients : o # c => channel'[o] = channel[o]
         /\ Under(c)' = Under(c) \ {channel[c][n]}
         /\ channel[c][n] \in Under(c)
         /\ \A d, u \in Under(c) : d.frame = u.frame => d = u
         /\ ChannelTells(c)'
  <1> DEFINE s == channel[c]
             t == RemoveFrom(s, n)
  <1>1. Listed(s) /\ \A i, j \in DOMAIN s : s[i].frame = s[j].frame => i = j
    BY DEF ReplicaInv, ReplicaTypeOK, ChannelTells
  <1>2. /\ Listed(t) /\ Range(t) = Range(s) \ {s[n]}
        /\ \A i, j \in DOMAIN t : t[i].frame = t[j].frame => i = j
    BY <1>1, RemovedOne
  <1> HIDE DEF t
  <1>3. channel'[c] = t /\ DOMAIN channel' = Clients
        /\ \A o \in Clients : o # c => channel'[o] = channel[o]
    BY DEF ReplicaInv, ReplicaTypeOK, t
  <1>4. Under(c)' = Under(c) \ {channel[c][n]}
    BY <1>2, <1>3 DEF Under
  <1>5. channel[c][n] \in Under(c)
    BY DEF Under, Range
  <1>6. \A d, u \in Under(c) : d.frame = u.frame => d = u
    BY <1>1 DEF Under, Range
  <1>7. ChannelTells(c)'
    <2>1. \A d \in Under(c)' : d.frame \in Nat /\ d.frame < frame' /\ d.base = d.frame - 1
      BY <1>4 DEF ReplicaInv, ChannelTells, serverVars
    <2> QED
      BY <2>1, <1>2, <1>3 DEF ChannelTells, serverVars
  <1> QED
    BY <1>2, <1>3, <1>4, <1>5, <1>6, <1>7

\* A delta that is gone without being applied was not to come, or the client
\* knows it misses one.
LEMMA Missed ==
  ASSUME ReplicaInv, UNCHANGED serverVars, NEW c \in Clients, NEW n \in DOMAIN channel[c],
         channel' = [channel EXCEPT ![c] = RemoveFrom(@, n)],
         UNCHANGED <<replica, applied, withheld, omitted>>,
         gapped'[c] = gapped[c]
  PROVE  ChannelTells(c)' /\ Follows(c)'
  <1> DEFINE d == channel[c][n]
  <1>1. applied'[c] \in Nat /\ applied'[c] < frame
    BY DEF ReplicaInv, ReplicaTypeOK, ChannelTells
  <1>2. /\ Under(c)' = Under(c) \ {d} /\ d \in Under(c)
        /\ \A o, u \in Under(c) : o.frame = u.frame => o = u
        /\ ChannelTells(c)'
    BY <1>1, Taken
  <1>3. d.frame \in Nat /\ d.frame < frame /\ frame \in Nat
    BY <1>2 DEF ReplicaInv, ReplicaTypeOK, ChannelTells
  <1> HIDE DEF d
  <1>4. ASSUME Complete(c)'
        PROVE  Complete(c) /\ Pending(c)' = Pending(c)
    <2>1. Complete(c)
      BY <1>2, <1>4 DEF Complete, serverVars
    <2>2. ~(d.frame > applied[c])
      <3> SUFFICES ASSUME d.frame > applied[c]
                   PROVE  FALSE
        OBVIOUS
      <3>1. d.frame \in applied'[c] + 1 .. frame' - 1
        BY <1>1, <1>3 DEF serverVars
      <3>2. PICK u \in Under(c)' : u.frame = d.frame
        BY <3>1, <1>4 DEF Complete
      <3> QED
        BY <3>2, <1>2
    <2> QED
      BY <2>1, <2>2, <1>2 DEF Pending
  <1>5. Follows(c)'
    <2>1. ASSUME Complete(c)', NEW f \in born'
          PROVE  /\ f[1] \notin omitted'[c] => Arrives(replica[c], Pending(c), f)'
                 /\ f \notin withheld'[c] /\ f \notin tracker'.changed => Current(c, f)'
      <3>1. Complete(c) /\ Pending(c)' = Pending(c) /\ f \in born
        BY <2>1, <1>4 DEF serverVars
      <3>2. /\ f[1] \notin omitted[c] => Arrives(replica[c], Pending(c), f)
            /\ f \notin withheld[c] /\ f \notin tracker.changed => Current(c, f)
        BY <3>1 DEF ReplicaInv, Follows
      <3>3. f[1] \notin omitted'[c] => Arrives(replica[c], Pending(c), f)'
        BY <3>1, <3>2
      <3>4. f \notin withheld'[c] /\ f \notin tracker'.changed => Current(c, f)'
        BY <3>1, <3>2 DEF serverVars, Current
      <3> QED
        BY <3>3, <3>4
    <2> QED
      BY <2>1 DEF Follows
  <1> QED
    BY <1>2, <1>5

\* A delta that arrives is applied if it is newer, and if it is the next one
\* the client has what it had to bring.
LEMMA DeliverKeeps ==
  ASSUME ReplicaInv, NEW c \in Clients, NEW n \in DOMAIN channel[c], Deliver(c, n)
  PROVE  ReplicaInv'
  <1> DEFINE d == channel[c][n]
             newer == d.frame > applied[c]
  <1>1. /\ channel' = [channel EXCEPT ![c] = RemoveFrom(@, n)]
        /\ replica' = IF newer THEN [replica EXCEPT ![c] = Applied(@, d)] ELSE replica
        /\ applied' = IF newer THEN [applied EXCEPT ![c] = d.frame] ELSE applied
        /\ gapped' = [gapped EXCEPT ![c] = @ \/ (newer /\ d.base # applied[c])]
        /\ UNCHANGED serverVars /\ UNCHANGED <<withheld, omitted>>
    BY DEF Deliver
  <1>2. d \in Under(c) /\ d.frame \in Nat /\ d.frame < frame /\ d.base = d.frame - 1
    BY DEF ReplicaInv, ChannelTells, Under, Range
  <1>3. /\ applied \in [Clients -> Nat] /\ gapped \in [Clients -> BOOLEAN]
        /\ DOMAIN replica = Clients /\ applied[c] < frame /\ frame \in Nat
    BY DEF ReplicaInv, ReplicaTypeOK, ChannelTells
  <1>4. applied'[c] \in Nat /\ applied'[c] < frame
    BY <1>1, <1>2, <1>3
  <1>5. /\ Listed(channel'[c]) /\ DOMAIN channel' = Clients
        /\ \A o \in Clients : o # c => channel'[o] = channel[o]
        /\ Under(c)' = Under(c) \ {d}
        /\ \A o, u \in Under(c) : o.frame = u.frame => o = u
        /\ ChannelTells(c)'
    BY <1>1, <1>4, Taken
  <1>6. /\ replica'[c] = IF newer THEN Applied(replica[c], d) ELSE replica[c]
        /\ applied'[c] = IF newer THEN d.frame ELSE applied[c]
        /\ gapped'[c] = (gapped[c] \/ (newer /\ d.base # applied[c]))
        /\ \A o \in Clients : o # c =>
             replica'[o] = replica[o] /\ applied'[o] = applied[o] /\ gapped'[o] = gapped[o]
    BY <1>1, <1>3
  <1>7. /\ applied' \in [Clients -> Nat] /\ gapped' \in [Clients -> BOOLEAN]
        /\ DOMAIN replica' = Clients
    BY <1>1, <1>2, <1>3
  <1> HIDE DEF d
  <1>8. ReplicaTypeOK'
    BY <1>1, <1>5, <1>7 DEF ReplicaInv, ReplicaTypeOK, serverVars, Listed
  <1>9. FieldsBorn'
    BY <1>1 DEF ReplicaInv, FieldsBorn, serverVars
  <1>10. Follows(c)'
    <2>1. CASE ~newer
      <3>1. UNCHANGED <<replica, applied>> /\ gapped'[c] = gapped[c]
        BY <2>1, <1>1, <1>3, <1>6
      <3> QED
        BY <3>1, <1>1, Missed
    <2>2. CASE newer
      <3>1. ASSUME Complete(c)'
            PROVE  /\ Complete(c) /\ Pending(c)' = Pending(c) \ {d}
                   /\ d \in Pending(c)
                   /\ \A u \in Pending(c) : u # d => u.frame > d.frame
        <4>1. ~gapped[c] /\ d.frame = applied[c] + 1 /\ applied'[c] = d.frame
          <5>1. ~gapped'[c]
            BY <3>1 DEF Complete
          <5>2. gapped[c] \in BOOLEAN /\ applied[c] \in Nat
            BY <1>3
          <5>3. ~gapped[c] /\ ~(newer /\ d.base # applied[c])
            BY <5>1, <5>2, <1>6, Zenon
          <5>4. d.base = applied[c] /\ applied'[c] = d.frame
            BY <2>2, <5>3, <1>6
          <5> QED
            BY <5>2, <5>3, <5>4, <1>2
        <4>2. ASSUME NEW g \in applied[c] + 1 .. frame - 1
              PROVE  \E u \in Under(c) : u.frame = g
          <5>1. CASE g = d.frame
            BY <5>1, <1>2
          <5>2. CASE g # d.frame
            <6>1. g \in applied'[c] + 1 .. frame' - 1
              BY <4>1, <5>2, <1>1, <1>3 DEF serverVars
            <6>2. \E u \in Under(c)' : u.frame = g
              BY <6>1, <3>1 DEF Complete
            <6> QED
              BY <6>2, <1>5
          <5> QED
            BY <5>1, <5>2
        <4>3. \A u \in Under(c) : u.frame \in Nat /\ (u.frame = d.frame => u = d)
          BY <1>2, <1>5 DEF ReplicaInv, ChannelTells
        <4>4. \A u \in Under(c) : u.frame > applied[c] <=> u.frame > d.frame \/ u = d
          BY <4>1, <4>3, <1>3
        <4> QED
          BY <2>2, <4>1, <4>2, <4>3, <4>4, <1>2, <1>5 DEF Complete, Pending
      <3>2. ASSUME Complete(c)', NEW f \in born'
            PROVE  /\ f[1] \notin omitted'[c] => Arrives(replica[c], Pending(c), f)'
                   /\ f \notin withheld'[c] /\ f \notin tracker'.changed => Current(c, f)'
        <4>1. /\ Complete(c) /\ Pending(c)' = Pending(c) \ {d}
              /\ d \in Pending(c)
              /\ \A u \in Pending(c) : u # d => u.frame > d.frame
          BY <3>1, <3>2
        <4>2. f \in born /\ f = <<f[1], f[2]>> /\ f[2] \in Components
          BY <3>2, <1>1, HeldMeans DEF ReplicaInv, FieldsBorn, serverVars
        <4>3. /\ f[1] \notin omitted[c] => Arrives(replica[c], Pending(c), f)
              /\ f \notin withheld[c] /\ f \notin tracker.changed => Current(c, f)
          BY <4>1, <4>2 DEF ReplicaInv, Follows
        <4>4. replica'[c] = Applied(replica[c], d)
          BY <2>2, <1>6
        <4>5. ASSUME f[1] \notin omitted[c]
              PROVE  Arrives(Applied(replica[c], d), Pending(c) \ {d}, f)
          BY <4>1, <4>2, <4>3, <4>5, ArrivesApplied
        <4>6. ASSUME f \notin withheld[c], f \notin tracker.changed
              PROVE  Told(Applied(replica[c], d), Pending(c) \ {d}, f, server[f[1]][f[2]])
          <5>1. f[1] \notin omitted[c]
            BY <4>2, <4>6 DEF ReplicaInv, FieldsBorn
          <5>2. Arrives(replica[c], Pending(c), f)
            BY <4>3, <5>1
          <5>3. Told(replica[c], Pending(c), f, server[f[1]][f[2]])
            BY <4>3, <4>6 DEF Current
          <5> QED
            BY <4>1, <4>2, <5>2, <5>3, ToldApplied
        <4>7. f[1] \notin omitted'[c] => Arrives(replica[c], Pending(c), f)'
          BY <4>1, <4>4, <4>5, <1>1
        <4>8. f \notin withheld'[c] /\ f \notin tracker'.changed => Current(c, f)'
          BY <4>1, <4>4, <4>6, <1>1 DEF Current, serverVars
        <4> QED
          BY <4>7, <4>8
      <3> QED
        BY <3>2 DEF Follows
    <2> QED
      BY <2>1, <2>2
  <1>11. \A o \in Clients : ChannelTells(o)' /\ Follows(o)'
    <2>1. ASSUME NEW o \in Clients, o # c
          PROVE  ChannelTells(o)' /\ Follows(o)'
      BY <2>1, <1>1, <1>5, <1>6, OthersFollow
    <2> QED
      BY <2>1, <1>5, <1>10
  <1> QED
    BY <1>1, <1>8, <1>9, <1>11, ClientSteps

\* A lost delta is missed.
LEMMA LoseKeeps ==
  ASSUME ReplicaInv, NEW c \in Clients, NEW n \in DOMAIN channel[c], Lose(c, n)
  PROVE  ReplicaInv'
  <1>1. /\ channel' = [channel EXCEPT ![c] = RemoveFrom(@, n)]
        /\ UNCHANGED serverVars /\ UNCHANGED <<replica, applied, gapped, withheld, omitted>>
    BY DEF Lose, clientVars
  <1>2. applied'[c] \in Nat /\ applied'[c] < frame
    BY <1>1 DEF ReplicaInv, ReplicaTypeOK, ChannelTells
  <1>3. /\ Listed(channel'[c]) /\ DOMAIN channel' = Clients
        /\ \A o \in Clients : o # c => channel'[o] = channel[o]
    BY <1>1, <1>2, Taken
  <1>4. ReplicaTypeOK'
    BY <1>1, <1>3 DEF ReplicaInv, ReplicaTypeOK, serverVars, Listed
  <1>5. FieldsBorn'
    BY <1>1 DEF ReplicaInv, FieldsBorn, serverVars
  <1>6. ChannelTells(c)' /\ Follows(c)'
    BY <1>1, Missed
  <1>7. ASSUME NEW o \in Clients, o # c
        PROVE  ChannelTells(o)' /\ Follows(o)'
    BY <1>1, <1>3, <1>7, OthersFollow
  <1> QED
    BY <1>1, <1>4, <1>5, <1>6, <1>7, ClientSteps

\* A snapshot of the present leaves no delta to come, and brings every field
\* it does not withhold.
LEMMA ResyncKeeps ==
  ASSUME ReplicaInv, NEW c \in Clients, Resync(c)
  PROVE  ReplicaInv'
  <1> DEFINE x == Captured(c)
             w == Restored(replica[c], x)
  <1>1. /\ replica' = [replica EXCEPT ![c] = w]
        /\ applied' = [applied EXCEPT ![c] = frame - 1]
        /\ gapped' = [gapped EXCEPT ![c] = FALSE]
        /\ withheld' = [withheld EXCEPT ![c] = {f \in Held(server) : f[1] \notin relevant[c]}]
        /\ omitted' = [omitted EXCEPT ![c] = DOMAIN server \ relevant[c]]
        /\ UNCHANGED serverVars /\ UNCHANGED <<relevant, channel>>
    BY DEF Resync
  <1>2. DOMAIN x = DOMAIN server \cap relevant[c] /\ \A e \in DOMAIN x : x[e] = server[e]
    BY DEF Captured, Restrict
  <1> HIDE DEF x
  <1>3. \A e \in DOMAIN x : e \in DOMAIN w /\ w[e] = x[e]
    BY DEF Restored
  <1> HIDE DEF w
  <1>4. /\ applied \in [Clients -> Nat] /\ gapped \in [Clients -> BOOLEAN]
        /\ DOMAIN replica = Clients /\ DOMAIN withheld = Clients /\ DOMAIN omitted = Clients
        /\ frame \in Nat \ {0}
    BY DEF ReplicaInv, ReplicaTypeOK
  <1>5. /\ replica'[c] = w /\ applied'[c] = frame - 1 /\ gapped'[c] = FALSE
        /\ withheld'[c] = {f \in Held(server) : f[1] \notin relevant[c]}
        /\ omitted'[c] = DOMAIN server \ relevant[c]
        /\ \A o \in Clients : o # c =>
             /\ replica'[o] = replica[o] /\ applied'[o] = applied[o] /\ gapped'[o] = gapped[o]
             /\ withheld'[o] = withheld[o] /\ omitted'[o] = omitted[o]
    BY <1>1, <1>4
  <1>6. ReplicaTypeOK'
    <2>1. /\ applied' \in [Clients -> Nat] /\ gapped' \in [Clients -> BOOLEAN]
          /\ DOMAIN replica' = Clients /\ DOMAIN withheld' = Clients /\ DOMAIN omitted' = Clients
      BY <1>1, <1>4
    <2> QED
      BY <2>1, <1>1 DEF ReplicaInv, ReplicaTypeOK, serverVars, Listed
  <1>7. FieldsBorn'
    <2>1. ASSUME NEW o \in Clients, NEW f \in born, f[1] \in omitted'[o]
          PROVE  f \in withheld'[o]
      <3>1. f \in Held(server)
        BY DEF ReplicaInv, FieldsBorn
      <3> QED
        BY <3>1, <2>1, <1>5 DEF ReplicaInv, FieldsBorn
    <2> QED
      BY <2>1, <1>1 DEF ReplicaInv, FieldsBorn, serverVars
  <1>8. ChannelTells(c)'
    BY <1>1, <1>4, <1>5 DEF ReplicaInv, ChannelTells, Under, serverVars
  <1>9. Pending(c)' = {}
    <2>1. \A d \in Under(c) : d.frame \in Nat /\ d.frame < frame
      BY DEF ReplicaInv, ChannelTells
    <2> QED
      BY <2>1, <1>1, <1>4, <1>5 DEF Pending, Under
  <1>10. ASSUME NEW f \in born, f[1] \in relevant[c]
         PROVE  f \in Held(w) /\ w[f[1]][f[2]] = server[f[1]][f[2]]
    <2>1. /\ f = <<f[1], f[2]>> /\ f[1] \in DOMAIN server
          /\ f[2] \in Components /\ f[2] \in DOMAIN server[f[1]] /\ f \in Held(server)
      BY HeldMeans DEF ReplicaInv, FieldsBorn
    <2>2. f[1] \in DOMAIN w /\ w[f[1]] = server[f[1]]
      BY <2>1, <1>2, <1>3, <1>10
    <2> QED
      BY <2>1, <2>2, HeldMeans
  <1>11. Follows(c)'
    <2>1. ASSUME NEW f \in born'
          PROVE  /\ f[1] \notin omitted'[c] => Arrives(replica'[c], {}, f)
                 /\ f \notin withheld'[c] => Told(replica'[c], {}, f, server'[f[1]][f[2]])
      <3>1. f \in born /\ f \in Held(server) /\ f[1] \in DOMAIN server
        BY <1>1, HeldMeans DEF ReplicaInv, FieldsBorn, serverVars
      <3>2. CASE f[1] \in relevant[c]
        BY <3>1, <3>2, <1>1, <1>5, <1>10 DEF Arrives, Told, serverVars
      <3>3. CASE f[1] \notin relevant[c]
        BY <3>1, <3>3, <1>5
      <3> QED
        BY <3>2, <3>3
    <2>2. \A f \in born' : /\ f[1] \notin omitted'[c] => Arrives(replica[c], Pending(c), f)'
                           /\ f \notin withheld'[c] => Current(c, f)'
      BY <2>1, <1>9 DEF Current
    <2> QED
      BY <2>2 DEF Follows
  <1>12. ASSUME NEW o \in Clients, o # c
         PROVE  ChannelTells(o)' /\ Follows(o)'
    BY <1>1, <1>5, <1>12, OthersFollow
  <1> QED
    BY <1>1, <1>6, <1>7, <1>8, <1>11, <1>12, ClientSteps

\* The invariant holds at the start.
LEMMA ReplicaInitially ==
  ASSUME ReplicaInit
  PROVE  ReplicaInv
  <1> USE DEF ReplicaInit
  <1>1. InTracker = {} /\ Held(server) = {} /\ tracker.spawned = <<>>
        /\ tracker.despawned = {} /\ tracker.changed = {} /\ DOMAIN server = {}
    BY DEF InTracker, Range, Held, Fields, EmptyTracker, NoEntity
  <1>2. Listed(<<>>) /\ Range(<<>>) = {}
    BY DEF Listed, Range
  <1>3. ReplicaTypeOK
    <2>1. EmptyTracker \in [spawned : Seq(AnyEntity), despawned : SUBSET AnyEntity,
                            changed : SUBSET AnyField]
      BY DEF EmptyTracker
    <2> QED
      BY <2>1, <1>1, <1>2 DEF ReplicaTypeOK
  <1>4. SlotsRight /\ TrackerTells /\ FieldsBorn
    BY <1>1 DEF SlotsRight, TrackerTells, FieldsBorn
  <1>5. ASSUME NEW c \in Clients
        PROVE  ChannelTells(c) /\ Follows(c)
    BY <1>2 DEF ChannelTells, Follows, Under
  <1> QED
    BY <1>3, <1>4, <1>5 DEF ReplicaInv

\* Every action keeps the invariant.
LEMMA ReplicaSteps ==
  ASSUME ReplicaInv, [ReplicaNext]_replicaVars
  PROVE  ReplicaInv'
  <1>1. CASE UNCHANGED replicaVars
    <2>1. /\ UNCHANGED serverVars
          /\ UNCHANGED <<replica, applied, gapped, channel, withheld, omitted>>
      BY <1>1 DEF replicaVars, clientVars
    <2>2. ReplicaTypeOK'
      BY <2>1 DEF ReplicaInv, ReplicaTypeOK, serverVars, Listed
    <2>3. FieldsBorn'
      BY <2>1 DEF ReplicaInv, FieldsBorn, serverVars
    <2>4. \A c \in Clients : ChannelTells(c)' /\ Follows(c)'
      BY <2>1, OthersFollow
    <2> QED
      BY <2>1, <2>2, <2>3, <2>4, ClientSteps
  <1>2. CASE \E i \in Indices : Spawn(i)
    BY <1>2, SpawnKeeps
  <1>3. CASE \E e \in DOMAIN server : Despawn(e)
    BY <1>3, DespawnKeeps
  <1>4. CASE \E e \in DOMAIN server, k \in Components, v \in Values : Set(e, k, v)
    BY <1>4, SetKeeps
  <1>5. CASE \E e \in DOMAIN server, k \in Components : Unset(e, k)
    BY <1>5, UnsetKeeps
  <1>6. CASE EndFrame
    BY <1>6, EndFrameKeeps
  <1>7. CASE \E c \in Clients, J \in SUBSET Indices :
               Refocus(c, {e \in AnyEntity : e.index \in J})
    BY <1>7, RefocusKeeps
  <1>8. CASE \E c \in Clients : \E n \in DOMAIN channel[c] : Deliver(c, n) \/ Lose(c, n)
    BY <1>8, DeliverKeeps, LoseKeeps
  <1>9. CASE \E c \in Clients : Resync(c)
    BY <1>9, ResyncKeeps
  <1> QED
    BY <1>1, <1>2, <1>3, <1>4, <1>5, <1>6, <1>7, <1>8, <1>9 DEF ReplicaNext

\* A client that has every delta since its baseline has the server's value of
\* every field it was not denied: through slot reuse within a frame, lost and
\* reordered deltas, filters, and snapshots taken while deltas are under way.
THEOREM ReplicaStaysCurrent == ReplicaSpec => []ReplicaCurrent
  <1>1. ReplicaInv => ReplicaCurrent
    <2> SUFFICES ASSUME ReplicaInv, NEW c \in Clients, CaughtUp(c), NEW f \in born \ withheld[c]
                 PROVE  f \in Held(replica[c]) /\ replica[c][f[1]][f[2]] = server[f[1]][f[2]]
      BY DEF ReplicaCurrent
    <2>1. applied[c] = frame - 1 /\ ~gapped[c] /\ tracker.changed = {} /\ frame \in Nat
      BY DEF CaughtUp, EmptyTracker, ReplicaInv, ReplicaTypeOK
    <2>2. \A d \in Under(c) : d.frame \in Nat /\ d.frame < frame
      BY DEF ReplicaInv, ChannelTells
    <2>3. Complete(c)
      BY <2>1 DEF Complete
    <2>4. Pending(c) = {}
      BY <2>1, <2>2 DEF Pending
    <2>5. Current(c, f)
      BY <2>1, <2>3 DEF ReplicaInv, Follows
    <2> QED
      BY <2>4, <2>5 DEF Current, Told
  <1> QED
    BY <1>1, ReplicaInitially, ReplicaSteps, PTL DEF ReplicaSpec

---------------------------------------------------------------------------
(* The asset table.                                                        *)

LoadStates == {"unresolved", "loading", "ready", "failed"}
TableEntries ==
  [state : LoadStates, version : Nat, token : Nat, payload : Payload, bytes : Nat,
   lastUsed : Nat]
LoadJobs == [asset : Assets, token : Nat, read : Payload]

\* Loads whose completion was not received.
InFlight == jobs \cup ToSet(completions)

TableTypeOK ==
  /\ names \in [Entities -> Assets \cup {Nothing}]
  /\ derived \in [Entities -> Bindings \cup {Nothing}]
  /\ DOMAIN entry \subseteq Declared /\ \A a \in DOMAIN entry : entry[a] \in TableEntries
  /\ touched \subseteq Assets /\ requested \subseteq Assets
  /\ nextToken \in Nat /\ pumps \in Nat /\ outstanding \in Int
  /\ jobs \subseteq LoadJobs /\ IsFiniteSet(jobs)
  /\ completions \in Seq(LoadJobs)
  /\ content \in [Sources -> SourceContents]

\* No two loads have the same token, and a completion says what was read.
TokensApart ==
  /\ \A j \in InFlight : j.token < nextToken
  /\ \A j, k \in InFlight : j.token = k.token => j = k
  /\ jobs \cap ToSet(completions) = {}
  /\ \A j \in ToSet(completions) : j.read # Nothing

\* A load that is wanted and has read its source read what is there, unless a
\* change of it was not announced yet.
ReadsTell ==
  \A j \in InFlight : Wanted(j) /\ j.read # Nothing =>
    j.read = content[SourceOf[j.asset]] \/ SourceOf[j.asset] \in unannounced

EntryTells(a) ==
  /\ entry[a].state = "loading" =>
       a \in Loadable /\ \E j \in InFlight : j.asset = a /\ j.token = entry[a].token
  /\ entry[a].state = "unresolved" => a \in requested
  /\ entry[a].state \in {"ready", "failed"} =>
       \/ [state |-> entry[a].state, payload |-> entry[a].payload] = Result(a)
       \/ SourceOf[a] \in unannounced

\* A component whose asset is declared is bound to it as it is, or waits for a
\* pump or for a load.
IsBound(e) ==
  /\ names[e] \in DOMAIN entry
  /\ entry[names[e]].state = "loading" \/ derived[e] = Binding(names[e], entry[names[e]])
BindingTells(e) == names[e] \in Declared => names[e] \in touched \cup requested \/ IsBound(e)

AssetTableInv ==
  /\ TableTypeOK /\ TokensApart /\ ReadsTell /\ LoadsCounted
  /\ \A a \in DOMAIN entry : EntryTells(a)
  /\ \A e \in Entities : BindingTells(e)

\* An asset is referenced when a component names it.
LEMMA RefCountMeans ==
  ASSUME AssetTableAssumption, NEW a
  PROVE  RefCount(a) \in Nat /\ (RefCount(a) = 0 <=> \A e \in Entities : names[e] # a)
  <1> DEFINE S == {e \in Entities : names[e] = a}
  <1>1. S \in SUBSET Entities /\ IsFiniteSet(Entities)
    BY DEF AssetTableAssumption
  <1>2. IsFiniteSet(S)
    BY <1>1, FS_Subset
  <1> QED
    BY <1>2, FS_CardinalityType, FS_EmptySet DEF RefCount

\* What the small steps of an entry leave.
LEMMA EndedMeans ==
  ASSUME NEW e \in TableEntries, NEW state \in LoadStates, NEW payload \in Payload, NEW bytes \in Nat
  PROVE  LET d == Ended(e, state, payload, bytes)
         IN d \in TableEntries /\ d.state = state /\ d.payload = payload /\ d.version = e.version + 1
  BY DEF Ended, TableEntries

\* A superseded entry waits for its new load.
LEMMA SupersededMeans ==
  ASSUME TableTypeOK, NEW As
  PROVE  /\ DOMAIN Superseded(As) = DOMAIN entry
         /\ \A a \in DOMAIN entry :
              /\ Superseded(As)[a] \in TableEntries
              /\ a \in As => Superseded(As)[a].state = "unresolved"
              /\ a \notin As => Superseded(As)[a] = entry[a]
  <1>1. DOMAIN Superseded(As) = DOMAIN entry
    BY DEF Superseded
  <1>2. ASSUME NEW a \in DOMAIN entry
        PROVE  /\ Superseded(As)[a] \in TableEntries
               /\ a \in As => Superseded(As)[a].state = "unresolved"
               /\ a \notin As => Superseded(As)[a] = entry[a]
    <2> DEFINE e == entry[a]
               token == e.token + 1
    <2>1. e \in TableEntries /\ token \in Nat
      BY DEF TableTypeOK, TableEntries
    <2>2. Superseded(As)[a] = IF a \in As THEN [e EXCEPT !.token = token, !.state = "unresolved"] ELSE e
      BY DEF Superseded
    <2> HIDE DEF e, token
    <2>3. /\ [e EXCEPT !.token = token, !.state = "unresolved"] \in TableEntries
          /\ [e EXCEPT !.token = token, !.state = "unresolved"].state = "unresolved"
      BY <2>1 DEF TableEntries, LoadStates
    <2> QED
      BY <2>1, <2>2, <2>3 DEF e
  <1> QED
    BY <1>1, <1>2

\* Writes leave the table as it is; a reference that is gained is touched.
LEMMA WritesKeep ==
  ASSUME AssetTableInv, UNCHANGED <<entry, loadVars, sourceVars>>,
         names' \in [Entities -> Assets \cup {Nothing}],
         derived' \in [Entities -> Bindings \cup {Nothing}],
         touched \subseteq touched' /\ touched' \subseteq Assets,
         \A e \in Entities : \/ names'[e] = names[e] /\ derived'[e] = derived[e]
                             \/ names'[e] \in Declared => names'[e] \in touched'
  PROVE  AssetTableInv'
  <1> USE DEF loadVars, sourceVars
  <1>1. TableTypeOK'
    BY DEF AssetTableInv, TableTypeOK
  <1>2. TokensApart' /\ ReadsTell' /\ LoadsCounted'
    BY DEF AssetTableInv, TokensApart, ReadsTell, LoadsCounted, InFlight, Wanted
  <1>3. ASSUME NEW a \in DOMAIN entry'
        PROVE  EntryTells(a)'
    <2>1. EntryTells(a)
      BY DEF AssetTableInv
    <2> QED
      BY <2>1 DEF EntryTells, InFlight, Result
  <1>4. ASSUME NEW e \in Entities
        PROVE  BindingTells(e)'
    <2>1. BindingTells(e)
      BY DEF AssetTableInv
    <2> QED
      BY <2>1 DEF BindingTells, IsBound, Binding
  <1> QED
    BY <1>1, <1>2, <1>3, <1>4 DEF AssetTableInv

\* A component that names another asset marks it touched for the next pump; one
\* that goes leaves nothing to bind.
LEMMA AssetWrites ==
  ASSUME AssetTableAssumption, AssetTableInv, NEW e \in Entities, NEW a \in Assets,
         Replace(e, a) \/ Retarget(e, a) \/ RemoveComponent(e)
  PROVE  AssetTableInv'
  <1>1. /\ names \in [Entities -> Assets \cup {Nothing}]
        /\ derived \in [Entities -> Bindings \cup {Nothing}] /\ touched \subseteq Assets
        /\ Nothing \notin Assets /\ Declared \subseteq Assets
    BY DEF AssetTableInv, TableTypeOK, AssetTableAssumption
  <1>2. UNCHANGED <<entry, loadVars, sourceVars>>
    BY DEF Replace, Retarget, RemoveComponent
  <1>3. /\ names' \in [Entities -> Assets \cup {Nothing}]
        /\ derived' \in [Entities -> Bindings \cup {Nothing}]
        /\ touched \subseteq touched' /\ touched' \subseteq Assets
        /\ \A f \in Entities : \/ names'[f] = names[f] /\ derived'[f] = derived[f]
                               \/ names'[f] \in Declared => names'[f] \in touched'
    <2>1. CASE Replace(e, a)
      BY <2>1, <1>1 DEF Replace
    <2>2. CASE Retarget(e, a)
      BY <2>2, <1>1 DEF Retarget
    <2>3. CASE RemoveComponent(e)
      BY <2>3, <1>1 DEF RemoveComponent
    <2> QED
      BY <2>1, <2>2, <2>3
  <1> QED
    BY <1>2, <1>3, WritesKeep
\* A worker reads the source as it is now.
LEMMA WorkerReadsKeeps ==
  ASSUME AssetTableAssumption, AssetTableInv, NEW j, WorkerReads(j)
  PROVE  AssetTableInv'
  <1> DEFINE read == content[SourceOf[j.asset]]
             k == [j EXCEPT !.read = read]
  <1>1. /\ j \in jobs /\ j.read = Nothing /\ jobs' = (jobs \ {j}) \cup {k}
        /\ UNCHANGED <<names, derived, touched, entry, requested, outstanding, nextToken, pumps,
                       completions, content, unannounced>>
    BY DEF WorkerReads, sourceVars
  <1>2. j \in LoadJobs /\ read \in SourceContents /\ read # Nothing
    BY <1>1 DEF AssetTableInv, TableTypeOK, LoadJobs, AssetTableAssumption
  <1>3. k \in LoadJobs /\ k.asset = j.asset /\ k.token = j.token /\ k.read = read
    BY <1>2 DEF LoadJobs, Payload
  <1> HIDE DEF k
  <1>4. j \in InFlight /\ j \notin ToSet(completions)
    BY <1>1 DEF InFlight, AssetTableInv, TokensApart
  <1>5. /\ \A x \in InFlight' : x = k \/ (x \in InFlight /\ x # j)
        /\ \A x \in InFlight : x # j => x \in InFlight'
        /\ k \in InFlight'
    <2>1. InFlight' = ((jobs \ {j}) \cup {k}) \cup ToSet(completions)
      BY <1>1 DEF InFlight
    <2>2. InFlight = jobs \cup ToSet(completions)
      BY DEF InFlight
    <2> QED
      BY <2>1, <2>2, <1>4
  <1>6. \A x \in InFlight : x.token = j.token => x = j
    BY <1>4 DEF AssetTableInv, TokensApart
  <1>7. IsFiniteSet(jobs') /\ Cardinality(jobs') = Cardinality(jobs)
    <2>1. IsFiniteSet(jobs) /\ Cardinality(jobs) \in Nat
      BY FS_CardinalityType DEF AssetTableInv, TableTypeOK
    <2>2. IsFiniteSet(jobs \ {j}) /\ Cardinality(jobs \ {j}) = Cardinality(jobs) - 1
      BY <2>1, <1>1, FS_RemoveElement
    <2>3. k \notin jobs \ {j}
      BY <1>3, <1>6 DEF InFlight
    <2>4. /\ IsFiniteSet((jobs \ {j}) \cup {k})
          /\ Cardinality((jobs \ {j}) \cup {k}) = Cardinality(jobs \ {j}) + 1
      BY <2>2, <2>3, FS_AddElement
    <2> QED
      BY <2>1, <2>2, <2>4, <1>1
  <1>8. TableTypeOK'
    BY <1>1, <1>3, <1>7 DEF AssetTableInv, TableTypeOK
  <1>9. TokensApart'
    <2>1. \A x \in InFlight' : x.token < nextToken
      BY <1>3, <1>4, <1>5 DEF AssetTableInv, TokensApart
    <2>2. \A x, y \in InFlight' : x.token = y.token => x = y
      BY <1>3, <1>5, <1>6 DEF AssetTableInv, TokensApart
    <2>3. jobs' \cap ToSet(completions') = {}
      <3>1. k \notin ToSet(completions)
        BY <1>3, <1>4, <1>6 DEF InFlight
      <3> QED
        BY <3>1, <1>1 DEF AssetTableInv, TokensApart
    <2> QED
      BY <2>1, <2>2, <2>3, <1>1 DEF AssetTableInv, TokensApart
  <1>10. ReadsTell'
    BY <1>1, <1>3, <1>5 DEF AssetTableInv, ReadsTell, Wanted
  <1>11. LoadsCounted'
    BY <1>1, <1>7 DEF AssetTableInv, LoadsCounted
  <1>12. ASSUME NEW a \in DOMAIN entry'
         PROVE  EntryTells(a)'
    <2>1. EntryTells(a)
      BY <1>1 DEF AssetTableInv
    <2> QED
      BY <2>1, <1>1, <1>3, <1>5 DEF EntryTells, Result
  <1>13. \A e \in Entities : BindingTells(e)'
    BY <1>1 DEF AssetTableInv, BindingTells, IsBound, Binding
  <1> QED
    BY <1>8, <1>9, <1>10, <1>11, <1>12, <1>13 DEF AssetTableInv

\* A completion is in flight as its job was.
LEMMA WorkerSendsKeeps ==
  ASSUME AssetTableInv, NEW j, WorkerSends(j)
  PROVE  AssetTableInv'
  <1>1. /\ j \in jobs /\ j.read # Nothing /\ jobs' = jobs \ {j}
        /\ completions' = Append(completions, j)
        /\ UNCHANGED <<names, derived, touched, entry, requested, outstanding, nextToken, pumps,
                       content, unannounced>>
    BY DEF WorkerSends, sourceVars
  <1>2. j \in LoadJobs /\ completions \in Seq(LoadJobs) /\ j \notin ToSet(completions)
    BY <1>1 DEF AssetTableInv, TableTypeOK, TokensApart
  <1>3. /\ completions' \in Seq(LoadJobs) /\ Len(completions') = Len(completions) + 1
        /\ Len(completions) \in Nat
        /\ ToSet(completions') = ToSet(completions) \cup {j}
    BY <1>1, <1>2, PushDistinct
  <1>4. InFlight' = InFlight
    BY <1>1, <1>3 DEF InFlight
  <1>5. IsFiniteSet(jobs') /\ Cardinality(jobs') = Cardinality(jobs) - 1 /\ Cardinality(jobs) \in Nat
    BY <1>1, FS_RemoveElement, FS_CardinalityType DEF AssetTableInv, TableTypeOK
  <1>6. TableTypeOK'
    BY <1>1, <1>3, <1>5 DEF AssetTableInv, TableTypeOK
  <1>7. TokensApart'
    BY <1>1, <1>3, <1>4 DEF AssetTableInv, TokensApart
  <1>8. ReadsTell'
    BY <1>1, <1>4 DEF AssetTableInv, ReadsTell, Wanted
  <1>9. LoadsCounted'
    BY <1>1, <1>3, <1>5 DEF AssetTableInv, LoadsCounted
  <1>10. ASSUME NEW a \in DOMAIN entry'
         PROVE  EntryTells(a)'
    <2>1. EntryTells(a)
      BY <1>1 DEF AssetTableInv
    <2> QED
      BY <2>1, <1>1, <1>4 DEF EntryTells, Result
  <1>11. \A e \in Entities : BindingTells(e)'
    BY <1>1 DEF AssetTableInv, BindingTells, IsBound, Binding
  <1> QED
    BY <1>6, <1>7, <1>8, <1>9, <1>10, <1>11 DEF AssetTableInv

\* A changed source is to be announced.
LEMMA EditSourceKeeps ==
  ASSUME AssetTableAssumption, AssetTableInv, NEW s \in Sources, NEW c \in SourceContents,
         EditSource(s, c)
  PROVE  AssetTableInv'
  <1>1. /\ content' = [content EXCEPT ![s] = c] /\ unannounced' = unannounced \cup {s}
        /\ UNCHANGED <<names, derived, touched, entry, requested, outstanding, nextToken, pumps,
                       jobs, completions>>
    BY DEF EditSource, loadVars
  <1>2. content' \in [Sources -> SourceContents] /\ \A r \in Sources : r # s => content'[r] = content[r]
    BY <1>1 DEF AssetTableInv, TableTypeOK
  <1>3. InFlight' = InFlight
    BY <1>1 DEF InFlight
  <1>4. TableTypeOK' /\ TokensApart' /\ LoadsCounted'
    BY <1>1, <1>2, <1>3 DEF AssetTableInv, TableTypeOK, TokensApart, LoadsCounted
  <1>5. ReadsTell'
    <2> SUFFICES ASSUME NEW j \in InFlight, Wanted(j), j.read # Nothing, SourceOf[j.asset] # s
                 PROVE  j.read = content'[SourceOf[j.asset]] \/ SourceOf[j.asset] \in unannounced'
      BY <1>1, <1>3 DEF ReadsTell, Wanted
    <2>1. SourceOf[j.asset] \in Sources
      BY DEF AssetTableInv, TableTypeOK, Wanted, AssetTableAssumption
    <2> QED
      BY <2>1, <1>1, <1>2 DEF AssetTableInv, ReadsTell
  <1>6. ASSUME NEW a \in DOMAIN entry'
        PROVE  EntryTells(a)'
    <2>1. EntryTells(a) /\ SourceOf[a] \in Sources
      BY <1>1 DEF AssetTableInv, TableTypeOK, AssetTableAssumption
    <2>2. CASE SourceOf[a] = s
      BY <2>1, <2>2, <1>1, <1>3 DEF EntryTells
    <2>3. CASE SourceOf[a] # s
      BY <2>1, <2>3, <1>1, <1>2, <1>3 DEF EntryTells, Result
    <2> QED
      BY <2>2, <2>3
  <1>7. \A e \in Entities : BindingTells(e)'
    BY <1>1 DEF AssetTableInv, BindingTells, IsBound, Binding
  <1> QED
    BY <1>4, <1>5, <1>6, <1>7 DEF AssetTableInv

\* Superseded entries are requested, and sources may stop to be unannounced
\* when the entries from them are superseded.
LEMMA SupersedingKeeps ==
  ASSUME AssetTableInv, NEW As, NEW Bs \in SUBSET Assets, As \cap DOMAIN entry \subseteq Bs,
         entry' = Superseded(As), requested' = requested \cup Bs,
         \A a \in DOMAIN entry : SourceOf[a] \in unannounced \ unannounced' => a \in As,
         UNCHANGED <<names, derived, touched, outstanding, nextToken, pumps, jobs, completions,
                     content>>
  PROVE  AssetTableInv'
  <1>1. /\ DOMAIN entry' = DOMAIN entry
        /\ \A a \in DOMAIN entry :
             /\ entry'[a] \in TableEntries
             /\ a \in As => entry'[a].state = "unresolved"
             /\ a \notin As => entry'[a] = entry[a]
    BY SupersededMeans DEF AssetTableInv
  <1>2. InFlight' = InFlight
    BY DEF InFlight
  <1>3. TableTypeOK' /\ TokensApart' /\ LoadsCounted'
    BY <1>1, <1>2 DEF AssetTableInv, TableTypeOK, TokensApart, LoadsCounted
  <1>4. ReadsTell'
    <2> SUFFICES ASSUME NEW j \in InFlight, Wanted(j)', j.read # Nothing
                 PROVE  j.read = content[SourceOf[j.asset]] \/ SourceOf[j.asset] \in unannounced'
      BY <1>2 DEF ReadsTell
    <2>1. j.asset \notin As /\ j.asset \in DOMAIN entry /\ Wanted(j)
      BY <1>1 DEF Wanted
    <2> QED
      BY <2>1 DEF AssetTableInv, ReadsTell
  <1>5. ASSUME NEW a \in DOMAIN entry'
        PROVE  EntryTells(a)'
    <2>1. EntryTells(a) /\ a \in DOMAIN entry
      BY <1>1 DEF AssetTableInv
    <2>2. CASE a \in As
      BY <2>1, <2>2, <1>1 DEF EntryTells
    <2>3. CASE a \notin As
      BY <2>1, <2>3, <1>1, <1>2 DEF EntryTells, Result
    <2> QED
      BY <2>2, <2>3
  <1>6. ASSUME NEW e \in Entities
        PROVE  BindingTells(e)'
    <2>1. BindingTells(e)
      BY DEF AssetTableInv
    <2> QED
      BY <2>1, <1>1 DEF BindingTells, IsBound, Binding
  <1> QED
    BY <1>3, <1>4, <1>5, <1>6 DEF AssetTableInv

\* reload_asset supersedes one asset.
LEMMA ReloadKeeps ==
  ASSUME AssetTableInv, NEW a \in Assets, Reload(a)
  PROVE  AssetTableInv'
  <1>1. /\ entry' = Superseded({a}) /\ requested' = requested \cup {a}
        /\ UNCHANGED <<names, derived, touched, outstanding, nextToken, pumps, jobs, completions,
                       content, unannounced>>
    BY DEF Reload, sourceVars
  <1> QED
    BY <1>1, SupersedingKeeps

\* asset_source_changed supersedes every asset of the source, which is no longer
\* unannounced.
LEMMA SourceChangedKeeps ==
  ASSUME AssetTableAssumption, AssetTableInv, NEW s \in Sources, SourceChanged(s)
  PROVE  AssetTableInv'
  <1> DEFINE hit == {a \in DOMAIN entry : SourceOf[a] = s}
  <1>1. /\ entry' = Superseded(hit) /\ requested' = requested \cup hit
        /\ unannounced' = unannounced \ {s}
        /\ UNCHANGED <<names, derived, touched, outstanding, nextToken, pumps, jobs, completions,
                       content>>
    BY DEF SourceChanged
  <1>2. hit \in SUBSET Assets
    BY DEF AssetTableInv, TableTypeOK, AssetTableAssumption
  <1>3. \A a \in DOMAIN entry : SourceOf[a] \in unannounced \ unannounced' => a \in hit
    BY <1>1
  <1> QED
    BY <1>1, <1>2, <1>3, SupersedingKeeps

\* Entries that nobody names and that wait for no load may go.
LEMMA EvictionKeeps ==
  ASSUME AssetTableAssumption, AssetTableInv, EvictUnreferenced
  PROVE  AssetTableInv'
  <1> DEFINE E == {a \in DOMAIN entry : entry[a].state # "loading" /\ RefCount(a) = 0}
  <1>1. /\ entry' = [a \in DOMAIN entry \ E |-> entry[a]]
        /\ UNCHANGED <<names, derived, touched, outstanding, nextToken, pumps, jobs, completions,
                       requested, content, unannounced>>
    BY DEF EvictUnreferenced, Kept, loadVars, sourceVars
  <1>2. /\ DOMAIN entry' = DOMAIN entry \ E /\ \A a \in DOMAIN entry' : entry'[a] = entry[a]
        /\ InFlight' = InFlight
    BY <1>1 DEF InFlight
  <1>3. \A e \in Entities : names[e] \notin E
    BY RefCountMeans
  <1> HIDE DEF E
  <1>4. TableTypeOK' /\ TokensApart' /\ LoadsCounted' /\ ReadsTell'
    BY <1>1, <1>2 DEF AssetTableInv, TableTypeOK, TokensApart, LoadsCounted, ReadsTell, Wanted
  <1>5. \A a \in DOMAIN entry' : EntryTells(a)'
    BY <1>1, <1>2 DEF AssetTableInv, EntryTells, Result
  <1>6. \A e \in Entities : BindingTells(e)'
    BY <1>1, <1>2, <1>3 DEF AssetTableInv, BindingTells, IsBound, Binding
  <1> QED
    BY <1>4, <1>5, <1>6 DEF AssetTableInv
\* A pump ends the loads whose completion is wanted with what was read, and
\* leaves the other entries; what still loads then has a job.
LEMMA AfterCompletionsMeans ==
  ASSUME AssetTableAssumption, AssetTableInv, NEW a \in DOMAIN entry
  PROVE  LET e == AfterCompletions[a]
         IN /\ e \in TableEntries
            /\ a \notin Finished => e = entry[a]
            /\ a \in Finished =>
                 /\ e.state \in {"ready", "failed"}
                 /\ \/ [state |-> e.state, payload |-> e.payload] = Result(a)
                    \/ SourceOf[a] \in unannounced
            /\ e.state = "loading" =>
                 a \in Loadable /\ \E j \in jobs : j.asset = a /\ j.token = e.token
  <1> DEFINE e == AfterCompletions[a]
  <1>1. entry[a] \in TableEntries /\ EntryTells(a) /\ a \in Assets
    BY DEF AssetTableInv, TableTypeOK, AssetTableAssumption
  <1>2. CASE a \notin Finished
    <2>1. e = entry[a]
      BY <1>2 DEF AfterCompletions
    <2>2. ASSUME e.state = "loading"
          PROVE  a \in Loadable /\ \E j \in jobs : j.asset = a /\ j.token = e.token
      <3>1. PICK j \in InFlight : j.asset = a /\ j.token = entry[a].token
        BY <1>1, <2>1, <2>2 DEF EntryTells
      <3>2. j \notin ToSet(completions)
        BY <1>2, <2>1, <2>2, <3>1 DEF Finished, WantedFor, Wanted
      <3> QED
        BY <1>1, <2>1, <2>2, <3>1, <3>2 DEF EntryTells, InFlight
    <2> HIDE DEF e
    <2> QED
      BY <1>1, <1>2, <2>1, <2>2 DEF e
  <1>3. CASE a \in Finished
    <2> DEFINE c == CHOOSE c \in WantedFor(a) : TRUE
    <2>1. c \in WantedFor(a)
      BY <1>3 DEF Finished
    <2>2. e = Completed(a, c.read)
      BY <1>3 DEF AfterCompletions
    <2> HIDE DEF c, e
    <2>3. c \in ToSet(completions) /\ c.asset = a /\ Wanted(c) /\ c \in InFlight
      BY <2>1 DEF WantedFor, InFlight
    <2>4. c \in LoadJobs /\ c.read # Nothing
      BY <2>3 DEF AssetTableInv, TableTypeOK, TokensApart, ToSet
    <2>5. c.read \in SourceContents
      BY <2>4 DEF LoadJobs, Payload
    <2>6. c.read = content[SourceOf[a]] \/ SourceOf[a] \in unannounced
      BY <2>3, <2>4 DEF AssetTableInv, ReadsTell
    <2>7. a \in Loadable
      BY <1>1, <2>3 DEF EntryTells, Wanted
    <2>8. /\ SizeOf[a] \in Nat /\ 0 \in Nat /\ Nothing \in Payload /\ c.read \in Payload
          /\ "failed" \in LoadStates /\ "ready" \in LoadStates
      BY <1>1, <2>5 DEF AssetTableAssumption, Payload, LoadStates
    <2>9. CASE c.read = Corrupt
      <3>1. e = Ended(entry[a], "failed", Nothing, 0)
        BY <2>2, <2>9 DEF Completed
      <3>2. e \in TableEntries /\ e.state = "failed" /\ e.payload = Nothing
        BY <1>1, <2>8, <3>1, EndedMeans
      <3> QED
        BY <1>3, <2>6, <2>9, <3>2 DEF Result, e
    <2>10. CASE c.read # Corrupt
      <3>1. e = Ended(entry[a], "ready", c.read, SizeOf[a])
        BY <2>2, <2>10 DEF Completed
      <3>2. e \in TableEntries /\ e.state = "ready" /\ e.payload = c.read
        BY <1>1, <2>8, <3>1, EndedMeans
      <3> QED
        BY <1>3, <2>6, <2>7, <2>10, <3>2 DEF Result, e
    <2> QED
      BY <2>9, <2>10
  <1> QED
    BY <1>2, <1>3

\* A started load has its token; without a loader it has failed on the spot.
LEMMA StartedMeans ==
  ASSUME NEW ent, \A a \in DOMAIN ent : ent[a] \in TableEntries,
         NEW S, NEW token, \A a \in S : token[a] \in Nat, NEW a \in DOMAIN ent \cup S
  PROVE  LET e == Started(ent, S, token)[a]
         IN /\ e \in TableEntries
            /\ a \notin S => e = ent[a]
            /\ a \in S /\ a \in Loadable => e.state = "loading" /\ e.token = token[a]
            /\ a \in S /\ a \notin Loadable => e.state = "failed" /\ e.payload = Nothing
  <1> DEFINE e == Started(ent, S, token)[a]
             d == IF a \in DOMAIN ent THEN [ent[a] EXCEPT !.token = token[a]] ELSE NewEntry(token[a])
  <1>1. e = IF a \notin S THEN ent[a] ELSE StartedOne(d, a)
    BY DEF Started
  <1>2. CASE a \notin S
    BY <1>1, <1>2
  <1>3. CASE a \in S
    <2>1. d \in TableEntries /\ d.token = token[a]
      <3>1. CASE a \in DOMAIN ent
        BY <1>3, <3>1 DEF TableEntries
      <3>2. CASE a \notin DOMAIN ent
        BY <1>3, <3>2 DEF TableEntries, NewEntry, LoadStates, Payload
      <3> QED
        BY <3>1, <3>2
    <2> HIDE DEF d
    <2>2. CASE a \in Loadable
      <3>1. e = [d EXCEPT !.state = "loading"]
        BY <1>1, <1>3, <2>2 DEF StartedOne
      <3> HIDE DEF e
      <3>2. e \in TableEntries /\ e.state = "loading" /\ e.token = token[a]
        BY <2>1, <3>1 DEF TableEntries, LoadStates
      <3> QED
        BY <1>3, <2>2, <3>2 DEF e
    <2>3. CASE a \notin Loadable
      <3>1. e = Ended(d, "failed", Nothing, d.bytes)
        BY <1>1, <1>3, <2>3 DEF StartedOne
      <3>2. d.bytes \in Nat /\ Nothing \in Payload /\ "failed" \in LoadStates
        BY <2>1 DEF TableEntries, Payload, LoadStates
      <3> HIDE DEF e
      <3>3. e \in TableEntries /\ e.state = "failed" /\ e.payload = Nothing
        BY <2>1, <3>1, <3>2, EndedMeans
      <3> QED
        BY <1>3, <2>3, <3>3 DEF e
    <2> QED
      BY <2>2, <2>3
  <1> QED
    BY <1>2, <1>3

\* What an entry's last use is does not change what it says.
LEMMA AgedMeans ==
  ASSUME TableTypeOK, NEW ent, NEW a \in DOMAIN ent, ent[a] \in TableEntries
  PROVE  LET e == Aged(ent)[a]
         IN /\ e \in TableEntries /\ e.state = ent[a].state /\ e.token = ent[a].token
            /\ e.payload = ent[a].payload /\ e.version = ent[a].version
  <1> DEFINE d == ent[a]
             now == pumps + 1
             e == Aged(ent)[a]
  <1>1. e = IF RefCount(a) > 0 THEN [d EXCEPT !.lastUsed = now] ELSE d
    BY DEF Aged
  <1>2. now \in Nat /\ d \in TableEntries
    BY DEF TableTypeOK
  <1> HIDE DEF d, now, e
  <1>3. /\ e \in TableEntries /\ e.state = d.state /\ e.token = d.token
        /\ e.payload = d.payload /\ e.version = d.version
    BY <1>1, <1>2 DEF TableEntries
  <1> QED
    BY <1>3 DEF d, e
\* The components bound are those that name one of the assets.
LEMMA BoundMeans ==
  ASSUME NEW ent, NEW As, NEW e \in Entities
  PROVE  /\ names[e] \in As /\ names[e] \in DOMAIN ent => Bound(ent, As)[e] = Binding(names[e], ent[names[e]])
         /\ \/ Bound(ent, As)[e] = derived[e]
            \/ /\ names[e] \in As /\ names[e] \in DOMAIN ent
               /\ Bound(ent, As)[e] = Binding(names[e], ent[names[e]])
  BY DEF Bound

\* New jobs are as many as the assets they load.
LEMMA NewJobs ==
  ASSUME NEW S, IsFiniteSet(S), NEW token
  PROVE  LET T == {[asset |-> a, token |-> token[a], read |-> Nothing] : a \in S}
         IN IsFiniteSet(T) /\ Cardinality(T) = Cardinality(S)
  <1> DEFINE T == {[asset |-> a, token |-> token[a], read |-> Nothing] : a \in S}
             f == [a \in S |-> [asset |-> a, token |-> token[a], read |-> Nothing]]
  <1>1. f \in Bijection(S, T)
    <2>1. f \in [S -> T] /\ \A t \in T : \E a \in S : f[a] = t
      OBVIOUS
    <2>2. \A a, b \in S : f[a] = f[b] => a = b
      OBVIOUS
    <2> QED
      BY <2>1, <2>2 DEF Bijection, Injection, Surjection, IsInjective
  <1>2. ExistsBijection(S, T)
    BY <1>1 DEF ExistsBijection
  <1> QED
    BY <1>2, FS_Bijection

\* pump_assets takes in the completions, starts what is requested or unresolved
\* and binds what was touched, finished or failed to start.
LEMMA PumpKeeps ==
  ASSUME AssetTableAssumption, AssetTableInv, Pump
  PROVE  AssetTableInv'
  <1> DEFINE after == AfterCompletions
             starting == (requested \cup Unresolved(after)) \cap Declared
             n == Cardinality(starting)
             loading == starting \cap Loadable
             bound == Finished \cup Resolved(after) \cup (starting \ Loadable)
  <1>1. starting \subseteq Declared /\ starting \subseteq Assets /\ IsFiniteSet(starting) /\ n \in Nat
    <2>1. starting \in SUBSET Assets /\ IsFiniteSet(Assets)
      BY DEF AssetTableAssumption
    <2> HIDE DEF after
    <2>2. IsFiniteSet(starting)
      BY <2>1, FS_Subset
    <2> QED
      BY <2>1, <2>2, FS_CardinalityType
  <1>2. PICK token \in Enumerations(starting) :
          LET started == Started(after, starting, token)
              aged == Aged(started)
          IN /\ derived' = Bound(started, bound)
             /\ \E E \in SUBSET Cached(aged) : Evictable(aged, E) /\ entry' = Kept(aged, E)
             /\ jobs' = jobs \cup {[asset |-> a, token |-> token[a], read |-> Nothing] : a \in loading}
             /\ outstanding' = outstanding - Len(completions) + Cardinality(loading)
             /\ nextToken' = nextToken + n
    BY DEF Pump
  <1> DEFINE started == Started(after, starting, token)
             aged == Aged(started)
             new == {[asset |-> a, token |-> token[a], read |-> Nothing] : a \in loading}
  <1>3. PICK E \in SUBSET Cached(aged) : entry' = Kept(aged, E)
    BY <1>2
  <1>4. /\ derived' = Bound(started, bound) /\ jobs' = jobs \cup new
        /\ outstanding' = outstanding - Len(completions) + Cardinality(loading)
        /\ nextToken' = nextToken + n
    BY <1>2
  <1>5. /\ completions' = <<>> /\ touched' = {} /\ requested' = {} /\ pumps' = pumps + 1
        /\ UNCHANGED <<names, content, unannounced>>
    BY DEF Pump, sourceVars
  <1>6. token \in [starting -> nextToken .. (nextToken + n - 1)] /\ nextToken \in Nat
        /\ \A a, b \in starting : token[a] = token[b] => a = b
    BY DEF Enumerations, IsInjective, AssetTableInv, TableTypeOK
  <1>7. \A a \in starting : token[a] \in Nat /\ nextToken <= token[a] /\ token[a] < nextToken + n
    <2> HIDE DEF starting, n
    <2> QED
      BY <1>1, <1>6
  <1>8. DOMAIN after = DOMAIN entry /\ DOMAIN started = DOMAIN entry \cup starting
        /\ DOMAIN aged = DOMAIN entry \cup starting
    BY DEF AfterCompletions, Started, Aged
  <1>9. \A a \in DOMAIN after : after[a] \in TableEntries
    BY <1>8, AfterCompletionsMeans
  <1>10. ASSUME NEW a \in DOMAIN started
         PROVE  /\ aged[a] \in TableEntries /\ aged[a].state = started[a].state
                /\ aged[a].token = started[a].token /\ Binding(a, aged[a]) = Binding(a, started[a])
                /\ started[a] \in TableEntries
                /\ a \notin starting => started[a] = after[a]
                /\ a \in loading => started[a].state = "loading" /\ started[a].token = token[a]
                /\ a \in starting \ Loadable => started[a].state = "failed" /\ started[a].payload = Nothing
    <2>1. /\ started[a] \in TableEntries
          /\ a \notin starting => started[a] = after[a]
          /\ a \in starting /\ a \in Loadable => started[a].state = "loading" /\ started[a].token = token[a]
          /\ a \in starting /\ a \notin Loadable => started[a].state = "failed" /\ started[a].payload = Nothing
      <3>1. a \in DOMAIN after \cup starting
        BY <1>8, <1>10
      <3> HIDE DEF after, starting
      <3> QED
        BY <3>1, <1>7, <1>9, StartedMeans
    <2> HIDE DEF started
    <2>2. /\ aged[a] \in TableEntries /\ aged[a].state = started[a].state
          /\ aged[a].token = started[a].token
          /\ aged[a].payload = started[a].payload /\ aged[a].version = started[a].version
      BY <1>10, <2>1, AgedMeans DEF AssetTableInv
    <2> QED
      BY <2>1, <2>2 DEF Binding
  <1> HIDE DEF started, aged
  <1>11. /\ DOMAIN entry' = DOMAIN started \ E /\ \A a \in DOMAIN entry' : entry'[a] = aged[a]
         /\ \A a \in E : aged[a].state # "loading" /\ RefCount(a) = 0
    BY <1>3, <1>8 DEF Kept, Cached
  <1>12. new \subseteq LoadJobs /\ IsFiniteSet(new) /\ Cardinality(new) = Cardinality(loading)
         /\ \A j \in new : j.asset \in loading /\ j.token = token[j.asset] /\ j.read = Nothing
    <2>1. IsFiniteSet(loading)
      BY <1>1, FS_Intersection
    <2>2. IsFiniteSet(new) /\ Cardinality(new) = Cardinality(loading)
      BY <2>1, NewJobs
    <2>3. \A a \in loading : token[a] \in Nat /\ a \in Assets
      BY <1>1, <1>7
    <2> HIDE DEF loading
    <2>4. new \subseteq LoadJobs
      BY <2>3 DEF LoadJobs, Payload
    <2>5. \A j \in new : j.asset \in loading /\ j.token = token[j.asset] /\ j.read = Nothing
      OBVIOUS
    <2> QED
      BY <2>2, <2>4, <2>5
  <1>13. InFlight' = jobs \cup new /\ ToSet(completions') = {}
    BY <1>4, <1>5 DEF InFlight, ToSet
  <1>14. \A a \in loading : \E j \in new : j.asset = a /\ j.token = token[a]
    <2> HIDE DEF loading
    <2> TAKE a \in loading
    <2> DEFINE j == [asset |-> a, token |-> token[a], read |-> Nothing]
    <2>1. j \in new /\ j.asset = a /\ j.token = token[a]
      OBVIOUS
    <2> QED
      BY <2>1
  <1> HIDE DEF new
  <1>15. \A j \in jobs : j.token < nextToken /\ j.token \in Nat /\ j \in InFlight
    BY DEF InFlight, AssetTableInv, TokensApart, TableTypeOK, LoadJobs
  <1>16. \A j \in new : j.token \in Nat /\ nextToken <= j.token /\ j.token < nextToken + n
    BY <1>7, <1>12
  <1>17. TokensApart'
    <2>1. \A j, k \in InFlight' : j.token = k.token => j = k
      <3>1. \A j, k \in jobs : j.token = k.token => j = k
        BY <1>15 DEF AssetTableInv, TokensApart
      <3>2. \A j, k \in new : j.token = k.token => j = k
        BY <1>6, <1>12 DEF LoadJobs
      <3>3. \A j \in jobs, k \in new : j.token # k.token
        BY <1>6, <1>15, <1>16
      <3> QED
        BY <3>1, <3>2, <3>3, <1>13
    <2>2. \A j \in InFlight' : j.token < nextToken'
      <3> HIDE DEF n
      <3>1. \A j \in new : j.token < nextToken'
        BY <1>4, <1>16
      <3>2. \A j \in jobs : j.token < nextToken'
        BY <1>1, <1>4, <1>6, <1>15
      <3> QED
        BY <3>1, <3>2, <1>13
    <2> QED
      BY <2>1, <2>2, <1>13 DEF TokensApart
  <1>18. LoadsCounted' /\ IsFiniteSet(jobs')
    <2>1. IsFiniteSet(jobs) /\ jobs \cap new = {}
      <3>1. \A j \in jobs : j \notin new
        BY <1>6, <1>15, <1>16
      <3>2. IsFiniteSet(jobs)
        BY DEF AssetTableInv, TableTypeOK
      <3> QED
        BY <3>1, <3>2
    <2>2. /\ IsFiniteSet(jobs \cup new)
          /\ Cardinality(jobs \cup new) = Cardinality(jobs) + Cardinality(new) - Cardinality(jobs \cap new)
      BY <2>1, <1>12, FS_Union
    <2>3. Cardinality(jobs) \in Nat /\ Cardinality(new) \in Nat /\ Cardinality(jobs \cap new) = 0
      BY <2>1, <1>12, FS_CardinalityType, FS_EmptySet
    <2>4. Len(completions) \in Nat /\ Len(completions') = 0
      BY <1>5, LenProperties DEF AssetTableInv, TableTypeOK
    <2>5. outstanding = Cardinality(jobs) + Len(completions)
      BY DEF AssetTableInv, LoadsCounted
    <2> HIDE DEF loading
    <2> QED
      BY <2>2, <2>3, <2>4, <2>5, <1>4, <1>12 DEF LoadsCounted
  <1>19. derived' \in [Entities -> Bindings \cup {Nothing}]
    <2>1. ASSUME NEW a \in DOMAIN started
          PROVE  Binding(a, started[a]) \in Bindings
      <3>1. started[a] \in TableEntries /\ a \in Assets
        BY <1>1, <1>8, <1>10, <2>1 DEF AssetTableInv, TableTypeOK, AssetTableAssumption
      <3> QED
        BY <3>1 DEF Binding, Bindings, TableEntries, LoadStates
    <2> HIDE DEF bound
    <2> QED
      BY <2>1, <1>4 DEF Bound, AssetTableInv, TableTypeOK
  <1>20. TableTypeOK'
    <2>1. DOMAIN entry' \subseteq Declared /\ \A a \in DOMAIN entry' : entry'[a] \in TableEntries
      BY <1>1, <1>8, <1>10, <1>11 DEF AssetTableInv, TableTypeOK
    <2>2. outstanding' \in Int
      BY <1>4, <1>12, FS_CardinalityType, LenProperties DEF AssetTableInv, TableTypeOK
    <2>3. nextToken' \in Nat /\ pumps' \in Nat
      BY <1>1, <1>4, <1>5, <1>6 DEF AssetTableInv, TableTypeOK
    <2>4. jobs' \subseteq LoadJobs /\ completions' \in Seq(LoadJobs)
      BY <1>4, <1>5, <1>12 DEF AssetTableInv, TableTypeOK
    <2> QED
      BY <2>1, <2>2, <2>3, <2>4, <1>5, <1>18, <1>19 DEF AssetTableInv, TableTypeOK
  <1>21. ReadsTell'
    <2> SUFFICES ASSUME NEW j \in InFlight', Wanted(j)', j.read # Nothing
                 PROVE  j.read = content[SourceOf[j.asset]] \/ SourceOf[j.asset] \in unannounced
      BY <1>5 DEF ReadsTell
    <2> DEFINE a == j.asset
    <2>1. j \in jobs
      BY <1>12, <1>13
    <2>2. /\ a \in DOMAIN started /\ aged[a].token = j.token /\ aged[a].state = "loading"
          /\ started[a].token = j.token /\ started[a].state = "loading"
      BY <1>10, <1>11 DEF Wanted
    <2>3. a \notin starting
      <3>1. a \notin loading
        BY <2>1, <2>2, <1>6, <1>7, <1>10, <1>15
      <3> QED
        BY <3>1, <2>2, <1>10
    <2>4. a \in DOMAIN entry /\ after[a].token = j.token /\ after[a].state = "loading"
      BY <2>2, <2>3, <1>8, <1>10
    <2>5. a \notin Finished /\ after[a] = entry[a]
      BY <2>4, AfterCompletionsMeans
    <2> QED
      BY <2>1, <2>4, <2>5, <1>15 DEF AssetTableInv, ReadsTell, Wanted
  <1>22. ASSUME NEW a \in DOMAIN entry'
         PROVE  EntryTells(a)'
    <2>1. a \in DOMAIN started /\ entry'[a] = aged[a] /\ aged[a].state = started[a].state
          /\ aged[a].token = started[a].token /\ aged[a].payload = started[a].payload
      BY <1>10, <1>11, <1>22 DEF Binding
    <2>2. Result(a)' = Result(a)
      BY <1>5 DEF Result
    <2>3. CASE a \in loading
      BY <2>1, <2>3, <1>10, <1>13, <1>14 DEF EntryTells
    <2>4. CASE a \in starting \ Loadable
      BY <2>1, <2>2, <2>4, <1>10 DEF EntryTells, Result
    <2>5. CASE a \notin starting
      <3>1. a \in DOMAIN entry /\ started[a] = after[a] /\ EntryTells(a)
        BY <2>1, <2>5, <1>8, <1>10 DEF AssetTableInv
      <3>2. /\ a \notin Finished => after[a] = entry[a]
            /\ a \in Finished =>
                 /\ after[a].state \in {"ready", "failed"}
                 /\ \/ [state |-> after[a].state, payload |-> after[a].payload] = Result(a)
                    \/ SourceOf[a] \in unannounced
            /\ after[a].state = "loading" =>
                 a \in Loadable /\ \E j \in jobs : j.asset = a /\ j.token = after[a].token
        BY <3>1, AfterCompletionsMeans
      <3>3. a \in Declared
        BY <3>1 DEF AssetTableInv, TableTypeOK
      <3>4. after[a].state # "unresolved"
        <4> SUFFICES ASSUME after[a].state = "unresolved" PROVE FALSE
          OBVIOUS
        <4>1. entry[a].state = "unresolved"
          BY <3>2
        <4>2. a \in requested
          BY <3>1, <4>1 DEF EntryTells
        <4> QED
          BY <4>2, <3>3, <2>5
      <3>5. after[a].state = "loading" =>
              a \in Loadable /\ \E j \in InFlight' : j.asset = a /\ j.token = after[a].token
        BY <3>2, <1>13
      <3>6. after[a].state \in {"ready", "failed"} =>
              \/ [state |-> after[a].state, payload |-> after[a].payload] = Result(a)
              \/ SourceOf[a] \in unannounced
        BY <3>1, <3>2 DEF EntryTells
      <3> HIDE DEF after
      <3> QED
        BY <2>1, <2>2, <3>1, <3>4, <3>5, <3>6, <1>5 DEF EntryTells
    <2> QED
      BY <2>3, <2>4, <2>5
  <1>23. ASSUME NEW e \in Entities
         PROVE  BindingTells(e)'
    <2> DEFINE a == names[e]
    <2> SUFFICES ASSUME a \in Declared
                 PROVE  IsBound(e)'
      BY <1>5 DEF BindingTells
    <2>1. RefCount(a) \in Nat /\ RefCount(a) # 0
      BY RefCountMeans
    <2>2. a \in DOMAIN started => a \in DOMAIN entry' /\ entry'[a] = aged[a]
      BY <2>1, <1>11
    <2>3. /\ a \in bound /\ a \in DOMAIN started => derived'[e] = Binding(a, started[a])
          /\ derived'[e] = derived[e] \/ derived'[e] = Binding(a, started[a])
      <3> HIDE DEF bound
      <3> QED
        BY <1>4, BoundMeans
    <2>4. CASE a \in loading
      <3>1. a \in DOMAIN started /\ aged[a].state = "loading"
        BY <2>4, <1>8, <1>10
      <3> QED
        BY <2>2, <3>1, <1>5 DEF IsBound
    <2>5. CASE a \in DOMAIN started /\ (a \in bound \/ derived'[e] = Binding(a, started[a]))
      <3>1. derived'[e] = Binding(a, aged[a])
        BY <2>3, <2>5, <1>10
      <3>2. (Binding(names[e], entry[names[e]]))' = Binding(a, aged[a])
        BY <2>2, <2>5, <1>5 DEF Binding
      <3> QED
        BY <2>2, <2>5, <3>1, <3>2, <1>5 DEF IsBound
    <2>6. CASE a \notin starting
      <3>1. a \notin requested /\ BindingTells(e)
        BY <2>6 DEF AssetTableInv
      <3>2. a \in touched => a \in DOMAIN after /\ after[a].state # "unresolved"
        <4> SUFFICES ASSUME a \in touched
                     PROVE  a \in DOMAIN after /\ after[a].state # "unresolved"
          OBVIOUS
        <4>1. a \in NewlyNamed
          BY <2>1 DEF NewlyNamed
        <4>2. a \notin Unresolved(after)
          BY <2>6
        <4> HIDE DEF after
        <4> QED
          BY <4>1, <4>2 DEF Unresolved
      <3>3. a \in DOMAIN entry
        BY <3>1, <3>2, <1>8 DEF BindingTells, IsBound
      <3>4. /\ a \in DOMAIN started /\ started[a] = after[a] /\ after[a] \in TableEntries
            /\ aged[a].state = after[a].state
        BY <2>6, <3>3, <1>8, <1>9, <1>10
      <3>5. CASE after[a].state = "loading"
        <4> HIDE DEF after
        <4> QED
          BY <2>2, <3>4, <3>5, <1>5 DEF IsBound
      <3>6. CASE after[a].state # "loading" /\ a \in touched
        <4>1. after[a].state \in {"ready", "failed"}
          BY <3>2, <3>4, <3>6 DEF TableEntries, LoadStates
        <4>2. a \in NewlyNamed
          BY <2>1, <3>6 DEF NewlyNamed
        <4>3. a \in Resolved(after)
          <5> HIDE DEF after
          <5> QED
            BY <4>1, <4>2, <3>3, <1>8 DEF Resolved
        <4> QED
          BY <4>3, <3>4, <2>5
      <3>7. CASE after[a].state # "loading" /\ a \notin touched /\ a \in Finished
        BY <3>4, <3>7, <2>5
      <3>8. CASE after[a].state # "loading" /\ a \notin touched /\ a \notin Finished
        <4>1. after[a] = entry[a]
          BY <3>3, <3>8, AfterCompletionsMeans
        <4>2. derived[e] = Binding(a, entry[a])
          BY <3>1, <3>8, <4>1 DEF BindingTells, IsBound
        <4>3. derived'[e] = Binding(a, started[a])
          BY <2>3, <3>4, <4>1, <4>2
        <4> QED
          BY <4>3, <3>4, <2>5
      <3> QED
        BY <3>5, <3>6, <3>7, <3>8
    <2>7. CASE a \in starting \ Loadable
      BY <2>5, <2>7, <1>8
    <2> QED
      BY <2>4, <2>6, <2>7
  <1> QED
    BY <1>17, <1>18, <1>20, <1>21, <1>22, <1>23 DEF AssetTableInv
\* The table starts empty.
LEMMA AssetTableInitially ==
  ASSUME AssetTableAssumption, AssetTableInit
  PROVE  AssetTableInv
  <1>1. /\ names = [e \in Entities |-> Nothing] /\ derived = [e \in Entities |-> Nothing]
        /\ touched = {} /\ DOMAIN entry = {} /\ requested = {} /\ outstanding = 0 /\ nextToken = 0
        /\ pumps = 0 /\ jobs = {} /\ completions = <<>>
        /\ content \in [Sources -> SourceContents]
    BY DEF AssetTableInit
  <1>2. InFlight = {} /\ ToSet(completions) = {} /\ Len(completions) = 0
    BY <1>1 DEF InFlight, ToSet
  <1>3. IsFiniteSet(jobs) /\ Cardinality(jobs) = 0
    BY <1>1, FS_EmptySet
  <1>4. TableTypeOK
    BY <1>1, <1>3 DEF TableTypeOK
  <1>5. TokensApart /\ ReadsTell /\ LoadsCounted
    BY <1>1, <1>2, <1>3 DEF TokensApart, ReadsTell, LoadsCounted
  <1>6. \A e \in Entities : BindingTells(e)
    BY <1>1 DEF BindingTells, AssetTableAssumption
  <1> QED
    BY <1>1, <1>4, <1>5, <1>6 DEF AssetTableInv

\* Every step of the table, its workers and its sources keeps the invariant.
LEMMA AssetTableSteps ==
  ASSUME AssetTableAssumption, AssetTableInv, AssetTableNext
  PROVE  AssetTableInv'
  <1>1. CASE \E e \in Entities, a \in Assets : Replace(e, a) \/ Retarget(e, a)
    BY <1>1, AssetWrites
  <1>2. ASSUME NEW e \in Entities, RemoveComponent(e)
        PROVE  AssetTableInv'
    <2>1. /\ names' = [names EXCEPT ![e] = Nothing] /\ derived' = [derived EXCEPT ![e] = Nothing]
          /\ touched' = touched /\ UNCHANGED <<entry, loadVars, sourceVars>>
      BY <1>2 DEF RemoveComponent
    <2>2. Nothing \notin Declared
      BY DEF AssetTableAssumption
    <2> QED
      BY <2>1, <2>2, WritesKeep DEF AssetTableInv, TableTypeOK
  <1>3. CASE \E j \in jobs : WorkerReads(j) \/ WorkerSends(j)
    BY <1>3, WorkerReadsKeeps, WorkerSendsKeeps
  <1>4. CASE \E s \in Sources, c \in SourceContents : EditSource(s, c)
    BY <1>4, EditSourceKeeps
  <1>5. CASE \E a \in Assets : Reload(a)
    BY <1>5, ReloadKeeps
  <1>6. CASE \E s \in Sources : SourceChanged(s)
    BY <1>6, SourceChangedKeeps
  <1>7. CASE Pump \/ EvictUnreferenced
    BY <1>7, PumpKeeps, EvictionKeeps
  <1>8. CASE \E b \in Budgets : SetBudget(b)
    <2>1. UNCHANGED <<names, derived, touched, entry, requested, outstanding, nextToken, pumps,
                      jobs, completions, content, unannounced>>
      BY <1>8 DEF SetBudget, sourceVars
    <2> QED
      BY <2>1 DEF AssetTableInv, TableTypeOK, TokensApart, ReadsTell, LoadsCounted, EntryTells,
                  BindingTells, IsBound, Binding, Wanted, Result, InFlight
  <1> QED
    BY <1>1, <1>2, <1>3, <1>4, <1>5, <1>6, <1>7, <1>8 DEF AssetTableNext

\* Nothing pending and nothing unannounced leaves a binding no way to be stale.
LEMMA QuietIsBound ==
  ASSUME AssetTableAssumption, AssetTableInv
  PROVE  BoundWhenQuiet
  <1> SUFFICES ASSUME ~WorkPending, unannounced = {}, NEW e \in Entities, names[e] \in Declared
               PROVE  LET d == derived[e]
                      IN /\ d # Nothing /\ d.asset = names[e]
                         /\ [state |-> d.state, payload |-> d.payload] = Result(names[e])
                         /\ names[e] \in DOMAIN entry /\ entry[names[e]].version = d.version
    BY DEF BoundWhenQuiet
  <1> DEFINE a == names[e]
  <1>1. requested = {} /\ touched = {} /\ ~(outstanding > 0)
    BY DEF WorkPending
  <1>2. InFlight = {}
    <2>1. /\ outstanding = Cardinality(jobs) + Len(completions) /\ Cardinality(jobs) \in Nat
          /\ Len(completions) \in Nat /\ DOMAIN completions = 1 .. Len(completions)
      BY FS_CardinalityType, LenProperties DEF AssetTableInv, LoadsCounted, TableTypeOK
    <2>2. Cardinality(jobs) = 0 /\ Len(completions) = 0
      BY <2>1, <1>1
    <2>3. jobs = {} /\ ToSet(completions) = {}
      BY <2>1, <2>2, FS_EmptySet DEF AssetTableInv, TableTypeOK, ToSet
    <2> QED
      BY <2>3 DEF InFlight
  <1>3. IsBound(e) /\ a \in DOMAIN entry /\ EntryTells(a) /\ entry[a] \in TableEntries
    BY <1>1 DEF AssetTableInv, BindingTells, IsBound, TableTypeOK
  <1>4. entry[a].state \in {"ready", "failed"}
    BY <1>1, <1>2, <1>3 DEF EntryTells, TableEntries, LoadStates
  <1>5. derived[e] = Binding(a, entry[a])
    BY <1>3, <1>4 DEF IsBound
  <1>6. [state |-> entry[a].state, payload |-> entry[a].payload] = Result(a)
    BY <1>3, <1>4 DEF EntryTells
  <1>7. Binding(a, entry[a]) \in Bindings
    BY <1>3 DEF Binding, Bindings, TableEntries, LoadStates, AssetTableInv, TableTypeOK, AssetTableAssumption
  <1>8. derived[e] # Nothing
    BY <1>5, <1>7 DEF AssetTableAssumption
  <1> QED
    BY <1>3, <1>5, <1>6, <1>8 DEF Binding

---------------------------------------------------------------------------
(* The disk cache of derived data.                                         *)

DerivedKeys == Settings \X Nat
DerivedCalls ==
  [step : {"lookup", "build", "write", "rename"}, settings : Settings, stamp : Nat,
   payload : (Originals \X Settings) \cup {NoCall}, meanwhile : SUBSET Originals]
DerivedAnswers ==
  [payload : Originals \X Settings, settings : Settings, contents : SUBSET Originals]

DerivedTypeOK ==
  /\ original \in [content : Originals, stamp : Nat]
  /\ call \in [Callers -> DerivedCalls \cup {NoCall}]
  /\ answer \in [Callers -> DerivedAnswers \cup {NoCall}]
  /\ recency \in Seq(DerivedKeys)

Calling == {c \in Callers : call[c] # NoCall}

\* A payload that serves whoever asks under this key: a build of a content that
\* every request under it saw, the latest one if the source is still as stamped.
Serves(k, payload) ==
  \E o \in Originals :
    /\ payload = Build(o, k[1])
    /\ k[2] = original.stamp => o = original.content
    /\ \A c \in Calling : KeyOf(c) = k => o \in Meanwhile(c)

CallTells(c) ==
  /\ KeyOf(c)[2] <= original.stamp /\ original.content \in Meanwhile(c)
  /\ call[c].step \in {"write", "rename"} => Serves(KeyOf(c), call[c].payload)

AnswerTells(a) ==
  a # NoCall => \E o \in a.contents : a.payload = Build(o, a.settings)

DerivedInv ==
  /\ DerivedTypeOK
  /\ \A c \in Calling : CallTells(c)
  /\ \A k \in DOMAIN file : k \in DerivedKeys /\ k[2] <= original.stamp /\ Serves(k, file[k])
  /\ ToSet(recency) = DOMAIN file
  /\ \A c \in Callers : AnswerTells(answer[c])

\* A call in progress has the fields of one.
LEMMA CallTyped ==
  ASSUME DerivedTypeOK, NEW c \in Calling
  PROVE  /\ call[c] \in DerivedCalls
         /\ KeyOf(c) \in DerivedKeys /\ KeyOf(c) = <<call[c].settings, call[c].stamp>>
         /\ Meanwhile(c) \in SUBSET Originals
  <1>1. call[c] \in DerivedCalls
    BY DEF DerivedTypeOK, Calling
  <1> QED
    BY <1>1 DEF DerivedCalls, DerivedKeys, KeyOf, Key, Meanwhile

\* What served is served still if every call under its key knew its content.
LEMMA ServesStill ==
  ASSUME NEW k, NEW payload, Serves(k, payload), UNCHANGED original,
         \A c \in Calling' : KeyOf(c)' = k =>
           \/ c \in Calling /\ KeyOf(c) = k /\ Meanwhile(c) \subseteq Meanwhile(c)'
           \/ k[2] = original.stamp /\ original.content \in Meanwhile(c)'
  PROVE  Serves(k, payload)'
  <1>1. PICK o \in Originals :
          /\ payload = Build(o, k[1])
          /\ k[2] = original.stamp => o = original.content
          /\ \A c \in Calling : KeyOf(c) = k => o \in Meanwhile(c)
    BY DEF Serves
  <1>2. \A c \in Calling' : KeyOf(c)' = k => o \in Meanwhile(c)'
    BY <1>1
  <1> QED
    BY <1>1, <1>2 DEF Serves, Build
\* A step that leaves the source and the files alone keeps the invariant if
\* every call under way does what calls may do and every answer is right.
LEMMA CallsKeep ==
  ASSUME DerivedInv, DerivedTypeOK', UNCHANGED <<original, file, recency>>,
         \A d \in Calling' :
           /\ \/ d \in Calling /\ KeyOf(d)' = KeyOf(d) /\ Meanwhile(d)' = Meanwhile(d)
              \/ KeyOf(d)'[2] = original.stamp /\ original.content \in Meanwhile(d)'
           /\ call'[d].step \in {"write", "rename"} =>
                \/ d \in Calling /\ KeyOf(d)' = KeyOf(d) /\ call'[d].payload = call[d].payload
                     /\ call[d].step \in {"write", "rename"}
                \/ Serves(KeyOf(d), call[d].payload)',
         \A d \in Callers : AnswerTells(answer'[d])
  PROVE  DerivedInv'
  <1>1. ASSUME NEW k, NEW p, Serves(k, p)
        PROVE  Serves(k, p)'
    BY <1>1, ServesStill
  <1>2. ASSUME NEW d \in Calling'
        PROVE  CallTells(d)'
    <2>1. KeyOf(d)'[2] <= original'.stamp /\ original'.content \in Meanwhile(d)'
      BY <1>2 DEF DerivedInv, CallTells, DerivedTypeOK
    <2>2. ASSUME call'[d].step \in {"write", "rename"}
          PROVE  Serves(KeyOf(d), call[d].payload)'
      <3>1. CASE /\ d \in Calling /\ KeyOf(d)' = KeyOf(d) /\ call'[d].payload = call[d].payload
                 /\ call[d].step \in {"write", "rename"}
        <4>1. Serves(KeyOf(d), call[d].payload)
          BY <3>1 DEF DerivedInv, CallTells
        <4> QED
          BY <3>1, <4>1, <1>1
      <3> QED
        BY <2>2, <3>1
    <2> QED
      BY <2>1, <2>2 DEF CallTells
  <1>3. \A k \in DOMAIN file' : k \in DerivedKeys /\ k[2] <= original'.stamp /\ Serves(k, file[k])'
    BY <1>1 DEF DerivedInv
  <1>4. \A d \in Callers : AnswerTells(answer'[d])
    OBVIOUS
  <1> QED
    BY <1>2, <1>3, <1>4 DEF DerivedInv, AnswerTells

\* A request starts with the stamp and the content the source has.
LEMMA StatKeeps ==
  ASSUME DerivedInv, NEW c \in Callers, NEW settings \in Settings, Stat(c, settings)
  PROVE  DerivedInv'
  <1> DEFINE started == [step |-> "lookup", settings |-> settings, stamp |-> original.stamp,
                         payload |-> NoCall, meanwhile |-> {original.content}]
  <1>1. /\ call' = [call EXCEPT ![c] = started] /\ answer' = [answer EXCEPT ![c] = NoCall]
        /\ UNCHANGED <<original, file, recency>>
    BY DEF Stat
  <1>2. started \in DerivedCalls
    BY DEF DerivedCalls, DerivedInv, DerivedTypeOK
  <1>3. DerivedTypeOK'
    BY <1>1, <1>2 DEF DerivedInv, DerivedTypeOK
  <1>4. /\ call'[c].step = "lookup" /\ KeyOf(c)' = <<settings, original.stamp>>
        /\ Meanwhile(c)' = {original.content}
        /\ \A d \in Callers : d # c => call'[d] = call[d]
    BY <1>1 DEF KeyOf, Key, Meanwhile, DerivedInv, DerivedTypeOK
  <1>5. \A d \in Callers : AnswerTells(answer'[d])
    BY <1>1 DEF DerivedInv, DerivedTypeOK, AnswerTells
  <1>6. ASSUME NEW d \in Calling', d # c
        PROVE  /\ d \in Calling /\ KeyOf(d)' = KeyOf(d) /\ Meanwhile(d)' = Meanwhile(d)
               /\ call'[d] = call[d]
    BY <1>4, <1>6 DEF KeyOf, Key, Meanwhile, Calling
  <1>7. ASSUME NEW d \in Calling'
        PROVE  /\ \/ d \in Calling /\ KeyOf(d)' = KeyOf(d) /\ Meanwhile(d)' = Meanwhile(d)
                  \/ KeyOf(d)'[2] = original.stamp /\ original.content \in Meanwhile(d)'
               /\ call'[d].step \in {"write", "rename"} =>
                    /\ d \in Calling /\ KeyOf(d)' = KeyOf(d) /\ call'[d].payload = call[d].payload
                    /\ call[d].step \in {"write", "rename"}
    <2>1. CASE d = c
      BY <2>1, <1>4
    <2>2. CASE d # c
      BY <2>2, <1>6
    <2> QED
      BY <2>1, <2>2
  <1> QED
    BY <1>1, <1>3, <1>5, <1>7, CallsKeep

\* A call that ends without an answer leaves the others as they were.
LEMMA CallEnds ==
  ASSUME DerivedInv, NEW c \in Callers, call' = [call EXCEPT ![c] = NoCall],
         UNCHANGED <<original, file, recency>>,
         answer' \in [Callers -> DerivedAnswers \cup {NoCall}],
         \A d \in Callers : AnswerTells(answer'[d])
  PROVE  DerivedInv'
  <1>1. DerivedTypeOK'
    BY DEF DerivedInv, DerivedTypeOK
  <1>2. ASSUME NEW d \in Calling'
        PROVE  /\ d \in Calling /\ KeyOf(d)' = KeyOf(d) /\ Meanwhile(d)' = Meanwhile(d)
               /\ call'[d] = call[d]
    <2>1. d \in Callers /\ d # c
      BY DEF Calling, DerivedInv, DerivedTypeOK
    <2>2. call'[d] = call[d]
      BY <2>1 DEF DerivedInv, DerivedTypeOK
    <2> QED
      BY <2>1, <2>2 DEF Calling, KeyOf, Key, Meanwhile
  <1> QED
    BY <1>1, <1>2, CallsKeep

\* A call that only goes on to its next step keeps it.
LEMMA MissKeeps ==
  ASSUME DerivedInv, NEW c \in Callers, NEW step \in {"lookup", "build", "write", "rename"},
         call[c] # NoCall, Goto(c, step), UNCHANGED <<original, answer, file, recency>>,
         step \in {"write", "rename"} => call[c].step \in {"write", "rename"}
  PROVE  DerivedInv'
  <1>1. c \in Calling
    BY DEF Calling
  <1>2. call[c] \in DerivedCalls
    BY <1>1, CallTyped DEF DerivedInv
  <1>3. /\ call'[c] \in DerivedCalls /\ call'[c].step = step
        /\ call'[c].settings = call[c].settings /\ call'[c].stamp = call[c].stamp
        /\ call'[c].payload = call[c].payload /\ call'[c].meanwhile = call[c].meanwhile
        /\ \A d \in Callers : d # c => call'[d] = call[d]
    BY <1>2 DEF Goto, DerivedInv, DerivedTypeOK, DerivedCalls
  <1>4. DerivedTypeOK'
    BY <1>3 DEF Goto, DerivedInv, DerivedTypeOK
  <1>5. ASSUME NEW d \in Calling'
        PROVE  /\ d \in Calling /\ KeyOf(d)' = KeyOf(d) /\ Meanwhile(d)' = Meanwhile(d)
               /\ call'[d].step \in {"write", "rename"} =>
                    call'[d].payload = call[d].payload /\ call[d].step \in {"write", "rename"}
    <2>1. CASE d = c
      BY <2>1, <1>1, <1>3 DEF KeyOf, Key, Meanwhile
    <2>2. CASE d # c
      BY <2>2, <1>3 DEF KeyOf, Key, Meanwhile, Calling
    <2> QED
      BY <2>1, <2>2
  <1> QED
    BY <1>4, <1>5, CallsKeep DEF DerivedInv

\* A build reads the source as it is: every call under its stamp has seen that.
LEMMA RunBuildKeeps ==
  ASSUME DerivedInv, NEW c \in Callers, RunBuild(c)
  PROVE  DerivedInv'
  <1> DEFINE payload == Build(original.content, call[c].settings)
  <1>1. c \in Calling
    BY DEF RunBuild, At, Calling
  <1>2. call[c] \in DerivedCalls
    BY <1>1, CallTyped DEF DerivedInv
  <1>3. payload \in Originals \X Settings
    BY <1>2 DEF DerivedCalls, Build, DerivedInv, DerivedTypeOK
  <1>4. /\ call' = [call EXCEPT ![c].step = "write", ![c].payload = payload]
        /\ UNCHANGED <<original, answer, file, recency>>
    BY DEF RunBuild
  <1> HIDE DEF payload
  <1>5. /\ call'[c] \in DerivedCalls /\ call'[c].step = "write"
        /\ call'[c].settings = call[c].settings /\ call'[c].stamp = call[c].stamp
        /\ call'[c].payload = payload /\ call'[c].meanwhile = call[c].meanwhile
        /\ \A d \in Callers : d # c => call'[d] = call[d]
    BY <1>2, <1>3, <1>4 DEF DerivedInv, DerivedTypeOK, DerivedCalls
  <1>6. DerivedTypeOK'
    BY <1>4, <1>5 DEF DerivedInv, DerivedTypeOK
  <1>7. ASSUME NEW d \in Calling'
        PROVE  /\ d \in Calling /\ KeyOf(d)' = KeyOf(d) /\ Meanwhile(d)' = Meanwhile(d)
               /\ d # c => call'[d] = call[d]
    <2>1. CASE d = c
      BY <2>1, <1>1, <1>5 DEF KeyOf, Key, Meanwhile
    <2>2. CASE d # c
      BY <2>2, <1>5 DEF KeyOf, Key, Meanwhile, Calling
    <2> QED
      BY <2>1, <2>2
  <1>8. Serves(KeyOf(c), call[c].payload)'
    <2>1. /\ original.content \in Originals
          /\ payload = Build(original.content, KeyOf(c)'[1])
      BY <1>5 DEF payload, DerivedInv, DerivedTypeOK, KeyOf, Key
    <2>2. \A d \in Calling' : original.content \in Meanwhile(d)'
      BY <1>7 DEF DerivedInv, CallTells
    <2> QED
      BY <2>1, <2>2, <1>4, <1>5 DEF Serves, Build
  <1> QED
    BY <1>4, <1>5, <1>6, <1>7, <1>8, CallsKeep DEF DerivedInv
\* What is answered was built, by whoever, from a content this call has seen.
LEMMA ReturnIsRight ==
  ASSUME DerivedInv, NEW c \in Calling, NEW payload, Serves(KeyOf(c), payload), Return(c, payload)
  PROVE  /\ call' = [call EXCEPT ![c] = NoCall]
         /\ answer' \in [Callers -> DerivedAnswers \cup {NoCall}]
         /\ \A d \in Callers : AnswerTells(answer'[d])
  <1> DEFINE a == [payload |-> payload, settings |-> call[c].settings, contents |-> Meanwhile(c)]
  <1>1. call' = [call EXCEPT ![c] = NoCall] /\ answer' = [answer EXCEPT ![c] = a]
    BY DEF Return
  <1>2. PICK o \in Originals : payload = Build(o, KeyOf(c)[1]) /\ o \in Meanwhile(c)
    BY DEF Serves
  <1>3. /\ call[c].settings \in Settings /\ KeyOf(c)[1] = call[c].settings
        /\ Meanwhile(c) \in SUBSET Originals
    BY CallTyped DEF DerivedInv, DerivedCalls
  <1>4. a \in DerivedAnswers /\ AnswerTells(a)
    BY <1>2, <1>3 DEF DerivedAnswers, AnswerTells, Build
  <1> HIDE DEF a
  <1>5. c \in Callers
    BY DEF Calling
  <1> QED
    BY <1>1, <1>4, <1>5 DEF DerivedInv, DerivedTypeOK

\* The keys of the files are those that recency lists.
LEMMA RecencyKeeps ==
  ASSUME DerivedInv, NEW k \in DerivedKeys
  PROVE  /\ Used(k) \in Seq(DerivedKeys) /\ ToSet(Used(k)) = DOMAIN file \cup {k}
         /\ Without(recency, k) \in Seq(DerivedKeys) /\ ToSet(Without(recency, k)) = DOMAIN file \ {k}
  <1> DEFINE w == Without(recency, k)
  <1>1. w \in Seq(DerivedKeys) /\ ToSet(w) = DOMAIN file \ {k}
    BY WithoutOthers DEF DerivedInv, DerivedTypeOK
  <1> HIDE DEF w
  <1>2. k \notin ToSet(w)
    BY <1>1
  <1>3. ToSet(Append(w, k)) = ToSet(w) \cup {k}
    BY <1>1, <1>2, PushDistinct
  <1>4. Append(w, k) \in Seq(DerivedKeys)
    BY <1>1
  <1>5. Used(k) = Append(w, k)
    BY DEF Used, w
  <1> QED
    BY <1>1, <1>3, <1>4, <1>5 DEF w

\* The files may change while the calls end or stay: every file serves its key.
LEMMA FilesKeep ==
  ASSUME DerivedInv, DerivedTypeOK', UNCHANGED original,
         \A d \in Calling' : d \in Calling /\ call'[d] = call[d],
         \A k \in DOMAIN file' : k \in DerivedKeys /\ k[2] <= original.stamp /\ Serves(k, file'[k]),
         ToSet(recency') = DOMAIN file',
         \A d \in Callers : AnswerTells(answer'[d])
  PROVE  DerivedInv'
  <1>1. \A d \in Calling' : KeyOf(d)' = KeyOf(d) /\ Meanwhile(d)' = Meanwhile(d)
    BY DEF KeyOf, Key, Meanwhile
  <1>2. ASSUME NEW k, NEW p, Serves(k, p)
        PROVE  Serves(k, p)'
    BY <1>1, <1>2, ServesStill
  <1>3. ASSUME NEW d \in Calling'
        PROVE  CallTells(d)'
    <2>1. CallTells(d) /\ call'[d] = call[d] /\ KeyOf(d)' = KeyOf(d) /\ Meanwhile(d)' = Meanwhile(d)
      BY <1>1 DEF DerivedInv
    <2> QED
      BY <2>1, <1>2 DEF CallTells
  <1>4. \A k \in DOMAIN file' : k \in DerivedKeys /\ k[2] <= original'.stamp /\ Serves(k, file[k])'
    BY <1>2
  <1>5. ToSet(recency)' = DOMAIN file'
    BY DEF ToSet
  <1>6. \A d \in Callers : AnswerTells(answer[d])'
    BY DEF AnswerTells
  <1> QED
    BY <1>3, <1>4, <1>5, <1>6 DEF DerivedInv

\* A file found under the key is an answer.
LEMMA HitKeeps ==
  ASSUME DerivedInv, NEW c \in Callers, Hit(c)
  PROVE  DerivedInv'
  <1>1. c \in Calling /\ KeyOf(c) \in DOMAIN file
    BY DEF Hit, At, Calling
  <1>2. Serves(KeyOf(c), file[KeyOf(c)]) /\ KeyOf(c) \in DerivedKeys
    BY <1>1 DEF DerivedInv
  <1>3. Return(c, file[KeyOf(c)]) /\ recency' = Used(KeyOf(c)) /\ UNCHANGED <<original, file>>
    BY DEF Hit
  <1>4. /\ call' = [call EXCEPT ![c] = NoCall]
        /\ answer' \in [Callers -> DerivedAnswers \cup {NoCall}]
        /\ \A d \in Callers : AnswerTells(answer'[d])
    BY <1>1, <1>2, <1>3, ReturnIsRight
  <1>5. recency' \in Seq(DerivedKeys) /\ ToSet(recency') = DOMAIN file'
    BY <1>1, <1>2, <1>3, RecencyKeeps
  <1>6. DerivedTypeOK'
    BY <1>3, <1>4, <1>5 DEF DerivedInv, DerivedTypeOK
  <1>7. \A d \in Calling' : d \in Calling /\ call'[d] = call[d]
    BY <1>4 DEF Calling, DerivedInv, DerivedTypeOK
  <1> QED
    BY <1>3, <1>4, <1>5, <1>6, <1>7, FilesKeep DEF DerivedInv

\* A written payload serves whoever asks under its key.
LEMMA RenameKeeps ==
  ASSUME DerivedInv, NEW c \in Callers, Rename(c)
  PROVE  DerivedInv'
  <1> DEFINE k == KeyOf(c)
             p == call[c].payload
  <1>1. c \in Calling /\ call[c].step = "rename"
    BY DEF Rename, At, Calling
  <1>2. Serves(k, p) /\ k \in DerivedKeys /\ k[2] <= original.stamp
    BY <1>1, CallTyped DEF DerivedInv, CallTells
  <1>3. /\ Return(c, p) /\ recency' = Used(k) /\ UNCHANGED original
        /\ file' = [x \in DOMAIN file \cup {k} |-> IF x = k THEN p ELSE file[x]]
    BY DEF Rename
  <1> HIDE DEF k, p
  <1>4. /\ call' = [call EXCEPT ![c] = NoCall]
        /\ answer' \in [Callers -> DerivedAnswers \cup {NoCall}]
        /\ \A d \in Callers : AnswerTells(answer'[d])
    BY <1>1, <1>2, <1>3, ReturnIsRight DEF k
  <1>5. recency' \in Seq(DerivedKeys) /\ ToSet(recency') = DOMAIN file'
    BY <1>2, <1>3, RecencyKeeps
  <1>6. DerivedTypeOK'
    BY <1>3, <1>4, <1>5 DEF DerivedInv, DerivedTypeOK
  <1>7. \A d \in Calling' : d \in Calling /\ call'[d] = call[d]
    BY <1>4 DEF Calling, DerivedInv, DerivedTypeOK
  <1>8. ASSUME NEW x \in DOMAIN file'
        PROVE  x \in DerivedKeys /\ x[2] <= original.stamp /\ Serves(x, file'[x])
    <2>1. CASE x = k
      BY <2>1, <1>2, <1>3
    <2>2. CASE x # k
      <3>1. x \in DOMAIN file /\ file'[x] = file[x]
        BY <2>2, <1>3
      <3> QED
        BY <3>1 DEF DerivedInv
    <2> QED
      BY <2>1, <2>2
  <1> QED
    BY <1>3, <1>4, <1>5, <1>6, <1>7, <1>8, FilesKeep

\* A payload that could not be written is answered all the same.
LEMMA WriteFailsKeeps ==
  ASSUME DerivedInv, NEW c \in Callers, WriteFails(c)
  PROVE  DerivedInv'
  <1>1. c \in Calling /\ call[c].step = "write"
    BY DEF WriteFails, At, Calling
  <1>2. Serves(KeyOf(c), call[c].payload)
    BY <1>1 DEF DerivedInv, CallTells
  <1>3. Return(c, call[c].payload) /\ UNCHANGED <<original, file, recency>>
    BY DEF WriteFails
  <1>4. /\ call' = [call EXCEPT ![c] = NoCall]
        /\ answer' \in [Callers -> DerivedAnswers \cup {NoCall}]
        /\ \A d \in Callers : AnswerTells(answer'[d])
    BY <1>1, <1>2, <1>3, ReturnIsRight
  <1> QED
    BY <1>3, <1>4, CallEnds

\* Files that go leave the others as they are.
LEMMA FewerFilesKeep ==
  ASSUME DerivedInv, UNCHANGED <<original, call, answer>>, recency' \in Seq(DerivedKeys),
         ToSet(recency') \subseteq DOMAIN file, file' = [k \in ToSet(recency') |-> file[k]]
  PROVE  DerivedInv'
  <1>1. DerivedTypeOK'
    BY DEF DerivedInv, DerivedTypeOK
  <1>2. \A d \in Calling' : d \in Calling /\ call'[d] = call[d]
    BY DEF Calling
  <1>3. \A k \in DOMAIN file' : k \in DerivedKeys /\ k[2] <= original.stamp /\ Serves(k, file'[k])
    BY DEF DerivedInv
  <1>4. \A d \in Callers : AnswerTells(answer'[d])
    BY DEF DerivedInv
  <1> QED
    BY <1>1, <1>2, <1>3, <1>4, FilesKeep

\* Pruning keeps the files used last.
LEMMA PruneKeeps ==
  ASSUME DerivedInv, NEW kept \in 0 .. 1, Prune(kept)
  PROVE  DerivedInv'
  <1> DEFINE n == Len(recency)
             m == n - kept + 1
             s == SubSeq(recency, m, n)
  <1>1. /\ recency' = s /\ file' = [k \in ToSet(recency') |-> file[k]]
        /\ UNCHANGED <<original, call, answer>> /\ Cardinality(DOMAIN file) > kept
    BY DEF Prune
  <1>2. recency \in Seq(DerivedKeys) /\ n \in Nat /\ DOMAIN recency = 1 .. n
    BY LenProperties DEF DerivedInv, DerivedTypeOK
  <1>3. n > 0
    <2> SUFFICES ASSUME n = 0 PROVE FALSE
      BY <1>2
    <2>1. DOMAIN file = {}
      BY <1>2 DEF DerivedInv, ToSet
    <2> QED
      BY <2>1, <1>1, FS_EmptySet
  <1>4. m \in 1 .. n + 1
    BY <1>2, <1>3
  <1>5. /\ s \in Seq(DerivedKeys) /\ DOMAIN s = 1 .. (n - m + 1)
        /\ \A i \in 1 .. (n - m + 1) : s[i] = recency[i + m - 1] /\ i + m - 1 \in 1 .. n
    BY <1>2, <1>4
  <1>6. ToSet(s) \subseteq DOMAIN file
    BY <1>2, <1>5 DEF ToSet, DerivedInv
  <1> HIDE DEF s
  <1> QED
    BY <1>1, <1>5, <1>6, FewerFilesKeep

\* Forgetting removes the file of one key.
LEMMA ForgetKeeps ==
  ASSUME DerivedInv, NEW settings \in Settings, Forget(settings)
  PROVE  DerivedInv'
  <1> DEFINE k == Key(settings, original.stamp)
             w == Without(recency, k)
  <1>1. /\ recency' = w /\ file' = [x \in DOMAIN file \ {k} |-> file[x]]
        /\ UNCHANGED <<original, call, answer>>
    BY DEF Forget
  <1>2. k \in DerivedKeys
    BY DEF Key, DerivedKeys, DerivedInv, DerivedTypeOK
  <1>3. w \in Seq(DerivedKeys) /\ ToSet(w) = DOMAIN file \ {k}
    BY <1>2, RecencyKeeps
  <1> HIDE DEF w
  <1> QED
    BY <1>1, <1>3, FewerFilesKeep

\* No file and no call has the new stamp, and every call sees the new content.
LEMMA ChangeOriginalKeeps ==
  ASSUME DerivedInv, NEW new \in Originals, ChangeOriginal(new)
  PROVE  DerivedInv'
  <1>1. /\ original' = [content |-> new, stamp |-> original.stamp + 1]
        /\ call' = [c \in Callers |-> IF call[c] = NoCall THEN NoCall
                                      ELSE [call[c] EXCEPT !.meanwhile = @ \cup {new}]]
        /\ UNCHANGED <<answer, file, recency>>
    BY DEF ChangeOriginal
  <1>2. original'.stamp = original.stamp + 1 /\ original'.content = new /\ original.stamp \in Nat
    BY <1>1 DEF DerivedInv, DerivedTypeOK
  <1>3. ASSUME NEW c \in Calling
        PROVE  /\ call'[c] \in DerivedCalls /\ call'[c].step = call[c].step
               /\ call'[c].settings = call[c].settings /\ call'[c].stamp = call[c].stamp
               /\ call'[c].payload = call[c].payload
               /\ call'[c].meanwhile = call[c].meanwhile \cup {new}
    <2>1. call[c] \in DerivedCalls
      BY CallTyped DEF DerivedInv
    <2>2. call'[c] = [call[c] EXCEPT !.meanwhile = @ \cup {new}]
      BY <1>1 DEF Calling
    <2> QED
      BY <2>1, <2>2 DEF DerivedCalls
  <1>4. ASSUME NEW c \in Callers, c \notin Calling
        PROVE  call'[c] = NoCall
    BY <1>1, <1>4 DEF Calling
  <1>5. DerivedTypeOK'
    <2>1. call' \in [Callers -> DerivedCalls \cup {NoCall}]
      BY <1>1, <1>3, <1>4
    <2> QED
      BY <2>1, <1>1 DEF DerivedInv, DerivedTypeOK
  <1>6. ASSUME NEW c \in Calling'
        PROVE  c \in Calling /\ KeyOf(c)' = KeyOf(c) /\ Meanwhile(c)' = Meanwhile(c) \cup {new}
    <2>1. c \in Calling
      BY <1>4 DEF Calling
    <2> QED
      BY <2>1, <1>3 DEF KeyOf, Key, Meanwhile
  <1>7. ASSUME NEW k \in DerivedKeys, NEW p, Serves(k, p), k[2] <= original.stamp
        PROVE  Serves(k, p)'
    <2>1. PICK o \in Originals :
            /\ p = Build(o, k[1])
            /\ \A c \in Calling : KeyOf(c) = k => o \in Meanwhile(c)
      BY <1>7 DEF Serves
    <2>2. k[2] # original'.stamp
      BY <1>2, <1>7 DEF DerivedKeys
    <2>3. \A c \in Calling' : KeyOf(c)' = k => o \in Meanwhile(c)'
      BY <2>1, <1>6
    <2> QED
      BY <2>1, <2>2, <2>3 DEF Serves, Build
  <1>8. ASSUME NEW c \in Calling'
        PROVE  CallTells(c)'
    <2>1. CallTells(c) /\ c \in Calling /\ KeyOf(c) \in DerivedKeys
      BY <1>6, CallTyped DEF DerivedInv
    <2>2. KeyOf(c)'[2] <= original'.stamp
      BY <2>1, <1>2, <1>6 DEF CallTells, DerivedKeys
    <2>3. original'.content \in Meanwhile(c)'
      BY <1>2, <1>6
    <2>4. ASSUME call'[c].step \in {"write", "rename"}
          PROVE  Serves(KeyOf(c), call[c].payload)'
      <3>1. Serves(KeyOf(c), call[c].payload) /\ KeyOf(c)[2] <= original.stamp
        BY <2>1, <2>4, <1>3 DEF CallTells
      <3>2. Serves(KeyOf(c)', call'[c].payload) /\ KeyOf(c)' \in DerivedKeys /\ KeyOf(c)'[2] <= original.stamp
        BY <2>1, <3>1, <1>3, <1>6
      <3> DEFINE k == KeyOf(c)
                 p == call[c].payload
      <3>3. \E o \in Originals :
              /\ p = Build(o, k[1])
              /\ \A d \in Calling : KeyOf(d) = k => o \in Meanwhile(d)
        BY <3>1 DEF Serves
      <3>4. KeyOf(c)' = k /\ call'[c].payload = p
        BY <2>1, <1>3, <1>6
      <3>5. k[2] # original'.stamp
        BY <2>1, <3>1, <1>2 DEF DerivedKeys
      <3> HIDE DEF k, p
      <3> QED
        BY <3>3, <3>4, <3>5, <1>6 DEF Serves, Build
    <2> QED
      BY <2>2, <2>3, <2>4 DEF CallTells
  <1>9. \A k \in DOMAIN file' : k \in DerivedKeys /\ k[2] <= original'.stamp /\ Serves(k, file[k])'
    <2>1. ASSUME NEW k \in DOMAIN file'
          PROVE  k \in DerivedKeys /\ k[2] <= original'.stamp /\ Serves(k, file[k])'
      <3>1. k \in DerivedKeys /\ k[2] <= original.stamp /\ Serves(k, file[k]) /\ file' = file
        BY <1>1 DEF DerivedInv
      <3>2. \A p : Serves(k, p) => Serves(k, p)'
        BY <3>1, <1>7
      <3> QED
        BY <3>1, <3>2, <1>2 DEF DerivedKeys
    <2> QED
      BY <2>1
  <1> QED
    BY <1>1, <1>5, <1>8, <1>9 DEF DerivedInv, AnswerTells

\* The disk cache's invariant is kept by every step.
LEMMA DerivedSteps ==
  ASSUME DerivedInv, DerivedNext
  PROVE  DerivedInv'
  <1>1. CASE \E c \in Callers, s \in Settings : Stat(c, s)
    BY <1>1, StatKeeps
  <1>2. CASE \E c \in Callers : Hit(c) \/ RunBuild(c) \/ Rename(c) \/ WriteFails(c)
    BY <1>2, HitKeeps, RunBuildKeeps, RenameKeeps, WriteFailsKeeps
  <1>3. ASSUME NEW c \in Callers, Miss(c) \/ WriteTemp(c)
        PROVE  DerivedInv'
    BY <1>3, MissKeeps DEF Miss, WriteTemp, At
  <1>4. ASSUME NEW c \in Callers, Crash(c)
        PROVE  DerivedInv'
    BY <1>4, CallEnds DEF Crash, DerivedInv, DerivedTypeOK
  <1>5. CASE \E kept \in 0 .. 1 : Prune(kept)
    BY <1>5, PruneKeeps
  <1>6. CASE \E s \in Settings : Forget(s)
    BY <1>6, ForgetKeeps
  <1>7. CASE \E new \in Originals : ChangeOriginal(new)
    BY <1>7, ChangeOriginalKeeps
  <1> QED
    BY <1>1, <1>2, <1>3, <1>4, <1>5, <1>6, <1>7 DEF DerivedNext

\* At the start there is no call, no file and no answer.
LEMMA DerivedInitially ==
  ASSUME DerivedAssumption, DerivedInit
  PROVE  DerivedInv
  <1>1. \E o : o \in Originals
    BY DEF DerivedAssumption
  <1>2. /\ original.content \in Originals /\ original = [content |-> original.content, stamp |-> 0]
        /\ call = [c \in Callers |-> NoCall] /\ answer = [c \in Callers |-> NoCall]
        /\ file = [k \in {} |-> NoCall] /\ recency = <<>>
    BY <1>1 DEF DerivedInit
  <1>3. DerivedTypeOK
    BY <1>2 DEF DerivedTypeOK
  <1>4. Calling = {} /\ DOMAIN file = {} /\ ToSet(recency) = {}
    BY <1>2 DEF Calling, ToSet
  <1> QED
    BY <1>2, <1>3, <1>4 DEF DerivedInv, AnswerTells

\* What a component names is what it is bound to, as a load of its source would
\* give it now, whenever nothing is pending; no load is lost count of; and what
\* the disk cache answers is a build of a content the source had meanwhile.
THEOREM AssetsStayResolved ==
  ASSUME AssetTableAssumption, DerivedAssumption
  PROVE  ResolutionSpec => []AssetsResolve
  <1> DEFINE Inv == AssetTableInv /\ DerivedInv
  <1>1. ResolutionInit => Inv
    BY AssetTableInitially, DerivedInitially DEF ResolutionInit
  <1>2. Inv /\ [ResolutionNext]_<<assetTableVars, derivedVars>> => Inv'
    <2> SUFFICES ASSUME Inv, [ResolutionNext]_<<assetTableVars, derivedVars>>
                 PROVE  Inv'
      OBVIOUS
    <2>1. ASSUME UNCHANGED assetTableVars PROVE AssetTableInv'
      <3>1. UNCHANGED <<names, derived, touched, entry, requested, outstanding, nextToken, pumps,
                        jobs, completions, content, unannounced>>
        BY <2>1 DEF assetTableVars
      <3> QED
        BY <3>1 DEF AssetTableInv, TableTypeOK, TokensApart, ReadsTell, LoadsCounted, EntryTells,
                    BindingTells, IsBound, Binding, Wanted, Result, InFlight
    <2>2. ASSUME UNCHANGED derivedVars PROVE DerivedInv'
      <3>1. UNCHANGED <<original, call, answer, file, recency>>
        BY <2>2 DEF derivedVars
      <3> QED
        BY <3>1 DEF DerivedInv, DerivedTypeOK, Calling, CallTells, Serves, AnswerTells, KeyOf, Key, Meanwhile, Build
    <2>3. AssetTableNext => AssetTableInv'
      BY AssetTableSteps
    <2>4. DerivedNext => DerivedInv'
      BY DerivedSteps
    <2> QED
      BY <2>1, <2>2, <2>3, <2>4 DEF ResolutionNext
  <1>3. Inv => AssetsResolve
    <2> SUFFICES ASSUME Inv
                 PROVE  AssetsResolve
      OBVIOUS
    <2>1. BoundWhenQuiet /\ LoadsCounted
      BY QuietIsBound DEF AssetTableInv
    <2>2. AnswersFresh
      BY DEF AnswersFresh, DerivedInv, AnswerTells
    <2> QED
      BY <2>1, <2>2 DEF AssetsResolve
  <1> QED
    BY <1>1, <1>2, <1>3, PTL DEF ResolutionSpec

---------------------------------------------------------------------------
(* Harvest: the queries over a cell, and what a frame makes of them.       *)

\* The numbers of a finite set, ascending.
Lists(s, M) ==
  /\ IsFiniteSet(M) /\ M \subseteq Int /\ s = [k \in 1 .. Cardinality(M) |-> s[k]]
  /\ \A k \in 1 .. Cardinality(M) : s[k] \in M
  /\ \A m \in M : \E k \in 1 .. Cardinality(M) : s[k] = m
  /\ \A j, k \in 1 .. Cardinality(M) : j < k => s[j] < s[k]

\* Packing a mask lists its lanes.
LEMMA PackedLists ==
  ASSUME NEW M \in SUBSET Int, IsFiniteSet(M)
  PROVE  Lists(Packed(M), M)
  <1> DEFINE rank(i) == Cardinality({k \in M : k <= i})
             n == Cardinality(M)
             at(j) == CHOOSE i \in M : rank(i) = j
             ranks == [i \in M |-> rank(i)]
  <1>1. n \in Nat
    BY FS_CardinalityType
  <1>2. \A i \in M : IsFiniteSet({k \in M : k <= i}) /\ rank(i) \in 1 .. n
    <2> SUFFICES ASSUME NEW i \in M
                 PROVE  IsFiniteSet({k \in M : k <= i}) /\ rank(i) \in 1 .. n
      OBVIOUS
    <2> DEFINE T == {k \in M : k <= i}
    <2>1. T \in SUBSET M /\ i \in T
      OBVIOUS
    <2> HIDE DEF T
    <2>2. IsFiniteSet(T) /\ Cardinality(T) \in Nat /\ Cardinality(T) <= n
      BY <2>1, FS_Subset, FS_CardinalityType
    <2>3. Cardinality(T) # 0
      BY <2>1, <2>2, FS_EmptySet
    <2>4. Cardinality(T) \in 1 .. n
      BY <2>2, <2>3, <1>1
    <2> QED BY <2>2, <2>4 DEF T
  <1>3. \A i, j \in M : i < j => rank(i) < rank(j)
    <2> SUFFICES ASSUME NEW i \in M, NEW j \in M, i < j PROVE rank(i) < rank(j)
      OBVIOUS
    <2> DEFINE T == {k \in M : k <= i}
               U == {k \in M : k <= j}
    <2>1. T \in SUBSET U /\ j \in U /\ j \notin T
      <3>1. i \in Int /\ j \in Int /\ \A k \in M : k \in Int
        OBVIOUS
      <3>2. \A k \in M : k <= i => k <= j
        BY <3>1
      <3>3. j \in U /\ j \notin T
        BY <3>1
      <3> QED BY <3>2, <3>3
    <2>2. IsFiniteSet(U) /\ Cardinality(T) \in 1 .. n /\ Cardinality(U) \in 1 .. n
      BY <1>2
    <2> HIDE DEF T, U
    <2>3. Cardinality(T) <= Cardinality(U) /\ Cardinality(T) # Cardinality(U)
      BY <2>1, <2>2, FS_Subset
    <2>4. Cardinality(T) < Cardinality(U)
      BY <2>2, <2>3, <1>1
    <2> QED BY <2>4 DEF T, U
  <1> HIDE DEF rank
  <1>4. \A i, j \in M : rank(i) = rank(j) => i = j
    <2> SUFFICES ASSUME NEW i \in M, NEW j \in M, rank(i) = rank(j) PROVE i = j
      OBVIOUS
    <2>1. rank(i) \in Int
      <3>1. rank(i) \in 1 .. n
        BY <1>2
      <3> HIDE DEF n
      <3> QED BY <3>1, <1>1
    <2>2. ~(rank(i) < rank(j)) /\ ~(rank(j) < rank(i))
      BY <2>1
    <2> QED BY <2>2, <1>3
  <1> HIDE DEF n
  <1>5. ranks \in Injection(M, 1 .. n)
    BY <1>2, <1>4 DEF Injection, IsInjective
  <1>6. ranks \in Surjection(M, 1 .. n)
    BY <1>1, <1>5, FS_Interval, FS_Injection DEF n
  <1>7. \A j \in 1 .. n : at(j) \in M /\ rank(at(j)) = j
    <2> TAKE j \in 1 .. n
    <2>1. \E i \in M : ranks[i] = j
      BY <1>6 DEF Surjection
    <2>2. \E i \in M : rank(i) = j
      BY <2>1
    <2> QED BY <2>2
  <1> HIDE DEF at
  <1>8. \A i \in M : rank(i) \in 1 .. n /\ at(rank(i)) = i
    BY <1>2, <1>4, <1>7
  <1>9. Packed(M) = [j \in 1 .. n |-> [lane \in M |-> lane][at(j)]]
    BY DEF Packed, Retained, at, rank, n
  <1>10. Packed(M) = [j \in 1 .. n |-> at(j)]
    BY <1>9, <1>7
  <1>11. \A j, k \in 1 .. n : j < k => at(j) < at(k)
    <2> TAKE j, k \in 1 .. n
    <2>1. at(j) \in Int /\ at(k) \in Int /\ at(j) \in M /\ at(k) \in M
      BY <1>7
    <2>2. rank(at(j)) = j /\ rank(at(k)) = k /\ j \in Int /\ k \in Int
      BY <1>7, <1>1
    <2>3. CASE at(j) = at(k)
      BY <2>2, <2>3
    <2>4. CASE at(k) < at(j)
      <3>1. k < j
        BY <2>1, <2>2, <2>4, <1>3
      <3> QED BY <3>1, <2>2
    <2> QED BY <2>1, <2>3, <2>4
  <1>12. \A m \in M : \E j \in 1 .. n : at(j) = m
    BY <1>8
  <1>13. \A j \in 1 .. n : Packed(M)[j] = at(j)
    BY <1>10
  <1>14. Packed(M) = [j \in 1 .. n |-> Packed(M)[j]]
    BY <1>10
  <1> HIDE DEF ranks
  <1>15. \A j \in 1 .. n : Packed(M)[j] \in M
    BY <1>13, <1>7
  <1>16. \A m \in M : \E j \in 1 .. n : Packed(M)[j] = m
    BY <1>12, <1>13
  <1>17. \A j, k \in 1 .. n : j < k => Packed(M)[j] < Packed(M)[k]
    BY <1>11, <1>13
  <1> QED BY <1>14, <1>15, <1>16, <1>17 DEF Lists, n

\* There is one such list.
LEMMA ListsOnce ==
  ASSUME NEW M, NEW s, NEW t, Lists(s, M), Lists(t, M)
  PROVE  s = t
  <1> DEFINE n == Cardinality(M)
             bad == {k \in 1 .. n : s[k] # t[k]}
  <1>1. n \in Nat /\ M \subseteq Int
    BY FS_CardinalityType DEF Lists
  <1>2. /\ \A k \in 1 .. n : s[k] \in M /\ t[k] \in M
        /\ \A m \in M : \E k \in 1 .. n : s[k] = m
        /\ \A m \in M : \E k \in 1 .. n : t[k] = m
        /\ \A j, k \in 1 .. n : j < k => s[j] < s[k] /\ t[j] < t[k]
        /\ s = [k \in 1 .. n |-> s[k]] /\ t = [k \in 1 .. n |-> t[k]]
    BY DEF Lists
  <1> HIDE DEF n
  <1>3. bad = {}
    <2> SUFFICES ASSUME bad # {} PROVE FALSE
      OBVIOUS
    <2>1. PICK k \in bad : \A j \in bad : k <= j
      <3>1. bad \in SUBSET Nat
        BY <1>1
      <3> HIDE DEF bad
      <3> QED BY <3>1, LeastIsIn
    <2>2. k \in 1 .. n /\ s[k] # t[k] /\ \A j \in 1 .. n : j < k => s[j] = t[j]
      BY <1>1, <2>1
    <2>3. PICK i \in 1 .. n : t[i] = s[k]
      BY <1>2, <2>2
    <2>4. PICK j \in 1 .. n : s[j] = t[k]
      BY <1>2, <2>2
    <2>5. i \in Int /\ j \in Int /\ k \in Int /\ s[k] \in Int /\ t[k] \in Int
      BY <1>1, <1>2, <2>2
    <2>6. k < i
      <3>1. CASE i < k
        <4>1. s[i] = s[k] /\ s[i] < s[k]
          BY <2>2, <2>3, <3>1, <1>2
        <4> QED BY <4>1, <2>5
      <3>2. CASE i = k
        BY <2>2, <2>3, <3>2
      <3> QED BY <2>5, <3>1, <3>2
    <2>7. k < j
      <3>1. CASE j < k
        <4>1. t[j] = t[k] /\ t[j] < t[k]
          BY <2>2, <2>4, <3>1, <1>2
        <4> QED BY <4>1, <2>5
      <3>2. CASE j = k
        BY <2>2, <2>4, <3>2
      <3> QED BY <2>5, <3>1, <3>2
    <2>8. t[k] < s[k] /\ s[k] < t[k]
      BY <2>2, <2>3, <2>4, <2>6, <2>7, <1>2
    <2> QED BY <2>8, <2>5
  <1> QED BY <1>2, <1>3

\* A list and one of greater numbers, one after the other.
LEMMA ListsJoin ==
  ASSUME NEW M, NEW N, NEW s, NEW t, Lists(s, M), Lists(t, N),
         \A m \in M : \A i \in N : m < i
  PROVE  Lists(s \o t, M \cup N)
  <1> DEFINE a == Cardinality(M)
             b == Cardinality(N)
             U == M \cup N
             st == s \o t
  <1>1. a \in Nat /\ b \in Nat /\ M \subseteq Int /\ N \subseteq Int /\ IsFiniteSet(M) /\ IsFiniteSet(N)
    BY FS_CardinalityType DEF Lists
  <1>2. M \cap N = {}
    BY <1>1
  <1>3. IsFiniteSet(U) /\ Cardinality(U) = a + b
    <2>1. IsFiniteSet(M \cap N) /\ Cardinality(M \cap N) = 0
      BY <1>2, FS_EmptySet
    <2>2. IsFiniteSet(U) /\ Cardinality(U) = a + b - Cardinality(M \cap N)
      BY <1>1, FS_Union
    <2> QED BY <2>1, <2>2, <1>1
  <1>4. /\ s = [k \in 1 .. a |-> s[k]] /\ t = [k \in 1 .. b |-> t[k]]
        /\ \A k \in 1 .. a : s[k] \in M
        /\ \A k \in 1 .. b : t[k] \in N
        /\ \A m \in M : \E k \in 1 .. a : s[k] = m
        /\ \A m \in N : \E k \in 1 .. b : t[k] = m
        /\ \A j, k \in 1 .. a : j < k => s[j] < s[k]
        /\ \A j, k \in 1 .. b : j < k => t[j] < t[k]
    BY DEF Lists
  <1> HIDE DEF a, b
  <1>5. s \in Seq(U) /\ Len(s) = a /\ t \in Seq(U) /\ Len(t) = b
    <2>1. \A k \in 1 .. a : s[k] \in U
      BY <1>4
    <2>2. \A k \in 1 .. b : t[k] \in U
      BY <1>4
    <2> HIDE DEF U
    <2>3. [k \in 1 .. a |-> s[k]] \in Seq(U)
      BY <2>1, <1>1, IsASeq
    <2>4. [k \in 1 .. b |-> t[k]] \in Seq(U)
      BY <2>2, <1>1, IsASeq
    <2>5. s \in Seq(U) /\ t \in Seq(U) /\ DOMAIN s = 1 .. a /\ DOMAIN t = 1 .. b
      BY <2>3, <2>4, <1>4
    <2> QED BY <2>5, <1>1, LenProperties
  <1>6. /\ st \in Seq(U) /\ Len(st) = a + b
        /\ \A i \in 1 .. a + b : st[i] = IF i <= a THEN s[i] ELSE t[i - a]
    <2> HIDE DEF U
    <2> QED BY <1>5, ConcatProperties
  <1>7. st = [k \in 1 .. a + b |-> st[k]]
    <2> HIDE DEF st, U
    <2> QED BY <1>6, LenProperties
  <1>8. \A i \in 1 .. a : i \in 1 .. a + b /\ st[i] = s[i]
    BY <1>1, <1>6
  <1>9. \A i \in 1 .. b : a + i \in 1 .. a + b /\ st[a + i] = t[i]
    <2> TAKE i \in 1 .. b
    <2>1. a + i \in 1 .. a + b /\ ~(a + i <= a) /\ (a + i) - a = i
      BY <1>1
    <2> QED BY <2>1, <1>6
  <1>10. \A i \in 1 .. a + b : \/ i \in 1 .. a
                               \/ i - a \in 1 .. b /\ i = a + (i - a)
    BY <1>1
  <1> HIDE DEF st
  <1>11. \A k \in 1 .. a + b : st[k] \in U
    BY <1>4, <1>8, <1>9, <1>10
  <1>12. \A m \in U : \E k \in 1 .. a + b : st[k] = m
    BY <1>4, <1>8, <1>9
  <1>13. \A j, k \in 1 .. a + b : j < k => st[j] < st[k]
    <2> SUFFICES ASSUME NEW j \in 1 .. a + b, NEW k \in 1 .. a + b, j < k
                 PROVE  st[j] < st[k]
      OBVIOUS
    <2>1. CASE j \in 1 .. a /\ k \in 1 .. a
      BY <2>1, <1>8, <1>4
    <2>2. CASE j \in 1 .. a /\ k - a \in 1 .. b /\ k = a + (k - a)
      BY <2>2, <1>8, <1>9, <1>4
    <2>3. CASE j - a \in 1 .. b /\ k - a \in 1 .. b /\ j = a + (j - a) /\ k = a + (k - a)
      <3>1. j - a < k - a
        BY <1>1
      <3>2. st[j] = t[j - a] /\ st[k] = t[k - a]
        BY <2>3, <1>9
      <3> QED BY <3>1, <3>2, <2>3, <1>4
    <2>4. ~(j - a \in 1 .. b /\ k \in 1 .. a)
      BY <1>1
    <2> QED BY <2>1, <2>2, <2>3, <2>4, <1>10
  <1>14. U \subseteq Int
    BY <1>1
  <1>15. Cardinality(U) = a + b
    BY <1>3
  <1> HIDE DEF U
  <1>16. Lists(st, U)
    BY <1>3, <1>7, <1>11, <1>12, <1>13, <1>14, <1>15 DEF Lists
  <1> QED BY <1>16 DEF U, st

\* A list moved up by d.
LEMMA ListsShift ==
  ASSUME NEW M, NEW s, Lists(s, M), NEW d \in Int, NEW N, N = {d + m : m \in M}
  PROVE  Lists([k \in 1 .. Len(s) |-> d + s[k]], N)
  <1> DEFINE n == Cardinality(M)
             t == [k \in 1 .. n |-> d + s[k]]
             f == [m \in M |-> d + m]
  <1>1. n \in Nat /\ M \subseteq Int /\ IsFiniteSet(M)
    BY FS_CardinalityType DEF Lists
  <1>2. /\ s = [k \in 1 .. n |-> s[k]]
        /\ \A k \in 1 .. n : s[k] \in M
        /\ \A m \in M : \E k \in 1 .. n : s[k] = m
        /\ \A j, k \in 1 .. n : j < k => s[j] < s[k]
    BY DEF Lists
  <1>3. Len(s) = n
    <2> HIDE DEF n
    <2>1. [k \in 1 .. n |-> s[k]] \in Seq(M)
      BY <1>1, <1>2, IsASeq
    <2> QED BY <2>1, <1>1, <1>2, LenProperties
  <1>4. IsFiniteSet(N) /\ Cardinality(N) = n
    <2>1. f \in Bijection(M, N)
      <3>1. f \in [M -> N]
        OBVIOUS
      <3>2. \A x, y \in M : f[x] = f[y] => x = y
        BY <1>1
      <3>3. \A y \in N : \E x \in M : f[x] = y
        OBVIOUS
      <3> HIDE DEF f
      <3> QED BY <3>1, <3>2, <3>3 DEF Bijection, Injection, Surjection, IsInjective
    <2> HIDE DEF f
    <2>2. IsFiniteSet(N) /\ Cardinality(N) = Cardinality(M)
      <3>1. Cardinality(M) = n
        OBVIOUS
      <3> HIDE DEF n
      <3>2. IsFiniteSet(M) /\ f \in Bijection(M, N)
        BY <2>1, <1>1
      <3>3. ExistsBijection(M, N)
        BY <2>1 DEF ExistsBijection
      <3> QED BY <3>2, <3>3, FS_Bijection
    <2> QED BY <2>2
  <1> HIDE DEF n
  <1>5. N \subseteq Int
    BY <1>1
  <1>6. \A k \in 1 .. n : t[k] \in N
    BY <1>2
  <1>7. \A i \in N : \E k \in 1 .. n : t[k] = i
    BY <1>2
  <1>8. \A j, k \in 1 .. n : j < k => t[j] < t[k]
    <2> TAKE j, k \in 1 .. n
    <2>1. s[j] \in Int /\ s[k] \in Int /\ (j < k => s[j] < s[k])
      BY <1>1, <1>2
    <2> QED BY <2>1
  <1>9. t = [k \in 1 .. n |-> t[k]]
    OBVIOUS
  <1> HIDE DEF t
  <1>10. Lists(t, N)
    BY <1>4, <1>5, <1>6, <1>7, <1>8, <1>9 DEF Lists
  <1> QED BY <1>10, <1>3 DEF t

\* Quotient and remainder.
LEMMA DivMod ==
  ASSUME NEW x \in Nat, NEW l \in Nat \ {0}
  PROVE  /\ x \div l \in Nat /\ x % l \in 0 .. l - 1 /\ x % l \in Nat
         /\ (x \div l) * l \in Nat /\ x = (x \div l) * l + (x % l)
  <1> DEFINE k == x \div l
             r == x % l
  <1>1. k \in Nat /\ r \in 0 .. l - 1 /\ x = l * k + r
    OBVIOUS
  <1>2. k * l \in Nat /\ l * k = k * l
    BY <1>1
  <1>3. r \in Nat
    BY <1>1
  <1> HIDE DEF k, r
  <1>4. x = k * l + r
    BY <1>1, <1>2
  <1> QED BY <1>1, <1>2, <1>3, <1>4 DEF k, r

\* Less in whole steps is less by a step.
LEMMA StepsApart ==
  ASSUME NEW p \in Nat, NEW q \in Nat, NEW l \in Nat \ {0}, p < q
  PROVE  p * l \in Nat /\ q * l \in Nat /\ p * l + l <= q * l
  <1> DEFINE d == q - p - 1
  <1>1. d \in Nat /\ q = p + d + 1
    OBVIOUS
  <1> HIDE DEF d
  <1>2. p * l \in Nat /\ d * l \in Nat
    BY <1>1
  <1>3. q * l = p * l + d * l + l
    BY <1>1
  <1> DEFINE a == p * l
             b == d * l
  <1> HIDE DEF a, b
  <1>4. a \in Nat /\ b \in Nat /\ q * l = a + b + l
    BY <1>2, <1>3 DEF a, b
  <1>5. q * l \in Nat /\ a + l <= q * l
    BY <1>4
  <1> QED BY <1>2, <1>5 DEF a

\* There is one quotient and remainder.
LEMMA DivModOnce ==
  ASSUME NEW x \in Nat, NEW l \in Nat \ {0}, NEW q \in Nat, NEW r \in 0 .. l - 1, x = q * l + r
  PROVE  x \div l = q /\ x % l = r
  <1> DEFINE k == x \div l
             m == x % l
  <1>1. k \in Nat /\ m \in 0 .. l - 1 /\ k * l \in Nat /\ x = k * l + m /\ m \in Nat
    BY DivMod
  <1> HIDE DEF k, m
  <1>2. q * l \in Nat /\ r \in Nat
    OBVIOUS
  <1>3. k = q
    <2>1. CASE k < q
      <3>1. k * l + l <= q * l
        BY <1>1, <2>1, StepsApart
      <3> DEFINE a == k * l
                 b == q * l
      <3>2. a \in Nat /\ b \in Nat /\ x = a + m /\ x = b + r /\ a + l <= b
        BY <1>1, <1>2, <3>1
      <3> HIDE DEF a, b
      <3> QED BY <3>2, <1>1, <1>2
    <2>2. CASE q < k
      <3>1. q * l + l <= k * l
        BY <1>1, <2>2, StepsApart
      <3> DEFINE a == k * l
                 b == q * l
      <3>2. a \in Nat /\ b \in Nat /\ x = a + m /\ x = b + r /\ b + l <= a
        BY <1>1, <1>2, <3>1
      <3> HIDE DEF a, b
      <3> QED BY <3>2, <1>1, <1>2
    <2> QED BY <2>1, <2>2, <1>1
  <1>4. m = r
    <2> DEFINE b == q * l
    <2>1. b \in Nat /\ x = b + m /\ x = b + r
      BY <1>1, <1>2, <1>3
    <2> HIDE DEF b
    <2> QED BY <2>1, <1>1, <1>2
  <1> QED BY <1>3, <1>4 DEF k, m

\* The first lists of s, joined.
Joins(f, s, n) == f[1] = s[1] /\ \A i \in 2 .. n : f[i] = f[i - 1] \o s[i]

\* What joining a list of lists means.
LEMMA FlattenIs ==
  ASSUME NEW n \in Nat \ {0}, NEW s, Len(s) = n
  PROVE  \E f : FlattenSeq(s) = f[n] /\ Joins(f, s, n)
  <1> DEFINE Is(f, m) == f = [i \in 1 .. m |-> IF i = 1 THEN s[i] ELSE f[i - 1] \o s[i]]
  <1>1. \E f : Is(f, n)
    <2> DEFINE bad == {m \in 1 .. n : ~ \E f : Is(f, m)}
    <2>0. 1 .. n \in SUBSET Nat /\ n \in 1 .. n
      OBVIOUS
    <2>10. n \notin bad => \E f : Is(f, n)
      <3> HIDE DEF Is
      <3> QED BY <2>0
    <2>1. SUFFICES ASSUME bad # {} PROVE FALSE
      <3> HIDE DEF bad, Is
      <3> QED BY <2>10
    <2>2. PICK m \in bad : \A k \in bad : m <= k
      <3>1. bad \in SUBSET Nat
        BY <2>0
      <3> HIDE DEF bad
      <3> QED
        BY <2>1, <3>1, LeastIsIn
    <2>3. m \in 1 .. n /\ ~ \E f : Is(f, m)
      OBVIOUS
    <2>4. m # 1
      <3>1. Is([i \in 1 .. 1 |-> s[1]], 1)
        OBVIOUS
      <3> QED BY <3>1, <2>3
    <2>5. m - 1 \in 1 .. n /\ ~(m <= m - 1)
      BY <2>3, <2>4
    <2>6. m - 1 \notin bad
      BY <2>2, <2>5
    <2>7. PICK g : Is(g, m - 1)
      BY <2>5, <2>6
    <2> HIDE DEF bad
    <2> DEFINE f == [i \in 1 .. m |-> IF i <= m - 1 THEN g[i] ELSE g[m - 1] \o s[m]]
    <2>8. \A i \in 1 .. m : f[i] = IF i = 1 THEN s[i] ELSE f[i - 1] \o s[i]
      <3> TAKE i \in 1 .. m
      <3>0. m \in Int /\ i \in Int /\ m > 1
        BY <2>3, <2>4
      <3>1. CASE i = 1
        BY <3>0, <3>1, <2>7
      <3>2. CASE i # 1 /\ i <= m - 1
        <4>1. i \in 1 .. m - 1 /\ i - 1 \in 1 .. m /\ i - 1 <= m - 1 /\ i \in 1 .. m
          BY <3>0, <3>2
        <4>2. f[i] = g[i] /\ f[i - 1] = g[i - 1]
          BY <4>1, <3>2
        <4>3. g[i] = g[i - 1] \o s[i]
          BY <4>1, <3>2, <2>7
        <4> QED BY <4>2, <4>3, <3>2
      <3>3. CASE i = m
        BY <3>0, <3>3
      <3> QED BY <3>0, <3>1, <3>2, <3>3
    <2>9. Is(f, m)
      <3> HIDE DEF f
      <3>1. f = [i \in 1 .. m |-> f[i]]
        BY DEF f
      <3> QED BY <2>8, <3>1
    <2> QED BY <2>3, <2>9
  <1>2. PICK f : Is(f, n) /\ FlattenSeq(s) = f[n]
    <2>1. Is(CHOOSE f : Is(f, n), n)
      BY <1>1
    <2> DEFINE g == CHOOSE f : Is(f, n)
    <2>2. FlattenSeq(s) = g[n]
      BY DEF FlattenSeq
    <2> QED BY <2>1, <2>2
  <1>3. f[1] = s[1] /\ \A i \in 2 .. n : f[i] = f[i - 1] \o s[i]
    <2>1. 1 \in 1 .. n /\ \A i \in 2 .. n : i \in 1 .. n /\ i # 1
      OBVIOUS
    <2> QED BY <1>2, <2>1
  <1> QED BY <1>2, <1>3 DEF Joins

\* t is s and one list more, all of them of elements of V.
OneMore(s, t, n, V) ==
  /\ Len(s) = n /\ Len(t) = n + 1 /\ (n = 0 => s = << >>)
  /\ \A i \in 1 .. n : t[i] = s[i]
  /\ \A i \in 1 .. n + 1 : t[i] \in Seq(V)

\* One list more is joined at the end.
LEMMA FlattenGrows ==
  ASSUME NEW n \in Nat, NEW V, NEW s, NEW t, OneMore(s, t, n, V)
  PROVE  FlattenSeq(t) = FlattenSeq(s) \o t[n + 1] /\ FlattenSeq(s) \in Seq(V)
  <1>0. /\ Len(s) = n /\ Len(t) = n + 1 /\ (n = 0 => s = << >>)
        /\ \A i \in 1 .. n : t[i] = s[i]
        /\ \A i \in 1 .. n + 1 : t[i] \in Seq(V)
    BY DEF OneMore
  <1>1. PICK g : /\ FlattenSeq(t) = g[n + 1] /\ g[1] = t[1]
                 /\ \A i \in 2 .. n + 1 : g[i] = g[i - 1] \o t[i]
    <2> DEFINE m == n + 1
    <2>1. m \in Nat \ {0} /\ Len(t) = m
      BY <1>0
    <2> HIDE DEF m
    <2>2. PICK f : FlattenSeq(t) = f[m] /\ Joins(f, t, m)
      BY <2>1, FlattenIs
    <2> QED BY <2>2 DEF m, Joins
  <1>2. CASE n = 0
    <2>1. FlattenSeq(s) = << >>
      BY <1>0, <1>2 DEF FlattenSeq
    <2>2. g[n + 1] = t[n + 1] /\ t[n + 1] \in Seq(V)
      BY <1>0, <1>1, <1>2
    <2> QED BY <1>1, <2>1, <2>2, ConcatEmptySeq, EmptySeq
  <1>3. CASE n # 0
    <2>1. PICK f : /\ FlattenSeq(s) = f[n] /\ f[1] = s[1]
                   /\ \A i \in 2 .. n : f[i] = f[i - 1] \o s[i]
      <3>1. n \in Nat \ {0} /\ Len(s) = n
        BY <1>0, <1>3
      <3>2. PICK f : FlattenSeq(s) = f[n] /\ Joins(f, s, n)
        BY <3>1, FlattenIs
      <3> QED BY <3>2 DEF Joins
    <2> DEFINE bad == {i \in 1 .. n : ~(f[i] = g[i] /\ f[i] \in Seq(V))}
    <2>2. bad = {}
      <3> SUFFICES ASSUME bad # {} PROVE FALSE
        OBVIOUS
      <3>1. PICK k \in bad : \A j \in bad : k <= j
        <4>1. bad \in SUBSET Nat
          OBVIOUS
        <4> HIDE DEF bad
        <4> QED BY <4>1, LeastIsIn
      <3>2. k \in 1 .. n /\ t[k] = s[k] /\ t[k] \in Seq(V) /\ k \in 1 .. n + 1
        BY <1>0
      <3>3. k # 1
        BY <3>2, <2>1, <1>1
      <3>4. k - 1 \in 1 .. n /\ ~(k <= k - 1) /\ k \in 2 .. n /\ k \in 2 .. n + 1
        BY <3>2, <3>3
      <3>5. f[k - 1] = g[k - 1] /\ f[k - 1] \in Seq(V)
        BY <3>1, <3>4
      <3>6. f[k] = f[k - 1] \o s[k] /\ g[k] = g[k - 1] \o t[k]
        BY <3>4, <2>1, <1>1
      <3>7. f[k] = g[k] /\ f[k] \in Seq(V)
        BY <3>2, <3>5, <3>6, ConcatProperties
      <3> QED BY <3>7
    <2>3. f[n] = g[n] /\ f[n] \in Seq(V)
      <3>1. n \in 1 .. n
        BY <1>3
      <3> QED BY <2>2, <3>1
    <2>4. n + 1 \in 2 .. n + 1 /\ (n + 1) - 1 = n
      BY <1>3
    <2>5. g[n + 1] = g[n] \o t[n + 1]
      BY <1>1, <2>4
    <2> QED BY <1>1, <2>1, <2>3, <2>5
  <1> QED BY <1>2, <1>3

\* The empty list.
LEMMA ListsNone == Lists(<< >>, {})
  <1>1. Cardinality({}) = 0 /\ IsFiniteSet({})
    BY FS_EmptySet
  <1>2. << >> = [k \in 1 .. 0 |-> << >>[k]]
    OBVIOUS
  <1> QED BY <1>1, <1>2 DEF Lists

\* A list is a sequence of its numbers.
LEMMA ListIsSeq ==
  ASSUME NEW M, NEW s, Lists(s, M)
  PROVE  s \in Seq(M) /\ s \in Seq(Int) /\ Len(s) = Cardinality(M) /\ Cardinality(M) \in Nat
  <1> DEFINE n == Cardinality(M)
  <1>1. n \in Nat /\ s = [k \in 1 .. n |-> s[k]] /\ \A k \in 1 .. n : s[k] \in M /\ s[k] \in Int
    BY FS_CardinalityType DEF Lists
  <1> HIDE DEF n
  <1>2. [k \in 1 .. n |-> s[k]] \in Seq(M)
    BY <1>1, IsASeq
  <1>3. [k \in 1 .. n |-> s[k]] \in Seq(Int)
    BY <1>1, IsASeq
  <1>4. s \in Seq(M) /\ s \in Seq(Int) /\ DOMAIN s = 1 .. n
    BY <1>1, <1>2, <1>3
  <1>5. Len(s) = n
    BY <1>1, <1>4, LenProperties
  <1> QED BY <1>1, <1>4, <1>5 DEF n

\* A run is compacted to its hits, in order, whatever the width of a block.
LEMMA CompressedIs ==
  ASSUME NEW n \in Nat, NEW tokens, tokens = [i \in 1 .. n |-> tokens[i]],
         NEW lanes \in Nat \ {0}
  PROVE  CompressedRun(tokens, lanes) = Packed({i \in 0 .. n - 1 : tokens[i + 1] # NullRow})
  <1> DEFINE isHit(i) == tokens[i + 1] # NullRow
             q == n \div lanes
             B == q * lanes
             mask(b) == {l \in 0 .. lanes - 1 : isHit(b * lanes + l)}
             block(b) == LET packed == Packed(mask(b))
                         IN [k \in 1 .. Len(packed) |-> b * lanes + packed[k]]
             blocks(m) == [b \in 1 .. m |-> block(b - 1)]
             joined(m) == FlattenSeq(blocks(m))
             upTo(x) == {i \in 0 .. x - 1 : isHit(i)}
             tail == {i \in B .. n - 1 : isHit(i)}
  <1>1. q \in Nat /\ B \in Nat /\ B <= n
    <2>1. q \in Nat /\ B \in Nat /\ n % lanes \in Nat /\ n = B + (n % lanes)
      BY DivMod
    <2> HIDE DEF B, q
    <2> QED BY <2>1
  <1>2. Len(tokens) = n
    <2> DEFINE V == {tokens[j] : j \in 1 .. n}
    <2>1. \A i \in 1 .. n : tokens[i] \in V
      OBVIOUS
    <2> HIDE DEF V
    <2>2. [i \in 1 .. n |-> tokens[i]] \in Seq(V)
      BY <2>1, IsASeq
    <2>3. tokens \in Seq(V) /\ DOMAIN tokens = 1 .. n
      BY <2>2
    <2> QED BY <2>3, LenProperties
  <1>3. B \div lanes = q
    <2>1. 0 \in 0 .. lanes - 1 /\ B = q * lanes + 0
      BY <1>1
    <2> HIDE DEF q
    <2> QED BY <1>1, <2>1, DivModOnce
  <1>4. CompressedRun(tokens, lanes) = joined(q) \o Packed(tail)
    <2>1. CompressedRun(tokens, lanes) =
            LET blocked == (n \div lanes) * lanes
            IN FlattenSeq([b \in 1 .. blocked \div lanes |-> block(b - 1)])
                 \o Packed({i \in blocked .. n - 1 : isHit(i)})
      BY <1>2 DEF CompressedRun
    <2> QED BY <2>1, <1>3
  <1> HIDE DEF isHit, q
  <1>5. \A b \in Nat : Lists(block(b), {i \in b * lanes .. b * lanes + lanes - 1 : isHit(i)})
    <2> TAKE b \in Nat
    <2> DEFINE d == b * lanes
               M == mask(b)
               N == {i \in d .. d + lanes - 1 : isHit(i)}
    <2>1. d \in Nat
      OBVIOUS
    <2>2. M \in SUBSET Int /\ IsFiniteSet(M)
      <3>1. 0 \in Int /\ lanes - 1 \in Int /\ M \in SUBSET (0 .. lanes - 1)
        OBVIOUS
      <3> HIDE DEF M
      <3>2. IsFiniteSet(0 .. lanes - 1)
        BY <3>1, FS_Interval
      <3> QED BY <3>1, <3>2, FS_Subset
    <2>3. N = {d + m : m \in M}
      <3> HIDE DEF d
      <3>1. M = {l \in 0 .. lanes - 1 : isHit(d + l)}
        BY DEF d
      <3> HIDE DEF M
      <3>2. \A i \in N : i - d \in M /\ i = d + (i - d)
        BY <2>1, <3>1
      <3>3. \A m \in M : d + m \in N
        BY <2>1, <3>1
      <3> HIDE DEF N
      <3> QED BY <3>2, <3>3
    <2>4. Lists(Packed(M), M)
      <3> HIDE DEF M
      <3> QED BY <2>2, PackedLists
    <2>5. Lists([k \in 1 .. Len(Packed(M)) |-> d + Packed(M)[k]], N)
      <3> HIDE DEF M, N, d
      <3>1. d \in Int
        BY <2>1
      <3> QED BY <2>3, <2>4, <3>1, ListsShift
    <2>6. block(b) = [k \in 1 .. Len(Packed(M)) |-> d + Packed(M)[k]]
      OBVIOUS
    <2> QED BY <2>5, <2>6
  <1>6. \A m \in Nat : Len(blocks(m)) = m /\ blocks(m) \in Seq(Seq(Int))
    <2> TAKE m \in Nat
    <2>1. \A b \in 1 .. m : block(b - 1) \in Seq(Int)
      <3> TAKE b \in 1 .. m
      <3>1. b - 1 \in Nat
        OBVIOUS
      <3> HIDE DEF block
      <3> QED BY <3>1, <1>5, ListIsSeq
    <2> HIDE DEF block
    <2>2. blocks(m) \in Seq(Seq(Int))
      BY <2>1, IsASeq
    <2>3. DOMAIN blocks(m) = 1 .. m
      OBVIOUS
    <2> HIDE DEF blocks
    <2> QED BY <2>2, <2>3, LenProperties
  <1>7. \A m \in Nat : joined(m + 1) = joined(m) \o block(m)
    <2> TAKE m \in Nat
    <2> DEFINE s == blocks(m)
               t == blocks(m + 1)
    <2>1. Len(s) = m /\ Len(t) = m + 1
      BY <1>6
    <2>2. m = 0 => s = << >>
      OBVIOUS
    <2>3. \A i \in 1 .. m : t[i] = s[i]
      <3> HIDE DEF block
      <3> QED OBVIOUS
    <2>4. \A i \in 1 .. m + 1 : t[i] \in Seq(Int)
      <3>1. t \in Seq(Seq(Int))
        <4>1. m + 1 \in Nat
          OBVIOUS
        <4> HIDE DEF blocks
        <4> QED BY <1>6, <4>1
      <3> HIDE DEF t
      <3> QED BY <3>1, <2>1
    <2>5. t[m + 1] = block(m)
      <3>1. m + 1 \in 1 .. m + 1 /\ (m + 1) - 1 = m
        OBVIOUS
      <3> HIDE DEF block
      <3> QED BY <3>1
    <2> DEFINE V == Int
    <2>7. \A i \in 1 .. m + 1 : t[i] \in Seq(V)
      BY <2>4
    <2> HIDE DEF s, t, V
    <2>8. OneMore(s, t, m, V)
      BY <2>1, <2>2, <2>3, <2>7 DEF OneMore
    <2>6. FlattenSeq(t) = FlattenSeq(s) \o t[m + 1]
      BY <2>8, FlattenGrows
    <2> QED BY <2>5, <2>6 DEF s, t
  <1> HIDE DEF block
  <1>8. joined(0) = << >>
    <2>1. Len(blocks(0)) = 0 /\ blocks(0) = << >>
      BY <1>6
    <2> HIDE DEF blocks
    <2> QED BY <2>1 DEF FlattenSeq
  <1> HIDE DEF joined
  <1>9. \A m \in Nat : Lists(joined(m), upTo(m * lanes))
    <2> DEFINE bad == {m \in Nat : ~Lists(joined(m), upTo(m * lanes))}
    <2>1. SUFFICES ASSUME bad # {} PROVE FALSE
      OBVIOUS
    <2>2. PICK k \in bad : \A j \in bad : k <= j
      <3>1. bad \in SUBSET Nat
        OBVIOUS
      <3> HIDE DEF bad
      <3> QED BY <2>1, <3>1, LeastIsIn
    <2>3. k # 0
      <3>1. upTo(0 * lanes) = {}
        OBVIOUS
      <3> HIDE DEF upTo
      <3>2. Lists(joined(0), upTo(0 * lanes))
        BY <3>1, <1>8, ListsNone
      <3> QED BY <3>2
    <2> DEFINE m == k - 1
               d == m * lanes
               N == {i \in d .. d + lanes - 1 : isHit(i)}
    <2>4. m \in Nat /\ k = m + 1 /\ ~(k <= m) /\ d \in Nat
      BY <2>3
    <2>5. Lists(joined(m), upTo(d))
      <3> HIDE DEF m
      <3>1. m \notin bad
        BY <2>2, <2>4
      <3> QED BY <3>1, <2>4
    <2> HIDE DEF m
    <2>6. Lists(block(m), N)
      BY <1>5, <2>4
    <2>7. k * lanes = d + lanes
      BY <2>4
    <2> HIDE DEF d
    <2>8. upTo(d) \cup N = upTo(k * lanes)
      <3>1. upTo(d) \cup N = upTo(d + lanes)
        BY <2>4
      <3> QED BY <3>1, <2>7
    <2>9. \A x \in upTo(d) : \A y \in N : x < y
      BY <2>4
    <2> HIDE DEF upTo, N
    <2>10. Lists(joined(m) \o block(m), upTo(k * lanes))
      BY <2>5, <2>6, <2>8, <2>9, ListsJoin
    <2>11. joined(k) = joined(m) \o block(m)
      BY <1>7, <2>4
    <2> QED BY <2>10, <2>11
  <1>10. Lists(joined(q), upTo(B))
    BY <1>1, <1>9
  <1> HIDE DEF B
  <1>11. tail \in SUBSET Int /\ IsFiniteSet(tail)
    <2>1. tail \in SUBSET (B .. n - 1) /\ IsFiniteSet(B .. n - 1)
      BY <1>1, FS_Interval
    <2> HIDE DEF tail
    <2> QED BY <1>1, <2>1, FS_Subset
  <1>12. Lists(Packed(tail), tail)
    <2> HIDE DEF tail
    <2> QED BY <1>11, PackedLists
  <1>13. upTo(B) \cup tail = upTo(n) /\ \A x \in upTo(B) : \A y \in tail : x < y
    BY <1>1
  <1>14. Lists(joined(q) \o Packed(tail), upTo(n))
    <2> HIDE DEF upTo, tail
    <2> QED BY <1>10, <1>12, <1>13, ListsJoin
  <1>15. Lists(Packed(upTo(n)), upTo(n))
    <2>1. upTo(n) \in SUBSET Int /\ IsFiniteSet(upTo(n))
      <3>1. 0 \in Int /\ n - 1 \in Int /\ upTo(n) \in SUBSET (0 .. n - 1)
        OBVIOUS
      <3> HIDE DEF upTo
      <3>2. IsFiniteSet(0 .. n - 1)
        BY <3>1, FS_Interval
      <3> QED BY <3>1, <3>2, FS_Subset
    <2> HIDE DEF upTo
    <2> QED BY <2>1, PackedLists
  <1>16. CompressedRun(tokens, lanes) = Packed(upTo(n))
    <2> HIDE DEF upTo, tail
    <2> QED BY <1>4, <1>14, <1>15, ListsOnce
  <1> QED BY <1>16 DEF isHit

IsBox(box) == box \in [min : [Axes -> Floats], max : [Axes -> Floats]]
IsPlane(plane) == plane \in [n : [Axes -> Floats], d : Floats]

\* Floats are numbers or none.
LEMMA FloatSteps ==
  ASSUME NEW a \in Floats, NEW b \in Floats
  PROVE  Plus(a, b) \in Floats /\ Times(a, b) \in Floats
  <1>1. CASE NaNum \in {a, b}
    BY <1>1 DEF Plus, Times, Floats
  <1>2. CASE NaNum \notin {a, b}
    <2>1. a \in Int /\ b \in Int
      BY <1>2 DEF Floats
    <2>2. a + b \in Int /\ a * b \in Int
      BY <2>1
    <2> QED BY <1>2, <2>2 DEF Plus, Times, Floats
  <1> QED BY <1>1, <1>2

\* A distance is a float.
LEMMA DotTyped ==
  ASSUME NEW plane, IsPlane(plane), NEW box, IsBox(box)
  PROVE  Dot(plane, box) \in Floats
  <1> DEFINE term(i) == Times(plane.n[i], Vertex(plane, box)[i])
             Is(f, m) == f = [i \in 0 .. m |-> IF i = 0 THEN 0 ELSE Plus(f[i - 1], term(i))]
             Typed(f, m) == \A i \in 0 .. m : f[i] \in Floats
  <1>0. Dims \in Nat
    BY HarvestAssumption
  <1>1. \A i \in 1 .. Dims : term(i) \in Floats
    <2> TAKE i \in 1 .. Dims
    <2>1. i \in Axes /\ plane.n[i] \in Floats /\ box.min[i] \in Floats /\ box.max[i] \in Floats
      BY DEF IsPlane, IsBox, Axes
    <2>2. Vertex(plane, box)[i] \in Floats
      BY <2>1 DEF Vertex
    <2> QED BY <2>1, <2>2, FloatSteps
  <1>2. 0 \in Floats
    BY DEF Floats
  <1> HIDE DEF term
  <1>3. \A m \in 0 .. Dims : \E f : Is(f, m) /\ Typed(f, m)
    <2> DEFINE bad == {m \in 0 .. Dims : ~ \E f : Is(f, m) /\ Typed(f, m)}
    <2>1. SUFFICES ASSUME bad # {} PROVE FALSE
      OBVIOUS
    <2>2. PICK m \in bad : \A k \in bad : m <= k
      <3>1. bad \in SUBSET Nat
        OBVIOUS
      <3> HIDE DEF bad
      <3> QED BY <2>1, <3>1, LeastIsIn
    <2>3. m \in 0 .. Dims /\ ~ \E f : Is(f, m) /\ Typed(f, m)
      OBVIOUS
    <2>4. m # 0
      <3> DEFINE z == [i \in 0 .. 0 |-> 0]
      <3>1. Is(z, 0) /\ Typed(z, 0)
        BY <1>2
      <3> QED BY <3>1, <2>3
    <2>5. m - 1 \in 0 .. Dims /\ ~(m <= m - 1) /\ m \in 1 .. Dims
      BY <2>3, <2>4, <1>0
    <2>6. m - 1 \notin bad
      BY <2>2, <2>5
    <2>7. PICK g : Is(g, m - 1) /\ Typed(g, m - 1)
      BY <2>5, <2>6
    <2> HIDE DEF bad
    <2> DEFINE f == [i \in 0 .. m |-> IF i <= m - 1 THEN g[i] ELSE Plus(g[m - 1], term(m))]
    <2>8. \A i \in 0 .. m : /\ f[i] = IF i = 0 THEN 0 ELSE Plus(f[i - 1], term(i))
                            /\ f[i] \in Floats
      <3> TAKE i \in 0 .. m
      <3>0. m \in Int /\ i \in Int /\ m > 0 /\ m - 1 \in 0 .. m
        BY <2>5, <1>0
      <3>1. CASE i <= m - 1
        <4>1. i \in 0 .. m - 1 /\ f[i] = g[i] /\ (i # 0 => i - 1 \in 0 .. m /\ f[i - 1] = g[i - 1])
          BY <3>0, <3>1
        <4>2. g[i] = IF i = 0 THEN 0 ELSE Plus(g[i - 1], term(i))
          BY <4>1, <2>7
        <4>3. g[i] \in Floats
          BY <4>1, <2>7
        <4> QED BY <4>1, <4>2, <4>3
      <3>2. CASE i = m
        <4>1. f[m - 1] = g[m - 1] /\ f[m] = Plus(g[m - 1], term(m)) /\ m # 0
          BY <3>0, <3>2
        <4>2. g[m - 1] \in Floats
          <5>1. m - 1 \in 0 .. m - 1
            BY <3>0
          <5> QED BY <5>1, <2>7
        <4>3. term(m) \in Floats
          BY <1>1, <2>5
        <4> HIDE DEF f
        <4> QED BY <3>2, <4>1, <4>2, <4>3, FloatSteps
      <3> QED BY <3>0, <3>1, <3>2
    <2>9. Is(f, m) /\ Typed(f, m)
      <3> HIDE DEF f
      <3>1. f = [i \in 0 .. m |-> f[i]]
        BY DEF f
      <3> QED BY <2>8, <3>1
    <2> QED BY <2>3, <2>9
  <1>4. PICK f : Is(f, Dims) /\ Typed(f, Dims)
    <2>1. Dims \in 0 .. Dims
      BY <1>0
    <2> HIDE DEF Is, Typed
    <2> QED BY <2>1, <1>3
  <1> DEFINE g == CHOOSE h : Is(h, Dims)
  <1>5. Is(g, Dims)
    BY <1>4
  <1>6. Dot(plane, box) = Plus(g[Dims], plane.d)
    BY DEF Dot, term
  <1>7. g = f
    <2> HIDE DEF g
    <2> DEFINE bad == {m \in 0 .. Dims : g[m] # f[m]}
    <2>1. bad = {}
      <3> SUFFICES ASSUME bad # {} PROVE FALSE
        OBVIOUS
      <3>1. PICK m \in bad : \A k \in bad : m <= k
        <4>1. bad \in SUBSET Nat
          OBVIOUS
        <4> HIDE DEF bad
        <4> QED BY <4>1, LeastIsIn
      <3>2. m \in 0 .. Dims /\ g[m] # f[m]
        OBVIOUS
      <3>3. m # 0
        BY <3>2, <1>4, <1>5
      <3>4. m - 1 \in 0 .. Dims /\ ~(m <= m - 1)
        BY <3>2, <3>3, <1>0
      <3>5. g[m - 1] = f[m - 1]
        BY <3>1, <3>4
      <3>6. g[m] = Plus(g[m - 1], term(m)) /\ f[m] = Plus(f[m - 1], term(m))
        BY <3>2, <3>3, <1>4, <1>5
      <3> QED BY <3>2, <3>5, <3>6
    <2>2. g = [i \in 0 .. Dims |-> g[i]] /\ f = [i \in 0 .. Dims |-> f[i]]
      BY <1>4, <1>5
    <2> QED BY <2>1, <2>2
  <1>8. g[Dims] \in Floats /\ plane.d \in Floats
    <2>1. Dims \in 0 .. Dims
      BY <1>0
    <2>2. f[Dims] \in Floats
      BY <2>1, <1>4
    <2> HIDE DEF g
    <2> QED BY <2>2, <1>7 DEF IsPlane
  <1> HIDE DEF g
  <1> QED BY <1>6, <1>8, FloatSteps

\* The two frustum tests agree where no distance fails to be a number.
LEMMA TestsAgree ==
  ASSUME NEW view \in Views, NEW box, IsBox(box), Ordered(view, box)
  PROVE  InBlock(view, box) <=> InTail(view, box)
  <1>1. CASE view.kind # "frustum"
    <2>1. view.kind = "aabb"
      BY <1>1, HarvestAssumption
    <2> QED BY <2>1 DEF InBlock, InTail
  <1>2. CASE view.kind = "frustum"
    <2>1. view.kind # "aabb" /\ \A p \in view.planes : IsPlane(p)
      BY <1>2, HarvestAssumption DEF IsPlane
    <2>2. \A p \in view.planes : Dot(p, box) \in Floats /\ Dot(p, box) # NaNum
      BY <1>2, <2>1, DotTyped DEF Ordered
    <2>3. \A p \in view.planes : AtMost(0, Dot(p, box)) <=> ~(Dot(p, box) # NaNum /\ Dot(p, box) < 0)
      <3> TAKE p \in view.planes
      <3> DEFINE d == Dot(p, box)
      <3>1. d \in Int /\ d # NaNum /\ 0 # NaNum
        BY <2>2, HarvestAssumption DEF Floats
      <3> HIDE DEF d
      <3>2. AtMost(0, d) <=> ~(d # NaNum /\ d < 0)
        BY <3>1 DEF AtMost
      <3> QED BY <3>2 DEF d
    <2>4. InBlock(view, box) <=> InsideBlock(view, box)
      BY <2>1 DEF InBlock
    <2>5. InTail(view, box) <=> NotOutside(view, box)
      BY <2>1 DEF InTail
    <2> QED BY <2>3, <2>4, <2>5 DEF InsideBlock, NotOutside
  <1> QED BY <1>1, <1>2

\* A block lies in one word.
LEMMA SameWord ==
  ASSUME NEW W \in Nat \ {0}, NEW lanes \in Nat \ {0}, W % lanes = 0,
         NEW row \in Nat, row % lanes = 0, NEW l \in 0 .. lanes - 1
  PROVE  (row + l) % W = (row % W) + l /\ (row + l) \div W = row \div W
  <1> DEFINE a == row \div W
             m == row % W
             w == W \div lanes
             k == row \div lanes
             g == a * W
             e == k - a * w
  <1>1. a \in Nat /\ m \in 0 .. W - 1 /\ m \in Nat /\ g \in Nat /\ row = g + m
    BY DivMod
  <1>2. w \in Nat /\ W = w * lanes
    <2> DEFINE wl == w * lanes
    <2>1. w \in Nat /\ wl \in Nat /\ W = wl + (W % lanes)
      BY DivMod
    <2> HIDE DEF wl
    <2>2. W = wl
      BY <2>1
    <2> QED BY <2>1, <2>2 DEF wl
  <1>3. k \in Nat /\ row = k * lanes
    <2> DEFINE kl == k * lanes
    <2>1. k \in Nat /\ kl \in Nat /\ row = kl + (row % lanes)
      BY DivMod
    <2> HIDE DEF kl
    <2>2. row = kl
      BY <2>1
    <2> QED BY <2>1, <2>2 DEF kl
  <1> HIDE DEF a, m, w, k
  <1>4. e \in Int /\ m = e * lanes
    <2>1. a * w \in Nat
      BY <1>1, <1>2
    <2>2. g = (a * w) * lanes
      BY <1>1, <1>2
    <2> DEFINE aw == a * w
    <2>3. e = k - aw /\ aw \in Nat /\ g = aw * lanes
      BY <2>1, <2>2
    <2> HIDE DEF aw, e
    <2>4. e * lanes = k * lanes - aw * lanes
      BY <2>3, <1>3
    <2>5. m = row - g
      <3> HIDE DEF g
      <3> QED BY <1>1
    <2> QED BY <2>3, <2>4, <2>5, <1>3
  <1> HIDE DEF e, g
  <1>5. e < w
    <2> SUFFICES ASSUME ~(e < w) PROVE FALSE
      OBVIOUS
    <2>1. e * lanes >= w * lanes
      <3> DEFINE d == e - w
      <3>1. d \in Nat /\ e = d + w
        BY <1>2, <1>4
      <3> HIDE DEF d
      <3>2. e * lanes = d * lanes + w * lanes /\ d * lanes \in Nat
        BY <3>1, <1>2
      <3> DEFINE x == d * lanes
                 y == w * lanes
      <3>3. x \in Nat /\ e * lanes = x + y /\ y \in Nat
        BY <3>2, <1>2
      <3> HIDE DEF x, y
      <3>4. e * lanes >= y
        BY <3>3
      <3> QED BY <3>4 DEF y
    <2>2. m >= W
      BY <2>1, <1>2, <1>4
    <2> QED BY <2>2, <1>1
  <1>6. e \in Nat
    <2> SUFFICES ASSUME ~(e >= 0) PROVE FALSE
      BY <1>4
    <2> DEFINE d == 0 - e - 1
    <2>1. d \in Nat /\ e = 0 - d - 1
      BY <1>4
    <2> HIDE DEF d
    <2>2. d * lanes \in Nat /\ e * lanes = 0 - d * lanes - lanes
      BY <2>1
    <2> DEFINE x == d * lanes
    <2>3. x \in Nat /\ m = 0 - x - lanes
      BY <2>2, <1>4
    <2> HIDE DEF x
    <2> QED BY <2>3, <1>1
  <1>7. m + lanes <= W
    BY <1>2, <1>4, <1>5, <1>6, StepsApart
  <1>8. m + l \in 0 .. W - 1 /\ row + l = g + (m + l) /\ row + l \in Nat
    BY <1>1, <1>7
  <1>9. (row + l) \div W = a /\ (row + l) % W = m + l
    <2> DEFINE x == row + l
               r == m + l
    <2>1. x \in Nat /\ r \in 0 .. W - 1 /\ x = a * W + r
      BY <1>8 DEF g
    <2> HIDE DEF x, r
    <2>2. x \div W = a /\ x % W = r
      BY <2>1, <1>1, DivModOnce
    <2> QED BY <2>2 DEF x, r
  <1> QED BY <1>9 DEF a, m

\* A scan hits the rows that are live by its words and that its test passes,
\* whatever the width of its blocks and whichever rows they leave to the tail.
LEMMA HitsAre ==
  ASSUME NEW c, NEW view \in Views, NEW words, NEW lanes \in LaneCounts, InUse(c) \in Nat,
         NEW r \in RowsOf(c), IsBox(BoxOf(c, r)), Ordered(view, BoxOf(c, r))
  PROVE  r \in HitsOf(c, view, words, lanes) <=> IsLive(words, r) /\ InTail(view, BoxOf(c, r))
  <1> DEFINE n == InUse(c)
             q == n \div lanes
             B == q * lanes
             blocks == {row \in 0 .. B - 1 : (row % lanes) = 0 /\ lanes > 1}
             tail == IF lanes > 1 THEN B .. n - 1 ELSE RowsOf(c)
             mask(row) == {l \in Window(words, row, lanes) : InBlock(view, BoxOf(c, row + l))}
             blocked == UNION {{row + l : l \in mask(row)} : row \in blocks}
             rest == {x \in tail : InTail(view, BoxOf(c, x)) /\ IsLive(words, x)}
  <1>1. /\ lanes \in Nat \ {0} /\ WordBits \in Nat \ {0} /\ WordBits % lanes = 0
        /\ r \in Nat /\ r < n /\ n \in Nat
    <2>1. lanes \in Nat \ {0} /\ WordBits \in Nat \ {0} /\ WordBits % lanes = 0
      BY HarvestAssumption
    <2>2. r \in 0 .. n - 1
      BY DEF RowsOf
    <2> HIDE DEF n
    <2>3. n \in Nat
      BY DEF n
    <2> QED BY <2>1, <2>2, <2>3
  <1>2. q \in Nat /\ B \in Nat /\ B <= n
    <2>1. q \in Nat /\ B \in Nat /\ n % lanes \in Nat /\ n = B + (n % lanes)
      BY <1>1, DivMod
    <2> HIDE DEF B, q, n
    <2> QED BY <2>1, <1>1
  <1>3. HitsOf(c, view, words, lanes) = blocked \cup rest
    BY DEF HitsOf
  <1> HIDE DEF n, q
  <1>4. \A row \in blocks : \E k \in Nat : k < q /\ row = k * lanes
    <2> SUFFICES ASSUME NEW row \in blocks PROVE \E k \in Nat : k < q /\ row = k * lanes
      OBVIOUS
    <2> DEFINE k == row \div lanes
               kl == k * lanes
    <2>1. row \in Nat /\ row < B /\ row % lanes = 0
      BY <1>2
    <2>2. k \in Nat /\ kl \in Nat /\ row = kl + (row % lanes)
      BY <2>1, <1>1, DivMod
    <2> HIDE DEF k, B
    <2>3. row = kl
      <3> HIDE DEF kl
      <3> QED BY <2>1, <2>2
    <2>4. k < q
      <3> SUFFICES ASSUME ~(k < q) PROVE FALSE
        OBVIOUS
      <3>1. CASE k = q
        BY <3>1, <2>1, <2>3, <1>2 DEF B
      <3>2. CASE q < k
        <4>1. B + lanes <= k * lanes
          BY <3>2, <2>2, <1>1, <1>2, StepsApart DEF B
        <4>2. B + lanes <= row
          BY <4>1, <2>3
        <4> QED BY <4>2, <2>1, <1>1, <1>2
      <3> QED BY <3>1, <3>2, <2>2, <1>2
    <2> QED BY <2>2, <2>3, <2>4
  <1>5. CASE ~(lanes > 1)
    <2>1. blocks = {} /\ tail = RowsOf(c)
      BY <1>5
    <2> HIDE DEF blocks, mask, tail
    <2>2. blocked = {}
      BY <2>1
    <2>3. r \in rest <=> IsLive(words, r) /\ InTail(view, BoxOf(c, r))
      BY <2>1
    <2> HIDE DEF blocked, rest
    <2> QED BY <2>2, <2>3, <1>3
  <1>6. CASE lanes > 1 /\ B <= r
    <2>1. r \notin blocked
      <3> SUFFICES ASSUME NEW row \in blocks, NEW l \in mask(row), r = row + l PROVE FALSE
        OBVIOUS
      <3>1. PICK k \in Nat : k < q /\ row = k * lanes
        BY <1>4
      <3>2. row \in Nat /\ row + lanes <= B
        BY <3>1, <1>1, <1>2, StepsApart
      <3>3. l \in 0 .. lanes - 1
        BY DEF Window
      <3> HIDE DEF B, mask, blocks
      <3> QED BY <3>2, <3>3, <1>1, <1>2, <1>6
    <2>2. r \in tail
      BY <1>1, <1>2, <1>6
    <2>3. r \in rest <=> IsLive(words, r) /\ InTail(view, BoxOf(c, r))
      <3> HIDE DEF tail
      <3> QED BY <2>2
    <2> HIDE DEF blocked, rest
    <2> QED BY <2>1, <2>3, <1>3
  <1>7. CASE lanes > 1 /\ ~(B <= r)
    <2> DEFINE k == r \div lanes
               row == k * lanes
               l == r % lanes
    <2>1. k \in Nat /\ row \in Nat /\ l \in 0 .. lanes - 1 /\ r = row + l
      BY <1>1, DivMod
    <2>2. r \notin rest
      <3>1. r \notin tail
        BY <1>1, <1>2, <1>7
      <3> HIDE DEF tail
      <3> QED BY <3>1
    <2>3. row % lanes = 0
      <3>1. 0 \in 0 .. lanes - 1 /\ row = k * lanes + 0
        BY <2>1, <1>1
      <3> HIDE DEF k
      <3>2. row \in Nat
        BY <2>1
      <3>3. k \in Nat
        BY <2>1
      <3> HIDE DEF row
      <3> QED BY <3>1, <3>2, <3>3, <1>1, DivModOnce
    <2>4. row \in blocks
      <3> HIDE DEF row, l, B
      <3>1. row < B
        BY <2>1, <1>1, <1>2, <1>7
      <3> QED BY <2>1, <2>3, <3>1, <1>2, <1>7
    <2>5. \A x \in blocks : \A y \in mask(x) : r = x + y => x = row /\ y = l
      <3> SUFFICES ASSUME NEW x \in blocks, NEW y \in mask(x), r = x + y
                   PROVE  x = row /\ y = l
        OBVIOUS
      <3>1. PICK j \in Nat : j < q /\ x = j * lanes
        BY <1>4
      <3>2. y \in 0 .. lanes - 1
        BY DEF Window
      <3>3. r = j * lanes + y
        BY <3>1
      <3> HIDE DEF mask, blocks
      <3>4. r \div lanes = j /\ r % lanes = y
        BY <3>2, <3>3, <1>1, DivModOnce
      <3> QED BY <3>1, <3>4
    <2>6. r \in blocked <=> l \in mask(row)
      <3>1. r \in blocked <=> \E x \in blocks : \E y \in mask(x) : r = x + y
        <4> HIDE DEF blocks, mask
        <4> QED OBVIOUS
      <3> HIDE DEF blocked, blocks, mask, row, l
      <3> QED BY <3>1, <2>1, <2>4, <2>5
    <2>7. l \in mask(row) <=> l \in Window(words, row, lanes) /\ InBlock(view, BoxOf(c, r))
      <3> HIDE DEF row, l
      <3> QED BY <2>1
    <2>8. l \in Window(words, row, lanes) <=> IsLive(words, r)
      <3> HIDE DEF row, l
      <3>1. (row + l) % WordBits = (row % WordBits) + l /\ (row + l) \div WordBits = row \div WordBits
        BY <2>1, <2>3, <1>1, SameWord
      <3>2. r % WordBits = (row % WordBits) + l /\ r \div WordBits = row \div WordBits
        BY <3>1, <2>1
      <3> QED BY <3>2, <2>1 DEF Window, IsLive
    <2>9. InBlock(view, BoxOf(c, r)) <=> InTail(view, BoxOf(c, r))
      BY TestsAgree
    <2> HIDE DEF blocked, rest, mask, row, l
    <2> QED BY <2>2, <2>6, <2>7, <2>8, <2>9, <1>3
  <1> QED BY <1>5, <1>6, <1>7

\* Cells have a kind of bounds in each row, and what lives is a row.
CellsSound ==
  /\ bounds = [c \in HarvestCells |-> bounds[c]] /\ live = [c \in HarvestCells |-> live[c]]
  /\ \A c \in HarvestCells : bounds[c] \in Seq(RowKinds) /\ live[c] \subseteq RowsOf(c)

\* A row's word is one of those that cover the rows.
LEMMA WordOfRow ==
  ASSUME NEW n \in Nat, NEW r \in 0 .. n - 1
  PROVE  r \div WordBits \in 0 .. WordsFor(n) - 1
  <1> DEFINE W == WordBits
             a == r \div W
             x == n + W - 1
             k == x \div W
             aW == a * W
             kW == k * W
  <1>1. W \in Nat \ {0} /\ r \in Nat /\ r < n /\ x \in Nat
    BY HarvestAssumption
  <1> HIDE DEF W
  <1>2. a \in Nat /\ aW \in Nat /\ aW <= r
    <2>1. a \in Nat /\ aW \in Nat /\ r % W \in Nat /\ r = aW + (r % W)
      BY <1>1, DivMod
    <2> HIDE DEF a, aW
    <2> QED BY <2>1, <1>1
  <1>3. k \in Nat /\ kW \in Nat /\ x < kW + W
    <2>1. k \in Nat /\ kW \in Nat /\ x % W \in 0 .. W - 1 /\ x = kW + (x % W)
      BY <1>1, DivMod
    <2> HIDE DEF k, kW, x
    <2> QED BY <2>1, <1>1
  <1>4. x = n + W - 1
    OBVIOUS
  <1>5. a < k
    <2> SUFFICES ASSUME ~(a < k) PROVE FALSE
      OBVIOUS
    <2>1. kW <= aW
      <3>1. CASE a = k
        <4>1. aW = kW
          BY <3>1
        <4> HIDE DEF aW, kW
        <4> QED BY <4>1, <1>3
      <3>2. CASE k < a
        <4> HIDE DEF a, k, x
        <4>1. k * W + W <= a * W
          BY <3>2, <1>1, <1>2, <1>3, StepsApart
        <4>2. kW + W <= aW
          BY <4>1
        <4> HIDE DEF aW, kW
        <4> QED BY <4>2, <1>1, <1>2, <1>3
      <3> HIDE DEF a, k
      <3> QED BY <3>1, <3>2, <1>2, <1>3
    <2> HIDE DEF aW, kW, x, a, k
    <2> QED BY <2>1, <1>1, <1>2, <1>3, <1>4
  <1>6. WordsFor(n) = k
    BY DEF WordsFor, W
  <1> HIDE DEF a, k
  <1>7. a \in 0 .. k - 1
    BY <1>2, <1>3, <1>5
  <1> QED BY <1>6, <1>7 DEF a, W

\* The words captured say which rows live.
LEMMA CapturedSays ==
  ASSUME CellsSound, NEW c \in HarvestCells, NEW r \in RowsOf(c)
  PROVE  /\ r \div WordBits \in DOMAIN CapturedWords(c)
         /\ IsLive(CapturedWords(c), r) <=> r \in live[c]
  <1> DEFINE n == InUse(c)
             W == WordBits
             w == r \div W
             old == {x \in live[c] : x \div W = w}
  <1>1. n \in Nat /\ r \in 0 .. n - 1 /\ r \in Nat /\ live[c] \subseteq Nat
    <2>1. n \in Nat
      <3>1. bounds[c] \in Seq(RowKinds)
        BY DEF CellsSound
      <3> QED BY <3>1, LenProperties DEF InUse
    <2> HIDE DEF n
    <2>2. RowsOf(c) = 0 .. n - 1 /\ 0 .. n - 1 \subseteq Nat
      BY <2>1 DEF RowsOf, n
    <2> QED BY <2>1, <2>2 DEF CellsSound
  <1> HIDE DEF n
  <1>2. w \in 0 .. WordsFor(n) - 1
    BY <1>1, WordOfRow
  <1>3. /\ DOMAIN CapturedWords(c) = 0 .. WordsFor(n) - 1
        /\ CapturedWords(c)[w] = {(x % W) : x \in old}
    BY <1>2 DEF CapturedWords, n
  <1>4. \A x \in old : x % W = r % W => x = r
    <2> TAKE x \in old
    <2>1. x \in Nat /\ x \div W = w /\ W \in Nat \ {0}
      BY <1>1, HarvestAssumption
    <2> HIDE DEF old, W, w
    <2>2. x = (x \div W) * W + (x % W)
      BY <2>1, DivMod
    <2>3. r = w * W + (r % W)
      BY <2>1, <1>1, DivMod DEF w
    <2> QED BY <2>1, <2>2, <2>3
  <1>5. r % W \in {(x % W) : x \in old} <=> r \in live[c]
    <2>1. r \in live[c] => r \in old
      OBVIOUS
    <2>2. r \in old => r \in live[c]
      OBVIOUS
    <2> HIDE DEF old
    <2> QED BY <1>4, <2>1, <2>2
  <1> QED BY <1>2, <1>3, <1>5 DEF IsLive

\* A row's box is one.
LEMMA BoxSound ==
  ASSUME CellsSound, NEW c \in HarvestCells
  PROVE  /\ InUse(c) \in Nat /\ RowsOf(c) = 0 .. InUse(c) - 1
         /\ \A r \in RowsOf(c) : IsBox(BoxOf(c, r))
  <1>1. bounds[c] \in Seq(RowKinds)
    BY DEF CellsSound
  <1>2. InUse(c) \in Nat /\ bounds[c] \in [1 .. InUse(c) -> RowKinds]
    BY <1>1, LenProperties DEF InUse
  <1>3. \A r \in RowsOf(c) : r + 1 \in 1 .. InUse(c)
    BY <1>2 DEF RowsOf
  <1>4. \A r \in RowsOf(c) : bounds[c][r + 1] \in RowKinds
    BY <1>2, <1>3
  <1> QED BY <1>2, <1>4, HarvestAssumption DEF IsBox, BoxOf, RowsOf

\* What the query of a cell answers in each row.
LEMMA TokensSay ==
  ASSUME CellsSound, NEW c \in HarvestCells, NEW view \in Views, NEW words,
         NEW lanes \in LaneCounts
  PROVE  LET tokens == TokensOf(c, view, words, lanes)
         IN /\ tokens = [i \in 1 .. InUse(c) |-> tokens[i]]
            /\ \A r \in RowsOf(c) : tokens[r + 1] \in {r, NullRow}
            /\ \A r \in RowsOf(c) : Ordered(view, BoxOf(c, r)) =>
                 (tokens[r + 1] = r <=> IsLive(words, r) /\ InTail(view, BoxOf(c, r)))
  <1> DEFINE tokens == TokensOf(c, view, words, lanes)
             hits == HitsOf(c, view, words, lanes)
             n == InUse(c)
  <1>1. /\ n \in Nat /\ RowsOf(c) = 0 .. n - 1
        /\ \A r \in RowsOf(c) : IsBox(BoxOf(c, r))
    BY BoxSound
  <1>2. \A r \in RowsOf(c) : Ordered(view, BoxOf(c, r)) =>
           (r \in hits <=> IsLive(words, r) /\ InTail(view, BoxOf(c, r)))
    BY <1>1, HitsAre
  <1> HIDE DEF hits, n
  <1>3. tokens = [i \in 1 .. n |-> IF i - 1 \in hits THEN i - 1 ELSE NullRow]
    BY DEF TokensOf, hits, n
  <1>4. \A r \in RowsOf(c) : tokens[r + 1] = IF r \in hits THEN r ELSE NullRow
    <2> HIDE DEF tokens
    <2> TAKE r \in RowsOf(c)
    <2>1. r + 1 \in 1 .. n /\ (r + 1) - 1 = r
      BY <1>1
    <2> QED BY <2>1, <1>3
  <1>5. \A r \in RowsOf(c) : r # NullRow
    BY <1>1 DEF NullRow
  <1>6. tokens = [i \in 1 .. n |-> tokens[i]]
    <2> HIDE DEF tokens
    <2> QED BY <1>3
  <1> HIDE DEF tokens
  <1>7. \A r \in RowsOf(c) : tokens[r + 1] \in {r, NullRow}
    BY <1>4
  <1>8. \A r \in RowsOf(c) : tokens[r + 1] = r <=> r \in hits
    BY <1>4, <1>5
  <1> QED BY <1>2, <1>6, <1>7, <1>8 DEF tokens, n

\* Staging has its five columns, and holds nothing outside of a harvest.
StagingSound ==
  /\ staging = [tokens |-> staging.tokens, gens |-> staging.gens, remap |-> staging.remap,
                valid |-> staging.valid, total |-> staging.total]
  /\ routed \in Seq(HarvestCells \X Views)
  /\ ~scanning => staging = EmptyStaging /\ routed = <<>>

\* A run is of rows of its cell.
RunSound ==
  run # NoRun =>
    /\ run = [cell |-> run.cell, view |-> run.view, words |-> run.words, tokens |-> run.tokens]
    /\ run.cell \in HarvestCells /\ run.view \in Views
    /\ DOMAIN run.tokens \subseteq 1 .. InUse(run.cell)

HarvestInv == CellsSound /\ StagingSound /\ RunSound /\ StagedExact /\ RunsHonest

\* The rows a query must give, as a list.
LEMMA VisibleListed ==
  ASSUME CellsSound, NEW c \in HarvestCells, NEW view \in Views
  PROVE  LET P == Packed(Visible(c, view))
         IN /\ P \in Seq(Int) /\ Len(P) \in Nat /\ DOMAIN P = 1 .. Len(P)
            /\ \A k \in 1 .. Len(P) : P[k] \in Int /\ P[k] \in RowsOf(c) /\ P[k] \in Visible(c, view)
  <1> DEFINE M == Visible(c, view)
             P == Packed(M)
             n == InUse(c)
  <1>1. n \in Nat /\ RowsOf(c) = 0 .. n - 1 /\ live[c] \subseteq RowsOf(c)
    BY BoxSound DEF CellsSound
  <1> HIDE DEF n
  <1>2. M \in SUBSET RowsOf(c)
    BY <1>1 DEF Visible
  <1> HIDE DEF M
  <1>3. M \in SUBSET Int /\ IsFiniteSet(M) /\ RowsOf(c) \subseteq Int
    <2>1. 0 \in Int /\ n - 1 \in Int
      BY <1>1
    <2>2. IsFiniteSet(0 .. n - 1)
      BY <2>1, FS_Interval
    <2> QED BY <1>1, <1>2, <2>2, FS_Subset
  <1>4. Lists(P, M)
    BY <1>3, PackedLists
  <1> HIDE DEF P
  <1>5. P \in Seq(Int) /\ Len(P) = Cardinality(M) /\ Cardinality(M) \in Nat
    BY <1>4, ListIsSeq
  <1>6. DOMAIN P = 1 .. Len(P)
    BY <1>5, LenProperties
  <1>7. \A k \in 1 .. Len(P) : P[k] \in M
    BY <1>4, <1>5 DEF Lists
  <1> QED BY <1>2, <1>3, <1>5, <1>6, <1>7 DEF P, M

\* What a harvest picks of a cell's rows are those it must give.
LEMMA PickedAre ==
  ASSUME CellsSound, NEW c \in HarvestCells, NEW view \in Views, NEW lanes \in LaneCounts,
         \A r \in RowsOf(c) : Ordered(view, BoxOf(c, r))
  PROVE  LET tokens == TokensOf(c, view, CapturedWords(c), lanes)
         IN /\ CompressedRun(tokens, lanes) = Packed(Visible(c, view))
            /\ \A r \in Visible(c, view) : tokens[r + 1] = r
  <1> DEFINE tokens == TokensOf(c, view, CapturedWords(c), lanes)
             n == InUse(c)
             hits == {i \in 0 .. n - 1 : tokens[i + 1] # NullRow}
  <1>1. n \in Nat /\ RowsOf(c) = 0 .. n - 1 /\ live[c] \subseteq RowsOf(c)
    BY BoxSound DEF CellsSound
  <1>2. /\ tokens = [i \in 1 .. n |-> tokens[i]]
        /\ \A r \in RowsOf(c) : tokens[r + 1] \in {r, NullRow}
        /\ \A r \in RowsOf(c) : tokens[r + 1] = r
             <=> IsLive(CapturedWords(c), r) /\ InTail(view, BoxOf(c, r))
    <2> DEFINE words == CapturedWords(c)
    <2> HIDE DEF words
    <2>1. LET toks == TokensOf(c, view, words, lanes)
          IN /\ toks = [i \in 1 .. n |-> toks[i]]
             /\ \A r \in RowsOf(c) : toks[r + 1] \in {r, NullRow}
             /\ \A r \in RowsOf(c) : Ordered(view, BoxOf(c, r)) =>
                 (toks[r + 1] = r <=> IsLive(words, r) /\ InTail(view, BoxOf(c, r)))
      BY TokensSay
    <2> QED BY <2>1 DEF words
  <1>3. lanes \in Nat \ {0}
    BY HarvestAssumption
  <1> HIDE DEF tokens, n
  <1>4. CompressedRun(tokens, lanes) = Packed(hits)
    BY <1>1, <1>2, <1>3, CompressedIs
  <1>5. \A r \in RowsOf(c) : r # NullRow
    BY <1>1 DEF NullRow
  <1>6. \A r \in RowsOf(c) : tokens[r + 1] = r <=> r \in live[c] /\ InTail(view, BoxOf(c, r))
    BY <1>2, CapturedSays
  <1>7. hits = Visible(c, view)
    <2>1. \A r \in hits : r \in Visible(c, view)
      BY <1>1, <1>2, <1>6 DEF Visible
    <2>2. \A r \in Visible(c, view) : r \in hits
      <3> SUFFICES ASSUME NEW r \in Visible(c, view) PROVE r \in hits
        OBVIOUS
      <3>1. r \in RowsOf(c) /\ r \in live[c] /\ InTail(view, BoxOf(c, r))
        BY <1>1 DEF Visible
      <3>2. tokens[r + 1] # NullRow
        BY <3>1, <1>5, <1>6
      <3> QED BY <3>1, <3>2, <1>1
    <2>3. \A r \in Visible(c, view) : r \in RowsOf(c)
      BY <1>1 DEF Visible
    <2> HIDE DEF hits
    <2> QED BY <2>1, <2>2
  <1>8. \A r \in Visible(c, view) : tokens[r + 1] = r
    BY <1>1, <1>6 DEF Visible
  <1> QED BY <1>4, <1>7, <1>8 DEF tokens

\* Without a harvest there is nothing to be staged.
LEMMA NothingStaged ==
  ASSUME routed = <<>>, staging = EmptyStaging
  PROVE  StagedExact
  <1>1. DOMAIN routed = {} /\ FlattenSeq(<<>>) = <<>>
    BY DEF FlattenSeq
  <1> DEFINE rowsOf(i) == Packed(Visible(routed[i][1], routed[i][2]))
             tokensOf(i) == [k \in DOMAIN rowsOf(i) |-> RegionBase[routed[i][1]] + rowsOf(i)[k]]
             gensOf(i) == [k \in DOMAIN rowsOf(i) |-> bounds[routed[i][1]][rowsOf(i)[k] + 1].gen]
  <1> HIDE DEF tokensOf, gensOf
  <1>2. [i \in DOMAIN routed |-> tokensOf(i)] = <<>> /\ [i \in DOMAIN routed |-> gensOf(i)] = <<>>
    OBVIOUS
  <1>3. staging.tokens = <<>> /\ staging.gens = <<>> /\ staging.valid = Len(staging.tokens)
    BY DEF EmptyStaging
  <1> QED BY <1>1, <1>2, <1>3 DEF StagedExact, tokensOf, gensOf

\* Nor is there after a step that leaves none.
LEMMA NothingStagedNext ==
  ASSUME routed' = <<>>, staging' = EmptyStaging
  PROVE  StagedExact'
  <1>1. DOMAIN routed' = {} /\ FlattenSeq(<<>>) = <<>>
    BY DEF FlattenSeq
  <1> DEFINE rowsOf(i) == Packed(Visible(routed[i][1], routed[i][2]))
             tokensOf(i) == [k \in DOMAIN rowsOf(i) |-> RegionBase[routed[i][1]] + rowsOf(i)[k]]
             gensOf(i) == [k \in DOMAIN rowsOf(i) |-> bounds[routed[i][1]][rowsOf(i)[k] + 1].gen]
             T == [i \in DOMAIN routed |-> tokensOf(i)]
             G == [i \in DOMAIN routed |-> gensOf(i)]
  <1>2. T' = <<>> /\ G' = <<>>
    <2>1. T' = [i \in DOMAIN routed' |-> (tokensOf(i))'] /\ G' = [i \in DOMAIN routed' |-> (gensOf(i))']
      OBVIOUS
    <2> QED BY <2>1
  <1>3. /\ (staging.tokens)' = <<>> /\ (staging.gens)' = <<>>
        /\ (staging.valid)' = Len((staging.tokens)')
    BY DEF EmptyStaging
  <1> QED BY <1>1, <1>2, <1>3 DEF StagedExact

\* A harvest appends to staging what it must hold of one more cell.
LEMMA HarvestCellKeeps ==
  ASSUME CellsSound, StagingSound, StagedExact,
         NEW c \in HarvestCells, NEW view \in Views, NEW lanes \in LaneCounts,
         HarvestCell(c, view, lanes)
  PROVE  StagedExact'
  <1> DEFINE n == Len(routed)
             rows(i) == Packed(Visible(routed[i][1], routed[i][2]))
             toks(i) == [k \in DOMAIN rows(i) |-> RegionBase[routed[i][1]] + rows(i)[k]]
             gns(i) == [k \in DOMAIN rows(i) |-> bounds[routed[i][1]][rows(i)[k] + 1].gen]
             ordered == \A i \in DOMAIN routed : \A r \in RowsOf(routed[i][1]) :
                          Ordered(routed[i][2], BoxOf(routed[i][1], r))
             sT == [i \in DOMAIN routed |-> toks(i)]
             sG == [i \in DOMAIN routed |-> gns(i)]
             P == Packed(Visible(c, view))
             newT == [k \in DOMAIN P |-> RegionBase[c] + P[k]]
             newG == [k \in DOMAIN P |-> bounds[c][P[k] + 1].gen]
             tT == [i \in 1 .. n + 1 |-> IF i = n + 1 THEN newT ELSE toks(i)]
             tG == [i \in 1 .. n + 1 |-> IF i = n + 1 THEN newG ELSE gns(i)]
             VT == {RegionBase[d] + x : d \in HarvestCells, x \in Int}
             VG == {bounds[d][x + 1].gen : d \in HarvestCells, x \in Int}
  <1>1. UNCHANGED <<bounds, live, scanning, run>> /\ routed' = Append(routed, <<c, view>>)
    BY DEF HarvestCell
  <1>2. /\ n \in Nat /\ DOMAIN routed = 1 .. n /\ DOMAIN routed' = 1 .. n + 1
        /\ \A i \in 1 .. n : routed'[i] = routed[i]
        /\ routed'[n + 1] = <<c, view>>
        /\ \A i \in 1 .. n : routed[i][1] \in HarvestCells /\ routed[i][2] \in Views
    <2>1. routed \in Seq(HarvestCells \X Views) /\ <<c, view>> \in HarvestCells \X Views
      BY DEF StagingSound
    <2>2. n \in Nat /\ DOMAIN routed = 1 .. n
      BY <2>1, LenProperties
    <2>3. \A i \in 1 .. n : routed[i] \in HarvestCells \X Views
      BY <2>1, <2>2, ElementOfSeq
    <2>4. \A i \in 1 .. n : routed[i][1] \in HarvestCells /\ routed[i][2] \in Views
      BY <2>3
    <2>5. /\ routed' \in Seq(HarvestCells \X Views) /\ Len(routed') = n + 1
          /\ \A i \in 1 .. n : routed'[i] = routed[i]
          /\ routed'[n + 1] = <<c, view>>
      BY <1>1, <2>1, AppendProperties
    <2>6. DOMAIN routed' = 1 .. n + 1
      BY <2>5, LenProperties
    <2> QED BY <2>2, <2>4, <2>5, <2>6
  <1> HIDE DEF n
  <1>3. SUFFICES ASSUME ordered'
                 PROVE  /\ staging'.tokens = FlattenSeq(sT') /\ staging'.gens = FlattenSeq(sG')
                        /\ staging'.valid = Len(staging'.tokens)
    BY DEF StagedExact
  <1>4. ordered /\ \A r \in RowsOf(c) : Ordered(view, BoxOf(c, r))
    <2>1. \A i \in 1 .. n + 1 : \A r \in RowsOf(routed'[i][1]) :
             Ordered(routed'[i][2], BoxOf(routed'[i][1], r))
      BY <1>1, <1>2, <1>3 DEF RowsOf, BoxOf, InUse, Ordered
    <2>2. n + 1 \in 1 .. n + 1 /\ \A i \in 1 .. n : i \in 1 .. n + 1
      BY <1>2
    <2>3. ordered
      BY <1>2, <2>1, <2>2
    <2>4. <<c, view>>[1] = c /\ <<c, view>>[2] = view
      OBVIOUS
    <2>5. \A r \in RowsOf(routed'[n + 1][1]) :
             Ordered(routed'[n + 1][2], BoxOf(routed'[n + 1][1], r))
      BY <2>1, <2>2
    <2>6. \A r \in RowsOf(c) : Ordered(view, BoxOf(c, r))
      BY <1>2, <2>4, <2>5
    <2> QED BY <2>3, <2>6
  <1>5. /\ staging.tokens = FlattenSeq(sT) /\ staging.gens = FlattenSeq(sG)
        /\ staging.valid = Len(staging.tokens)
    <2> HIDE DEF ordered
    <2> QED BY <1>4 DEF StagedExact, ordered
  <1> HIDE DEF ordered
  <1>6. sT' = tT /\ sG' = tG
    <2>1. \A d \in HarvestCells, v \in Views : Visible(d, v)' = Visible(d, v)
      BY <1>1 DEF Visible, BoxOf
    <2> DEFINE rows1(i) == Packed(Visible(routed'[i][1], routed'[i][2]))
               toks1(i) == [k \in DOMAIN rows1(i) |-> RegionBase[routed'[i][1]] + rows1(i)[k]]
               gns1(i) == [k \in DOMAIN rows1(i) |-> bounds[routed'[i][1]][rows1(i)[k] + 1].gen]
    <2>2. sT' = [i \in DOMAIN routed' |-> toks1(i)] /\ sG' = [i \in DOMAIN routed' |-> gns1(i)]
      BY <1>1 DEF Visible, BoxOf
    <2>3. \A i \in 1 .. n : toks1(i) = toks(i) /\ gns1(i) = gns(i)
      <3> TAKE i \in 1 .. n
      <3> DEFINE x == routed'[i]
                 y == routed[i]
      <3>1. x = y
        BY <1>2
      <3> HIDE DEF x, y
      <3> QED BY <3>1 DEF x, y
    <2>4. toks1(n + 1) = newT /\ gns1(n + 1) = newG
      <3> DEFINE x == routed'[n + 1]
      <3>1. x[1] = c /\ x[2] = view
        BY <1>2
      <3> HIDE DEF x
      <3> QED BY <3>1 DEF x
    <2> HIDE DEF toks1, gns1, newT, newG, toks, gns
    <2>5. \A i \in 1 .. n + 1 : i = n + 1 \/ i \in 1 .. n
      BY <1>2
    <2>6. [i \in 1 .. n + 1 |-> toks1(i)] = tT /\ [i \in 1 .. n + 1 |-> gns1(i)] = tG
      BY <2>3, <2>4, <2>5
    <2> QED BY <1>2, <2>2, <2>6
  <1>7. /\ CompressedRun(TokensOf(c, view, CapturedWords(c), lanes), lanes) = P
        /\ \A r \in Visible(c, view) : TokensOf(c, view, CapturedWords(c), lanes)[r + 1] = r
    BY <1>4, PickedAre
  <1>8. /\ P \in Seq(Int) /\ Len(P) \in Nat /\ DOMAIN P = 1 .. Len(P)
        /\ \A k \in 1 .. Len(P) : P[k] \in Int /\ P[k] \in Visible(c, view)
    BY VisibleListed
  <1>9. /\ staging'.tokens = staging.tokens \o newT
        /\ staging'.gens = staging.gens \o newG
        /\ staging'.valid = staging.valid + Len(P)
    <2> DEFINE tokens == TokensOf(c, view, CapturedWords(c), lanes)
               picked == CompressedRun(tokens, lanes)
    <2>1. /\ staging'.tokens = staging.tokens \o [k \in DOMAIN picked |-> RegionBase[c] + tokens[picked[k] + 1]]
          /\ staging'.gens = staging.gens \o [k \in DOMAIN picked |-> bounds[c][picked[k] + 1].gen]
          /\ staging'.valid = staging.valid + Len(picked)
      BY DEF HarvestCell
    <2>2. picked = P
      BY <1>7
    <2>3. \A k \in DOMAIN P : tokens[P[k] + 1] = P[k]
      BY <1>7, <1>8
    <2> HIDE DEF tokens, picked, P
    <2> QED BY <2>1, <2>2, <2>3
  <1>10. newT \in Seq(VT) /\ newG \in Seq(VG) /\ Len(newT) = Len(P)
    <2>1. \A k \in 1 .. Len(P) : RegionBase[c] + P[k] \in VT /\ bounds[c][P[k] + 1].gen \in VG
      BY <1>8
    <2> DEFINE m == Len(P)
               f(k) == RegionBase[c] + P[k]
               g(k) == bounds[c][P[k] + 1].gen
    <2>2. m \in Nat /\ \A k \in 1 .. m : f(k) \in VT /\ g(k) \in VG
      BY <1>8, <2>1
    <2>3. newT = [k \in 1 .. m |-> f(k)] /\ newG = [k \in 1 .. m |-> g(k)]
      BY <1>8
    <2> HIDE DEF f, g, VT, VG, m
    <2>4. [k \in 1 .. m |-> f(k)] \in Seq(VT)
      BY <2>2, IsASeq
    <2>5. [k \in 1 .. m |-> g(k)] \in Seq(VG)
      BY <2>2, IsASeq
    <2>6. Len([k \in 1 .. m |-> f(k)]) = m
      BY <2>2, <2>4, LenProperties
    <2> HIDE DEF newT, newG
    <2> QED BY <2>3, <2>4, <2>5, <2>6 DEF m
  <1>11. \A i \in 1 .. n : toks(i) \in Seq(VT) /\ gns(i) \in Seq(VG)
    <2>1. ASSUME NEW i \in 1 .. n
          PROVE  toks(i) \in Seq(VT) /\ gns(i) \in Seq(VG)
      <3> DEFINE d == routed[i][1]
                 v == routed[i][2]
                 Q == Packed(Visible(d, v))
                 m == Len(Q)
                 f(k) == RegionBase[d] + Q[k]
                 g(k) == bounds[d][Q[k] + 1].gen
      <3>1. d \in HarvestCells /\ v \in Views
        BY <1>2
      <3> HIDE DEF d, v
      <3>2. m \in Nat /\ DOMAIN Q = 1 .. m /\ \A k \in 1 .. m : Q[k] \in Int
        BY <3>1, VisibleListed
      <3> HIDE DEF Q, m
      <3>3. \A k \in 1 .. m : f(k) \in VT /\ g(k) \in VG
        BY <3>1, <3>2
      <3> HIDE DEF f, g, VT, VG
      <3>4. [k \in 1 .. m |-> f(k)] \in Seq(VT)
        BY <3>2, <3>3, IsASeq
      <3>5. [k \in 1 .. m |-> g(k)] \in Seq(VG)
        BY <3>2, <3>3, IsASeq
      <3>6. toks(i) = [k \in 1 .. m |-> f(k)] /\ gns(i) = [k \in 1 .. m |-> g(k)]
        BY <3>2 DEF d, v, Q, f, g
      <3> HIDE DEF toks, gns
      <3> QED BY <3>4, <3>5, <3>6
    <2> HIDE DEF toks, gns, VT, VG
    <2> QED BY <2>1
  <1> HIDE DEF toks, gns, newT, newG, VT, VG, P
  <1>12. OneMore(sT, tT, n, VT) /\ OneMore(sG, tG, n, VG)
    <2>1. \A i \in 1 .. n + 1 : tT[i] \in Seq(VT) /\ tG[i] \in Seq(VG)
      BY <1>2, <1>10, <1>11
    <2>2. \A i \in 1 .. n : tT[i] = sT[i] /\ tG[i] = sG[i] /\ sT[i] \in Seq(VT) /\ sG[i] \in Seq(VG)
      BY <1>2, <1>11
    <2>3. sT \in Seq(Seq(VT)) /\ sG \in Seq(Seq(VG))
      <3> DEFINE AT == Seq(VT)
                 AG == Seq(VG)
      <3>1. \A i \in 1 .. n : toks(i) \in AT /\ gns(i) \in AG
        BY <1>11
      <3> HIDE DEF AT, AG
      <3>2. [i \in 1 .. n |-> toks(i)] \in Seq(AT)
        BY <1>2, <3>1, IsASeq
      <3>3. [i \in 1 .. n |-> gns(i)] \in Seq(AG)
        BY <1>2, <3>1, IsASeq
      <3> QED BY <1>2, <3>2, <3>3 DEF AT, AG
    <2>4. tT \in Seq(Seq(VT)) /\ tG \in Seq(Seq(VG))
      <3> DEFINE AT == Seq(VT)
                 AG == Seq(VG)
                 m == n + 1
                 f(i) == IF i = n + 1 THEN newT ELSE toks(i)
                 g(i) == IF i = n + 1 THEN newG ELSE gns(i)
      <3>1. m \in Nat /\ \A i \in 1 .. m : f(i) \in AT /\ g(i) \in AG
        BY <1>2, <1>10, <1>11
      <3> HIDE DEF AT, AG, m, f, g
      <3>2. [i \in 1 .. m |-> f(i)] \in Seq(AT)
        BY <3>1, IsASeq
      <3>3. [i \in 1 .. m |-> g(i)] \in Seq(AG)
        BY <3>1, IsASeq
      <3> QED BY <3>2, <3>3 DEF AT, AG, m, f, g
    <2>5. Len(sT) = n /\ Len(sG) = n /\ Len(tT) = n + 1 /\ Len(tG) = n + 1
      <3>1. DOMAIN sT = 1 .. n /\ DOMAIN sG = 1 .. n /\ DOMAIN tT = 1 .. n + 1 /\ DOMAIN tG = 1 .. n + 1
        BY <1>2
      <3> HIDE DEF sT, sG, tT, tG
      <3> QED BY <1>2, <2>3, <2>4, <3>1, LenProperties
    <2>6. n = 0 => sT = <<>> /\ sG = <<>>
      BY <1>2
    <2> HIDE DEF sT, sG, tT, tG
    <2> QED BY <2>1, <2>2, <2>5, <2>6 DEF OneMore
  <1>13. tT[n + 1] = newT /\ tG[n + 1] = newG
    BY <1>2
  <1> HIDE DEF sT, sG, tT, tG
  <1>14. FlattenSeq(tT) = FlattenSeq(sT) \o newT /\ FlattenSeq(sT) \in Seq(VT)
    BY <1>2, <1>12, <1>13, FlattenGrows
  <1>15. FlattenSeq(tG) = FlattenSeq(sG) \o newG
    BY <1>2, <1>12, <1>13, FlattenGrows
  <1>16. Len(staging'.tokens) = Len(staging.tokens) + Len(newT)
    <2> DEFINE x == FlattenSeq(sT)
               y == newT
    <2>1. x \in Seq(VT) /\ y \in Seq(VT)
      BY <1>10, <1>14
    <2> HIDE DEF x, y
    <2>2. Len(x \o y) = Len(x) + Len(y)
      BY <2>1, ConcatProperties
    <2>3. staging'.tokens = x \o y /\ staging.tokens = x
      BY <1>5, <1>9 DEF x, y
    <2> QED BY <2>2, <2>3 DEF y
  <1> QED BY <1>5, <1>6, <1>9, <1>10, <1>14, <1>15, <1>16

\* A query of live rows finds what the view shows of them.
LEMMA HolderQueryKeeps ==
  ASSUME HarvestInv, NEW c \in HarvestCells, NEW view \in Views, NEW lanes \in LaneCounts,
         HolderQuery(c, view, lanes)
  PROVE  RunSound' /\ RunsHonest'
  <1> DEFINE words == CapturedWords(c)
             tokens == TokensOf(c, view, words, lanes)
             n == InUse(c)
  <1>1. /\ UNCHANGED <<bounds, live>>
        /\ run' = [cell |-> c, view |-> view, words |-> words, tokens |-> tokens]
    BY DEF HolderQuery
  <1>2. n \in Nat /\ RowsOf(c) = 0 .. n - 1 /\ CellsSound
    BY BoxSound DEF HarvestInv
  <1>3. \A r \in RowsOf(c) : r \div WordBits \in DOMAIN words /\ (IsLive(words, r) <=> r \in live[c])
    BY <1>2, CapturedSays
  <1> HIDE DEF words
  <1>4. /\ tokens = [i \in 1 .. n |-> tokens[i]]
        /\ \A r \in RowsOf(c) : tokens[r + 1] \in {r, NullRow}
        /\ \A r \in RowsOf(c) : Ordered(view, BoxOf(c, r)) =>
             (tokens[r + 1] = r <=> IsLive(words, r) /\ InTail(view, BoxOf(c, r)))
    BY <1>2, TokensSay
  <1> HIDE DEF tokens, n
  <1>5. /\ (run.cell)' = c /\ (run.view)' = view /\ (run.words)' = words /\ (run.tokens)' = tokens
        /\ InUse(c)' = n /\ \A r : BoxOf(c, r)' = BoxOf(c, r)
    BY <1>1 DEF InUse, BoxOf, n
  <1>6. DOMAIN tokens = 1 .. n
    BY <1>4
  <1>7. RunSound'
    BY <1>1, <1>5, <1>6 DEF RunSound, InUse, n
  <1>8. RunsHonest'
    <2> SUFFICES ASSUME NEW i \in 1 .. n, NEW r, r = i - 1, Ordered(view, BoxOf(c, r))
                 PROVE  LET covered == r \div WordBits \in DOMAIN words /\ IsLive(words, r)
                        IN /\ tokens[i] # NullRow =>
                                tokens[i] = r /\ covered /\ InTail(view, BoxOf(c, r))
                           /\ (r \in live[c] /\ covered /\ InTail(view, BoxOf(c, r))) =>
                                tokens[i] = r
      BY <1>1, <1>5, <1>6 DEF RunsHonest, BoxOf
    <2>1. r \in RowsOf(c) /\ i = r + 1
      BY <1>2
    <2> QED BY <2>1, <1>3, <1>4
  <1> QED BY <1>7, <1>8

\* So does one with older words, of the rows that they say live.
LEMMA HolderQueryAgainKeeps ==
  ASSUME HarvestInv, NEW view \in Views, NEW lanes \in LaneCounts,
         HolderQueryAgain(view, lanes)
  PROVE  RunSound' /\ RunsHonest'
  <1>0. PICK c, words, view0, tokens0 :
           c = run.cell /\ words = run.words /\ view0 = run.view /\ tokens0 = run.tokens
    OBVIOUS
  <1> DEFINE tokens == TokensOf(c, view, words, lanes)
             n == InUse(c)
  <1>1. /\ UNCHANGED <<bounds, live>> /\ run # NoRun
        /\ DOMAIN words = 0 .. WordsFor(n) - 1
        /\ run' = [run EXCEPT !.view = view, !.tokens = tokens]
    BY <1>0 DEF HolderQueryAgain
  <1>2. /\ run = [cell |-> c, view |-> view0, words |-> words, tokens |-> tokens0]
        /\ c \in HarvestCells /\ CellsSound
    BY <1>0, <1>1 DEF HarvestInv, RunSound
  <1>3. run' = [cell |-> c, view |-> view, words |-> words, tokens |-> tokens]
    <2> HIDE DEF tokens
    <2> QED BY <1>1, <1>2
  <1>4. n \in Nat /\ RowsOf(c) = 0 .. n - 1
    BY <1>2, BoxSound
  <1>5. /\ tokens = [i \in 1 .. n |-> tokens[i]]
        /\ \A r \in RowsOf(c) : tokens[r + 1] \in {r, NullRow}
        /\ \A r \in RowsOf(c) : Ordered(view, BoxOf(c, r)) =>
             (tokens[r + 1] = r <=> IsLive(words, r) /\ InTail(view, BoxOf(c, r)))
    BY <1>2, TokensSay
  <1> HIDE DEF tokens, n
  <1>6. \A r \in RowsOf(c) : r \div WordBits \in DOMAIN words
    BY <1>1, <1>4, WordOfRow
  <1>7. /\ (run.cell)' = c /\ (run.view)' = view /\ (run.words)' = words /\ (run.tokens)' = tokens
        /\ InUse(c)' = n /\ \A r : BoxOf(c, r)' = BoxOf(c, r)
    <2>1. (run.cell)' = c /\ (run.view)' = view /\ (run.words)' = words /\ (run.tokens)' = tokens
      BY <1>3
    <2>2. InUse(c)' = n
      BY <1>1 DEF InUse, n
    <2>3. \A r : BoxOf(c, r)' = BoxOf(c, r)
      BY <1>1 DEF BoxOf
    <2> QED BY <2>1, <2>2, <2>3
  <1>8. DOMAIN tokens = 1 .. n
    BY <1>5
  <1>9. RunSound'
    BY <1>1, <1>2, <1>3, <1>7, <1>8 DEF RunSound, InUse, n
  <1>10. RunsHonest'
    <2> SUFFICES ASSUME NEW i \in 1 .. n, NEW r, r = i - 1, Ordered(view, BoxOf(c, r))
                 PROVE  LET covered == r \div WordBits \in DOMAIN words /\ IsLive(words, r)
                        IN /\ tokens[i] # NullRow =>
                                tokens[i] = r /\ covered /\ InTail(view, BoxOf(c, r))
                           /\ (r \in live[c] /\ covered /\ InTail(view, BoxOf(c, r))) =>
                                tokens[i] = r
      <3>1. UNCHANGED <<bounds, live>>
        BY <1>1
      <3> QED BY <3>1, <1>7, <1>8 DEF RunsHonest, BoxOf
    <2>1. r \in RowsOf(c) /\ i = r + 1
      BY <1>4
    <2> QED BY <2>1, <1>5, <1>6
  <1> QED BY <1>9, <1>10

\* A run loses only dead rows when it is revalidated.
LEMMA RevalidateKeeps ==
  ASSUME HarvestInv, Revalidate
  PROVE  RunSound' /\ RunsHonest'
  <1>0. PICK c, view, words, old :
           c = run.cell /\ view = run.view /\ words = run.words /\ old = run.tokens
    OBVIOUS
  <1> DEFINE tokens == [i \in DOMAIN old |-> IF old[i] \in live[c] THEN old[i] ELSE NullRow]
  <1>1. /\ UNCHANGED <<bounds, live>> /\ run # NoRun
        /\ run' = [run EXCEPT !.tokens = tokens]
    BY <1>0 DEF Revalidate
  <1>2. /\ run = [cell |-> c, view |-> view, words |-> words, tokens |-> old]
        /\ c \in HarvestCells /\ view \in Views /\ DOMAIN old \subseteq 1 .. InUse(c)
    BY <1>0, <1>1 DEF HarvestInv, RunSound
  <1>3. run' = [cell |-> c, view |-> view, words |-> words, tokens |-> tokens]
    <2> HIDE DEF tokens
    <2> QED BY <1>1, <1>2
  <1>4. \A i \in DOMAIN old :
           LET r == i - 1
               covered == r \div WordBits \in DOMAIN words /\ IsLive(words, r)
           IN Ordered(view, BoxOf(c, r)) =>
                /\ old[i] # NullRow => old[i] = r /\ covered /\ InTail(view, BoxOf(c, r))
                /\ (r \in live[c] /\ covered /\ InTail(view, BoxOf(c, r))) => old[i] = r
    BY <1>0, <1>1 DEF HarvestInv, RunsHonest
  <1>5. /\ (run.cell)' = c /\ (run.view)' = view /\ (run.words)' = words /\ (run.tokens)' = tokens
        /\ InUse(c)' = InUse(c) /\ \A r : BoxOf(c, r)' = BoxOf(c, r)
    BY <1>1, <1>3 DEF InUse, BoxOf
  <1>6. DOMAIN tokens = DOMAIN old
    OBVIOUS
  <1>7. RunSound'
    BY <1>1, <1>2, <1>3, <1>5, <1>6 DEF RunSound, InUse
  <1>8. RunsHonest'
    <2> SUFFICES ASSUME NEW i \in DOMAIN old, NEW r, r = i - 1, Ordered(view, BoxOf(c, r))
                 PROVE  LET covered == r \div WordBits \in DOMAIN words /\ IsLive(words, r)
                        IN /\ tokens[i] # NullRow =>
                                tokens[i] = r /\ covered /\ InTail(view, BoxOf(c, r))
                           /\ (r \in live[c] /\ covered /\ InTail(view, BoxOf(c, r))) =>
                                tokens[i] = r
      BY <1>1, <1>5, <1>6 DEF RunsHonest, BoxOf
    <2> DEFINE covered == r \div WordBits \in DOMAIN words /\ IsLive(words, r)
               tail == InTail(view, BoxOf(c, r))
    <2>1. /\ old[i] # NullRow => old[i] = r /\ covered /\ tail
          /\ (r \in live[c] /\ covered /\ tail) => old[i] = r
      BY <1>4
    <2>2. tokens[i] = IF old[i] \in live[c] THEN old[i] ELSE NullRow
      OBVIOUS
    <2> HIDE DEF covered, tail, tokens
    <2>3. tokens[i] # NullRow => tokens[i] = r /\ covered /\ tail
      BY <2>1, <2>2
    <2>4. (r \in live[c] /\ covered /\ tail) => tokens[i] = r
      BY <2>1, <2>2
    <2> QED BY <2>3, <2>4 DEF covered, tail
  <1> QED BY <1>7, <1>8

\* A row more, or one that lives no more, leaves the run what it was.
LEMMA RowsKeep ==
  ASSUME HarvestInv, NEW c \in HarvestCells,
         (\E kind \in RowKinds : AllocRow(c, kind)) \/ (\E r \in RowsOf(c) : Die(c, r))
  PROVE  HarvestInv'
  <1> USE DEF HarvestInv
  <1>0. UNCHANGED <<staging, routed, scanning, run>> /\ ~scanning
    BY DEF AllocRow, Die
  <1>1. staging' = EmptyStaging /\ routed' = <<>>
    BY <1>0 DEF StagingSound
  <1>2. StagingSound' /\ StagedExact'
    BY <1>0, <1>1, NothingStagedNext DEF StagingSound, EmptyStaging
  <1>3. /\ CellsSound'
        /\ \A d \in HarvestCells : /\ InUse(d) \in Nat /\ InUse(d)' \in Nat /\ InUse(d) <= InUse(d)'
                                   /\ \A r \in RowsOf(d) : /\ BoxOf(d, r)' = BoxOf(d, r)
                                                           /\ r \in live'[d] => r \in live[d]
    <2>0. \A d \in HarvestCells : /\ InUse(d) \in Nat /\ RowsOf(d) = 0 .. InUse(d) - 1
                                  /\ bounds[d] \in Seq(RowKinds) /\ live[d] \subseteq RowsOf(d)
      BY BoxSound DEF CellsSound
    <2>1. CASE \E kind \in RowKinds : AllocRow(c, kind)
      <3>1. PICK kind \in RowKinds :
               /\ bounds' = [bounds EXCEPT ![c] = Append(@, kind)]
               /\ live' = [live EXCEPT ![c] = @ \union {InUse(c)}]
        BY <2>1 DEF AllocRow
      <3>2. /\ bounds'[c] = Append(bounds[c], kind) /\ live'[c] = live[c] \union {InUse(c)}
            /\ \A d \in HarvestCells : d # c => bounds'[d] = bounds[d] /\ live'[d] = live[d]
            /\ bounds' = [d \in HarvestCells |-> bounds'[d]] /\ live' = [d \in HarvestCells |-> live'[d]]
        BY <3>1 DEF CellsSound
      <3>3. /\ bounds'[c] \in Seq(RowKinds) /\ Len(bounds'[c]) = InUse(c) + 1
            /\ \A i \in 1 .. InUse(c) : bounds'[c][i] = bounds[c][i]
        BY <2>0, <3>2, AppendProperties DEF InUse
      <3>4. InUse(c)' = InUse(c) + 1 /\ RowsOf(c)' = 0 .. InUse(c) /\ live'[c] \subseteq RowsOf(c)'
        <4>1. InUse(c)' = InUse(c) + 1
          BY <3>3 DEF InUse
        <4>2. RowsOf(c)' = 0 .. InUse(c)
          BY <4>1, <2>0 DEF RowsOf
        <4> QED BY <4>1, <4>2, <2>0, <3>2
      <3>5. \A r \in RowsOf(c) : BoxOf(c, r)' = BoxOf(c, r) /\ (r \in live'[c] => r \in live[c])
        <4> TAKE r \in RowsOf(c)
        <4>1. r + 1 \in 1 .. InUse(c) /\ r # InUse(c)
          BY <2>0
        <4> QED BY <4>1, <3>2, <3>3 DEF BoxOf
      <3>6. \A d \in HarvestCells : d # c =>
               /\ InUse(d)' = InUse(d) /\ RowsOf(d)' = RowsOf(d)
               /\ \A r \in RowsOf(d) : BoxOf(d, r)' = BoxOf(d, r)
        BY <3>2 DEF InUse, RowsOf, BoxOf
      <3>7. CellsSound'
        <4>1. \A d \in HarvestCells : bounds'[d] \in Seq(RowKinds) /\ live'[d] \subseteq RowsOf(d)'
          BY <2>0, <3>2, <3>3, <3>4, <3>6
        <4> QED BY <3>2, <4>1 DEF CellsSound
      <3> QED BY <2>0, <3>2, <3>4, <3>5, <3>6, <3>7
    <2>2. CASE \E r \in RowsOf(c) : Die(c, r)
      <3>1. PICK x \in RowsOf(c) : bounds' = bounds /\ live' = [live EXCEPT ![c] = @ \ {x}]
        BY <2>2 DEF Die
      <3>2. /\ \A d \in HarvestCells : live'[d] \subseteq live[d]
            /\ live' = [d \in HarvestCells |-> live'[d]]
        BY <3>1 DEF CellsSound
      <3>3. \A d \in HarvestCells : /\ InUse(d)' = InUse(d) /\ RowsOf(d)' = RowsOf(d)
                                    /\ \A r : BoxOf(d, r)' = BoxOf(d, r)
        BY <3>1 DEF InUse, RowsOf, BoxOf
      <3>4. CellsSound'
        <4>1. \A d \in HarvestCells : bounds'[d] \in Seq(RowKinds) /\ live'[d] \subseteq RowsOf(d)'
          BY <2>0, <3>1, <3>2, <3>3
        <4>2. bounds' = [d \in HarvestCells |-> bounds'[d]]
          BY <3>1 DEF CellsSound
        <4> QED BY <3>2, <4>1, <4>2 DEF CellsSound
      <3> QED BY <2>0, <3>2, <3>3, <3>4
    <2> QED BY <2>1, <2>2
  <1>4. RunSound'
    <2> SUFFICES ASSUME run' # NoRun PROVE RunSound'
      BY DEF RunSound
    <2>1. /\ run' = [cell |-> run.cell, view |-> run.view, words |-> run.words, tokens |-> run.tokens]
          /\ run.cell \in HarvestCells /\ run.view \in Views
          /\ DOMAIN run.tokens \subseteq 1 .. InUse(run.cell)
      BY <1>0 DEF RunSound
    <2>2. DOMAIN run.tokens \subseteq 1 .. InUse(run.cell)'
      BY <2>1, <1>3
    <2>3. InUse(run.cell)' = Len(bounds'[run'.cell])
      BY <1>0 DEF InUse
    <2> QED BY <1>0, <2>1, <2>2, <2>3 DEF RunSound, InUse
  <1>5. RunsHonest'
    <2> SUFFICES ASSUME run # NoRun PROVE RunsHonest'
      BY <1>0 DEF RunsHonest
    <2>0. PICK d, view, words, tokens :
             d = run.cell /\ view = run.view /\ words = run.words /\ tokens = run.tokens
      OBVIOUS
    <2>1. d \in HarvestCells /\ DOMAIN tokens \subseteq 1 .. InUse(d)
      BY <2>0 DEF RunSound
    <2>2. \A i \in DOMAIN tokens :
             LET r == i - 1
                 covered == r \div WordBits \in DOMAIN words /\ IsLive(words, r)
             IN Ordered(view, BoxOf(d, r)) =>
                  /\ tokens[i] # NullRow => tokens[i] = r /\ covered /\ InTail(view, BoxOf(d, r))
                  /\ (r \in live[d] /\ covered /\ InTail(view, BoxOf(d, r))) => tokens[i] = r
      BY <2>0 DEF RunsHonest
    <2>3. \A i \in DOMAIN tokens :
             LET r == i - 1
                 covered == r \div WordBits \in DOMAIN words /\ IsLive(words, r)
             IN Ordered(view, BoxOf(d, r)') =>
                  /\ tokens[i] # NullRow => tokens[i] = r /\ covered /\ InTail(view, BoxOf(d, r)')
                  /\ (r \in live'[d] /\ covered /\ InTail(view, BoxOf(d, r)')) => tokens[i] = r
      <3>1. \A i \in DOMAIN tokens : i - 1 \in RowsOf(d)
        BY <2>1, <1>3 DEF RowsOf
      <3>2. \A i \in DOMAIN tokens : /\ BoxOf(d, i - 1)' = BoxOf(d, i - 1)
                                     /\ i - 1 \in live'[d] => i - 1 \in live[d]
        BY <2>1, <3>1, <1>3
      <3> QED BY <2>2, <3>2
    <2>4. \A r : BoxOf(d, r)' = bounds'[d][r + 1].box
      BY DEF BoxOf
    <2> QED BY <1>0, <2>0, <2>3, <2>4 DEF RunsHonest, BoxOf
  <1> QED BY <1>2, <1>3, <1>4, <1>5

\* As many rows are dead below the count of the live as live above it.
LEMMA DeadAndMoved ==
  ASSUME NEW L, NEW m \in Nat, L \subseteq 0 .. m - 1
  PROVE  LET n == Cardinality(L)
             D == {r \in 0 .. n - 1 : r \notin L}
             M == {r \in L : r >= n}
         IN /\ n \in Nat /\ D \in SUBSET Int /\ M \in SUBSET Int /\ IsFiniteSet(D) /\ IsFiniteSet(M)
            /\ Cardinality(D) = Cardinality(M)
  <1> DEFINE n == Cardinality(L)
             I == 0 .. n - 1
             D == {r \in I : r \notin L}
             M == {r \in L : r >= n}
             K == {r \in L : r < n}
  <1>1. IsFiniteSet(L) /\ L \subseteq Nat /\ n \in Nat
    <2>1. 0 \in Int /\ m - 1 \in Int
      OBVIOUS
    <2>2. IsFiniteSet(0 .. m - 1)
      BY <2>1, FS_Interval
    <2>3. IsFiniteSet(L)
      BY <2>2, FS_Subset
    <2>4. 0 .. m - 1 \subseteq Nat
      OBVIOUS
    <2> QED BY <2>3, <2>4, FS_CardinalityType
  <1> HIDE DEF n
  <1>2. IsFiniteSet(I) /\ Cardinality(I) = n
    <2>1. 0 \in Int /\ n - 1 \in Int
      BY <1>1
    <2>2. IsFiniteSet(I) /\ Cardinality(I) = IF 0 > n - 1 THEN 0 ELSE n - 1 - 0 + 1
      BY <2>1, FS_Interval
    <2> HIDE DEF I
    <2>3. (IF 0 > n - 1 THEN 0 ELSE n - 1 - 0 + 1) = n
      BY <1>1
    <2> QED BY <2>2, <2>3
  <1>3. /\ K \cup M = L /\ K \cap M = {} /\ K \cup D = I /\ K \cap D = {}
        /\ K \subseteq L /\ M \subseteq L /\ D \subseteq I /\ D \subseteq Int /\ M \subseteq Int
    <2>1. \A r \in L : r \in Nat /\ r \in Int /\ (r < n \/ r >= n) /\ ~(r < n /\ r >= n)
      BY <1>1
    <2>2. \A r \in L : r < n => r \in I
      BY <1>1
    <2>3. \A r \in I : r \in Int /\ r < n
      BY <1>1
    <2> HIDE DEF I
    <2>4. K \cup M = L /\ K \cap M = {} /\ K \subseteq L /\ M \subseteq L /\ M \subseteq Int
      BY <2>1
    <2>5. K \cup D = I /\ K \cap D = {} /\ D \subseteq I /\ D \subseteq Int
      BY <2>2, <2>3
    <2> QED BY <2>4, <2>5
  <1> HIDE DEF I, D, M, K
  <1>4. IsFiniteSet(K) /\ IsFiniteSet(M) /\ IsFiniteSet(D)
    BY <1>1, <1>2, <1>3, FS_Subset
  <1>5. Cardinality(K) \in Nat /\ Cardinality(M) \in Nat /\ Cardinality(D) \in Nat
    BY <1>4, FS_CardinalityType
  <1>6. Cardinality(K \cup M) = Cardinality(K) + Cardinality(M) - Cardinality(K \cap M)
    BY <1>4, FS_Union
  <1>7. Cardinality(K \cup D) = Cardinality(K) + Cardinality(D) - Cardinality(K \cap D)
    BY <1>4, FS_Union
  <1>8. Cardinality({}) = 0
    BY FS_EmptySet
  <1>9. Cardinality(L) = n
    BY DEF n
  <1>10. n = Cardinality(K) + Cardinality(M)
    <2>1. Cardinality(K \cup M) = n /\ Cardinality(K \cap M) = 0
      BY <1>3, <1>8, <1>9
    <2> QED BY <1>5, <1>6, <2>1
  <1>11. n = Cardinality(K) + Cardinality(D)
    <2>1. Cardinality(K \cup D) = n /\ Cardinality(K \cap D) = 0
      BY <1>2, <1>3, <1>8
    <2> QED BY <1>5, <1>7, <2>1
  <1>12. Cardinality(D) = Cardinality(M)
    BY <1>5, <1>10, <1>11
  <1> QED BY <1>1, <1>3, <1>4, <1>12 DEF n, I, D, M

\* Compaction leaves each cell its live rows, each with a kind of bounds it had.
LEMMA CompactAllKeeps ==
  ASSUME CellsSound, CompactAll
  PROVE  CellsSound'
  <1> DEFINE n(c) == Cardinality(live[c])
             dead(c) == Packed({r \in 0 .. n(c) - 1 : r \notin live[c]})
             moved(c) == Reverse(Packed({r \in live[c] : r >= n(c)}))
             at(c, i) == IF i - 1 \in live[c] THEN bounds[c][i]
                         ELSE bounds[c][moved(c)[CHOOSE k \in DOMAIN dead(c) : dead(c)[k] = i - 1] + 1]
  <1>1. /\ bounds' = [c \in HarvestCells |-> [i \in 1 .. n(c) |-> at(c, i)]]
        /\ live' = [c \in HarvestCells |-> 0 .. n(c) - 1]
    BY DEF CompactAll
  <1>2. ASSUME NEW c \in HarvestCells
        PROVE  n(c) \in Nat /\ [i \in 1 .. n(c) |-> at(c, i)] \in Seq(RowKinds)
    <2> DEFINE L == live[c]
               m == Cardinality(L)
               D == {r \in 0 .. m - 1 : r \notin L}
               M == {r \in L : r >= m}
               s == Packed(D)
               p == Packed(M)
               t == Reverse(p)
    <2>1. /\ InUse(c) \in Nat /\ bounds[c] \in Seq(RowKinds) /\ L \subseteq 0 .. InUse(c) - 1
      BY BoxSound DEF CellsSound
    <2>2. \A r \in L : bounds[c][r + 1] \in RowKinds
      <3> TAKE r \in L
      <3>1. r + 1 \in 1 .. Len(bounds[c])
        BY <2>1 DEF InUse
      <3> QED BY <2>1, <3>1, ElementOfSeq
    <2> HIDE DEF L
    <2>3. /\ m \in Nat /\ D \in SUBSET Int /\ M \in SUBSET Int /\ IsFiniteSet(D) /\ IsFiniteSet(M)
          /\ Cardinality(D) = Cardinality(M)
      BY <2>1, DeadAndMoved
    <2>4. \A i \in 1 .. m : i - 1 \notin L => i - 1 \in D
      BY <2>3
    <2>5. M \subseteq L
      OBVIOUS
    <2> HIDE DEF D, M, m
    <2>6. Lists(s, D) /\ Lists(p, M)
      BY <2>3, PackedLists
    <2> HIDE DEF s, p
    <2>7. /\ s \in Seq(D) /\ Len(s) = Cardinality(D) /\ p \in Seq(M) /\ Len(p) = Cardinality(M)
          /\ Cardinality(D) \in Nat
      BY <2>6, ListIsSeq
    <2>8. DOMAIN s = 1 .. Len(s) /\ DOMAIN p = 1 .. Len(p) /\ Len(p) = Len(s) /\ Len(s) \in Nat
      BY <2>3, <2>7, LenProperties
    <2>9. \A x \in D : \E k \in DOMAIN s : s[k] = x
      BY <2>6, <2>7, <2>8 DEF Lists
    <2>10. \A k \in DOMAIN s : t[k] \in M
      <3> TAKE k \in DOMAIN s
      <3>1. Len(p) - k + 1 \in 1 .. Len(p) /\ k \in 1 .. Len(p)
        BY <2>8
      <3>2. t[k] = p[Len(p) - k + 1]
        BY <3>1 DEF Reverse
      <3> QED BY <2>7, <3>1, <3>2, ElementOfSeq
    <2>11. \A i \in 1 .. m : at(c, i) \in RowKinds
      <3> TAKE i \in 1 .. m
      <3> DEFINE k == CHOOSE j \in DOMAIN s : s[j] = i - 1
      <3>1. at(c, i) = IF i - 1 \in L THEN bounds[c][i] ELSE bounds[c][t[k] + 1]
        BY DEF L, m, D, M, s, p
      <3>2. CASE i - 1 \in L
        <4>1. (i - 1) + 1 = i
          BY <2>3
        <4>2. bounds[c][i] \in RowKinds
          BY <2>2, <3>2, <4>1
        <4> QED BY <3>1, <3>2, <4>2
      <3>3. CASE i - 1 \notin L
        <4>1. k \in DOMAIN s
          BY <2>4, <2>9, <3>3
        <4> HIDE DEF k
        <4>2. t[k] \in L
          BY <2>5, <2>10, <4>1
        <4> HIDE DEF t
        <4> QED BY <2>2, <3>1, <3>3, <4>2
      <3> QED BY <3>2, <3>3
    <2> HIDE DEF at
    <2>12. [i \in 1 .. m |-> at(c, i)] \in Seq(RowKinds)
      BY <2>3, <2>11, IsASeq
    <2> QED BY <2>3, <2>12 DEF m, L
  <1> HIDE DEF at, n
  <1>3. ASSUME NEW c \in HarvestCells
        PROVE  bounds'[c] \in Seq(RowKinds) /\ live'[c] \subseteq RowsOf(c)'
    <2> DEFINE m == n(c)
               f == [i \in 1 .. m |-> at(c, i)]
    <2>1. bounds'[c] = f /\ f \in Seq(RowKinds) /\ m \in Nat /\ DOMAIN f = 1 .. m
      BY <1>1, <1>2
    <2>2. Len(f) = m
      <3> HIDE DEF f, m
      <3> QED BY <2>1, LenProperties
    <2>3. RowsOf(c)' = 0 .. m - 1
      <3> HIDE DEF f, m
      <3> QED BY <2>1, <2>2 DEF RowsOf, InUse
    <2> QED BY <1>1, <2>1, <2>3
  <1>4. bounds' = [c \in HarvestCells |-> bounds'[c]] /\ live' = [c \in HarvestCells |-> live'[c]]
    BY <1>1
  <1> QED BY <1>3, <1>4 DEF CellsSound

\* At the start there are no rows.
LEMMA HarvestInitially ==
  ASSUME HarvestInit
  PROVE  HarvestInv
  <1>1. /\ bounds = [c \in HarvestCells |-> <<>>] /\ live = [c \in HarvestCells |-> {}]
        /\ staging = EmptyStaging /\ routed = <<>> /\ scanning = FALSE /\ run = NoRun
    BY DEF HarvestInit
  <1>2. CellsSound
    BY <1>1 DEF CellsSound
  <1>3. StagingSound
    <2>1. <<>> \in Seq(HarvestCells \X Views)
      BY EmptySeq
    <2> QED BY <1>1, <2>1 DEF StagingSound, EmptyStaging
  <1>4. StagedExact
    BY <1>1, NothingStaged
  <1> QED BY <1>1, <1>2, <1>3, <1>4 DEF HarvestInv, RunSound, RunsHonest

\* What a harvest is made of stays sound through each of its steps.
LEMMA HarvestSteps ==
  ASSUME HarvestInv, HarvestNext
  PROVE  HarvestInv'
  <1> USE DEF HarvestInv
  <1>1. ASSUME NEW c \in HarvestCells, NEW view \in Views, NEW lanes \in LaneCounts,
               ScanWith(c, view, lanes)
        PROVE  HarvestInv'
    <2>1. CASE HarvestCell(c, view, lanes)
      <3>1. UNCHANGED <<bounds, live, scanning, run>> /\ scanning /\ routed' = Append(routed, <<c, view>>)
        BY <2>1 DEF HarvestCell
      <3>2. StagedExact'
        BY <2>1, HarvestCellKeeps
      <3>3. StagingSound'
        <4>1. routed' \in Seq(HarvestCells \X Views)
          BY <3>1, AppendProperties DEF StagingSound
        <4>2. \E x, y, z, u, v : staging' = [tokens |-> x, gens |-> y, remap |-> z, valid |-> u, total |-> v]
          BY <2>1 DEF HarvestCell
        <4> QED BY <3>1, <4>1, <4>2 DEF StagingSound
      <3>4. CellsSound' /\ RunSound' /\ RunsHonest'
        BY <3>1 DEF CellsSound, RunSound, RunsHonest, RowsOf, InUse, BoxOf
      <3> QED BY <3>2, <3>3, <3>4
    <2>2. CASE ~scanning /\ HolderQuery(c, view, lanes)
      <3>1. UNCHANGED <<bounds, live, staging, routed, scanning>>
        BY <2>2 DEF HolderQuery
      <3>2. RunSound' /\ RunsHonest'
        BY <2>2, HolderQueryKeeps
      <3>3. CellsSound' /\ StagingSound'
        BY <3>1 DEF CellsSound, StagingSound, RowsOf, InUse
      <3>4. StagedExact'
        BY <3>1, <2>2, NothingStagedNext DEF StagingSound
      <3> QED BY <3>2, <3>3, <3>4
    <2> QED BY <1>1, <2>1, <2>2 DEF ScanWith
  <1>2. ASSUME UNCHANGED <<bounds, live, staging, routed, scanning>>
        PROVE  CellsSound' /\ StagingSound' /\ StagedExact'
    <2>1. CellsSound' /\ StagingSound'
      BY <1>2 DEF CellsSound, StagingSound, RowsOf, InUse
    <2>2. StagedExact'
      BY <1>2 DEF StagedExact, Visible, RowsOf, InUse, BoxOf
    <2> QED BY <2>1, <2>2
  <1>3. ASSUME NEW view \in Views, NEW lanes \in LaneCounts, HolderQueryAgain(view, lanes)
        PROVE  HarvestInv'
    <2>1. RunSound' /\ RunsHonest'
      BY <1>3, HolderQueryAgainKeeps
    <2> QED BY <1>2, <1>3, <2>1 DEF HolderQueryAgain
  <1>4. ASSUME NEW c \in HarvestCells,
               (\E kind \in RowKinds : AllocRow(c, kind)) \/ (\E r \in RowsOf(c) : Die(c, r))
        PROVE  HarvestInv'
    BY <1>4, RowsKeep
  <1>5. CASE Revalidate
    <2>1. RunSound' /\ RunsHonest'
      BY <1>5, RevalidateKeeps
    <2> QED BY <1>2, <1>5, <2>1 DEF Revalidate
  <1>6. CASE CompactAll
    <2>1. UNCHANGED <<staging, routed, scanning>> /\ ~scanning /\ run' = NoRun
      BY <1>6 DEF CompactAll
    <2>2. StagedExact' /\ StagingSound'
      BY <2>1, NothingStagedNext DEF StagingSound
    <2> QED BY <1>6, <2>1, <2>2, CompactAllKeeps DEF RunSound, RunsHonest
  <1>7. CASE BeginHarvest \/ EndHarvest
    <2>1. UNCHANGED <<bounds, live, run>> /\ staging' = EmptyStaging /\ routed' = <<>>
      BY <1>7 DEF BeginHarvest, EndHarvest
    <2>2. StagedExact'
      BY <2>1, NothingStagedNext
    <2>3. StagingSound'
      <3>1. <<>> \in Seq(HarvestCells \X Views)
        BY EmptySeq
      <3> QED BY <2>1, <3>1 DEF StagingSound, EmptyStaging
    <2>4. CellsSound' /\ RunSound' /\ RunsHonest'
      BY <2>1 DEF CellsSound, RunSound, RunsHonest, RowsOf, InUse, BoxOf
    <2> QED BY <2>2, <2>3, <2>4
  <1> QED BY <1>1, <1>3, <1>4, <1>5, <1>6, <1>7 DEF HarvestNext

\* A view's buffers hold integers, their capacity and epoch are counts, and a
\* view's entry in the registry names the buffer of the entry's epoch.
DeviceSound ==
  /\ device = [capacity |-> device.capacity, count |-> device.count, tokens |-> device.tokens,
               gens |-> device.gens, epoch |-> device.epoch, entry |-> device.entry,
               held |-> device.held, synced |-> device.synced]
  /\ device.capacity \in Nat /\ device.count \in Nat /\ device.epoch \in Nat
  /\ device.tokens \in Seq(Int) /\ device.gens \in Seq(Int)
  /\ device.entry # <<>> => device.entry.buffer = device.entry.epoch

DeviceInv == DeviceSound /\ DeviceCurrent

\* A column uploaded over an older one is there, as far as it goes.
LEMMA UploadedIsThere ==
  ASSUME NEW old \in Seq(Int), NEW new \in Seq(Int)
  PROVE  Over(old, new) \in Seq(Int) /\ SubSeq(Over(old, new), 1, Len(new)) = new
  <1> DEFINE n == Len(new)
             m == Len(old)
             rest == SubSeq(old, n + 1, m)
             all == new \o rest
  <1>1. n \in Nat /\ m \in Nat
    BY LenProperties
  <1>2. rest \in Seq(Int)
    <2> HIDE DEF n
    <2>1. CASE n + 1 <= m
      BY <1>1, <2>1, SubSeqProperties
    <2>2. CASE ~(n + 1 <= m)
      BY <1>1, <2>2, SubSeqEmpty, EmptySeq
    <2> QED BY <2>1, <2>2
  <1> HIDE DEF rest
  <1>3. /\ all \in Seq(Int) /\ Len(all) = n + Len(rest) /\ Len(rest) \in Nat
        /\ \A i \in 1 .. n + Len(rest) : all[i] = IF i <= n THEN new[i] ELSE rest[i - n]
    BY <1>2, ConcatProperties, LenProperties
  <1>4. \A i \in 1 .. n : all[i] = new[i]
    <2> HIDE DEF all, n
    <2> TAKE i \in 1 .. n
    <2>1. i \in 1 .. n + Len(rest) /\ i <= n
      BY <1>1, <1>3
    <2> QED BY <2>1, <1>3
  <1>5. SubSeq(all, 1, n) = [i \in 1 .. n |-> all[i]]
    BY <1>1
  <1>6. new = [i \in 1 .. n |-> new[i]]
    BY LenProperties
  <1>7. SubSeq(all, 1, n) = new
    <2> HIDE DEF all, n
    <2> QED BY <1>4, <1>5, <1>6
  <1> QED BY <1>3, <1>7 DEF Over, rest

\* Room is made for what is needed.
LEMMA RoomIsMade ==
  ASSUME NEW cap \in Nat, NEW needed \in Nat
  PROVE  Max({needed, (cap * 3) \div 2}) \in Nat /\ needed <= Max({needed, (cap * 3) \div 2})
  <1> DEFINE a == (cap * 3) \div 2
  <1>1. a \in Nat
    OBVIOUS
  <1> HIDE DEF a
  <1>2. \E x \in {needed, a} : \A y \in {needed, a} : x >= y
    <2>1. CASE needed >= a
      BY <1>1, <2>1
    <2>2. CASE ~(needed >= a)
      BY <1>1, <2>2
    <2> QED BY <2>1, <2>2
  <1>3. Max({needed, a}) \in {needed, a} /\ \A y \in {needed, a} : Max({needed, a}) >= y
    BY <1>2 DEF Max
  <1> QED BY <1>1, <1>3 DEF a

\* An upload leaves the pair of columns it was given as the counted prefix.
LEMMA UploadKeeps ==
  ASSUME DeviceInv, NEW staged \in StagedColumns, Upload(staged)
  PROVE  DeviceInv'
  <1> DEFINE n == Len(staged.tokens)
             grown == WithCapacity(device, n)
  <1>1. /\ staged.tokens \in Seq(Int) /\ staged.gens \in Seq(Int)
        /\ Len(staged.gens) = n /\ n \in Nat
    BY HarvestAssumption, LenProperties
  <1>2. device' = IF n = 0 THEN [device EXCEPT !.count = 0, !.held = staged]
                  ELSE [grown EXCEPT !.count = n, !.tokens = Over(@, staged.tokens),
                                     !.gens = Over(@, staged.gens), !.held = staged]
    BY DEF Upload
  <1>3. PICK cap, cnt, tk, gn, ep, en, he, sy :
           /\ device = [capacity |-> cap, count |-> cnt, tokens |-> tk, gens |-> gn,
                        epoch |-> ep, entry |-> en, held |-> he, synced |-> sy]
           /\ cap \in Nat /\ cnt \in Nat /\ ep \in Nat /\ tk \in Seq(Int) /\ gn \in Seq(Int)
           /\ cnt <= cap /\ (en # <<>> => en.buffer = en.epoch) /\ (sy => en.buffer = ep)
    BY DEF DeviceInv, DeviceSound, DeviceCurrent
  <1>4. CASE n = 0
    <2>1. device' = [capacity |-> cap, count |-> 0, tokens |-> tk, gens |-> gn,
                     epoch |-> ep, entry |-> en, held |-> staged, synced |-> sy]
      BY <1>2, <1>3, <1>4
    <2>2. staged.tokens = <<>> /\ staged.gens = <<>>
      BY <1>1, <1>4, EmptySeq
    <2>3. SubSeq(tk, 1, 0) = <<>> /\ SubSeq(gn, 1, 0) = <<>>
      OBVIOUS
    <2>4. DeviceSound'
      BY <1>3, <2>1 DEF DeviceSound
    <2>5. DeviceCurrent'
      <3>1. /\ device'.count = 0 /\ device'.capacity = cap /\ device'.tokens = tk /\ device'.gens = gn
            /\ device'.held = staged /\ device'.synced = sy /\ device'.entry = en /\ device'.epoch = ep
        BY <2>1
      <3> DEFINE none == <<>>
      <3>2. /\ SubSeq(tk, 1, 0) = none /\ SubSeq(gn, 1, 0) = none
            /\ staged.tokens = none /\ staged.gens = none
        BY <2>2, <2>3
      <3>3. 0 <= cap /\ (sy => en.buffer = ep)
        BY <1>3
      <3> HIDE DEF none
      <3> QED BY <3>1, <3>2, <3>3 DEF DeviceCurrent
    <2> QED BY <2>4, <2>5 DEF DeviceInv
  <1>5. CASE n # 0
    <2> DEFINE new == Max({n, (cap * 3) \div 2})
    <2>1. \E g, tk1, gn1, ep1, sy1 :
             /\ grown = [capacity |-> g, count |-> cnt, tokens |-> tk1, gens |-> gn1,
                         epoch |-> ep1, entry |-> en, held |-> he, synced |-> sy1]
             /\ g \in Nat /\ n <= g /\ tk1 \in Seq(Int) /\ gn1 \in Seq(Int) /\ ep1 \in Nat
             /\ (sy1 => en.buffer = ep1)
      <3>1. CASE n <= cap
        <4>1. grown = device
          BY <1>3, <3>1 DEF WithCapacity
        <4> HIDE DEF grown, n
        <4> QED BY <1>3, <3>1, <4>1
      <3>2. CASE ~(n <= cap)
        <4>1. new \in Nat /\ n <= new
          BY <1>1, <1>3, RoomIsMade
        <4>2. Amortized(device, n) = new
          BY <1>3 DEF Amortized
        <4> HIDE DEF new, n
        <4>3. WithCapacity(device, n) =
                [device EXCEPT !.capacity = new, !.epoch = ep + 1, !.tokens = <<>>, !.gens = <<>>, !.synced = FALSE]
          BY <1>3, <3>2, <4>2 DEF WithCapacity
        <4> DEFINE no == FALSE
        <4> HIDE DEF no
        <4>4. WithCapacity(device, n) =
                [capacity |-> new, count |-> cnt, tokens |-> <<>>, gens |-> <<>>,
                 epoch |-> ep + 1, entry |-> en, held |-> he, synced |-> no]
          BY <1>3, <4>3 DEF no
        <4>5. ~no /\ <<>> \in Seq(Int) /\ ep + 1 \in Nat
          BY <1>3, EmptySeq DEF no
        <4>6. grown = WithCapacity(device, n)
          BY DEF n
        <4> HIDE DEF grown
        <4>7. no => en.buffer = ep + 1
          BY <4>5
        <4> DEFINE none == <<>>
        <4>8. /\ grown = [capacity |-> new, count |-> cnt, tokens |-> none, gens |-> none,
                         epoch |-> ep + 1, entry |-> en, held |-> he, synced |-> no]
              /\ new \in Nat /\ n <= new /\ none \in Seq(Int) /\ none \in Seq(Int) /\ ep + 1 \in Nat
              /\ (no => en.buffer = ep + 1)
          BY <4>1, <4>4, <4>5, <4>6, <4>7
        <4> DEFINE next == ep + 1
        <4> HIDE DEF none, next
        <4> QED BY <4>8 DEF next
      <3> QED BY <3>1, <3>2
    <2>2. PICK g, tk1, gn1, ep1, sy1 :
             /\ grown = [capacity |-> g, count |-> cnt, tokens |-> tk1, gens |-> gn1,
                         epoch |-> ep1, entry |-> en, held |-> he, synced |-> sy1]
             /\ g \in Nat /\ n <= g /\ tk1 \in Seq(Int) /\ gn1 \in Seq(Int) /\ ep1 \in Nat
             /\ (sy1 => en.buffer = ep1)
      BY <2>1
    <2> HIDE DEF grown
    <2> DEFINE ot == Over(tk1, staged.tokens)
               og == Over(gn1, staged.gens)
    <2>3. /\ ot \in Seq(Int) /\ SubSeq(ot, 1, n) = staged.tokens
          /\ og \in Seq(Int) /\ SubSeq(og, 1, n) = staged.gens
      BY <1>1, <2>2, UploadedIsThere
    <2>4. device' = [grown EXCEPT !.count = n, !.tokens = Over(@, staged.tokens),
                                  !.gens = Over(@, staged.gens), !.held = staged]
      BY <1>2, <1>5
    <2> HIDE DEF n
    <2>5. device' = [capacity |-> g, count |-> n, tokens |-> ot, gens |-> og,
                     epoch |-> ep1, entry |-> en, held |-> staged, synced |-> sy1]
      BY <2>2, <2>4
    <2> HIDE DEF ot, og
    <2>6. DeviceSound'
      BY <1>1, <1>3, <2>2, <2>3, <2>5 DEF DeviceSound
    <2>7. DeviceCurrent'
      BY <1>1, <1>3, <2>2, <2>3, <2>5 DEF DeviceCurrent
    <2> QED BY <2>6, <2>7 DEF DeviceInv
  <1> QED BY <1>4, <1>5

\* Once the keys are synced they name the buffers of the epoch.
LEMMA RegisterKeysKeeps ==
  ASSUME DeviceInv, RegisterKeys
  PROVE  DeviceInv'
  <1>1. PICK cap, cnt, tk, gn, ep, en, he, sy :
           /\ device = [capacity |-> cap, count |-> cnt, tokens |-> tk, gens |-> gn,
                        epoch |-> ep, entry |-> en, held |-> he, synced |-> sy]
           /\ cap \in Nat /\ cnt \in Nat /\ ep \in Nat /\ tk \in Seq(Int) /\ gn \in Seq(Int)
           /\ cnt <= cap /\ (en # <<>> => en.buffer = en.epoch)
           /\ SubSeq(tk, 1, cnt) = he.tokens /\ SubSeq(gn, 1, cnt) = he.gens
    BY DEF DeviceInv, DeviceSound, DeviceCurrent
  <1> DEFINE first == [epoch |-> 0, buffer |-> ep]
             start == IF en = <<>> THEN first ELSE en
             now == IF start.epoch = ep THEN start ELSE [epoch |-> ep, buffer |-> ep]
             yes == TRUE
  <1>2. now.buffer = ep /\ now.epoch = ep
    BY <1>1
  <1>3. device' = [device EXCEPT !.entry = now, !.synced = yes]
    BY <1>1 DEF RegisterKeys
  <1> HIDE DEF now, yes
  <1>4. device' = [capacity |-> cap, count |-> cnt, tokens |-> tk, gens |-> gn,
                   epoch |-> ep, entry |-> now, held |-> he, synced |-> yes]
    BY <1>1, <1>3
  <1> QED BY <1>1, <1>2, <1>4 DEF DeviceInv, DeviceSound, DeviceCurrent

\* At the start a view's buffers have nothing.
LEMMA ViewInitially ==
  ASSUME ViewInit
  PROVE  DeviceInv
  <1> DEFINE no == FALSE
             empty == <<>>
             none == [tokens |-> empty, gens |-> empty]
  <1>1. device = [capacity |-> 0, count |-> 0, tokens |-> empty, gens |-> empty, epoch |-> 0,
                  entry |-> empty, held |-> none, synced |-> no]
    BY DEF ViewInit
  <1>2. /\ ~no /\ none.tokens = empty /\ none.gens = empty /\ SubSeq(empty, 1, 0) = empty
        /\ empty \in Seq(Int) /\ empty = <<>>
    BY EmptySeq
  <1> HIDE DEF no, none, empty
  <1>3. /\ device.count = 0 /\ device.capacity = 0 /\ device.tokens = empty /\ device.gens = empty
        /\ device.held = none /\ device.synced = no /\ device.entry = empty /\ device.epoch = 0
    BY <1>1
  <1>4. DeviceSound
    BY <1>1, <1>2, <1>3 DEF DeviceSound
  <1>5. DeviceCurrent
    <2>1. ~no /\ none.tokens = empty /\ none.gens = empty /\ SubSeq(empty, 1, 0) = empty
      BY <1>2
    <2>2. ~device.synced /\ device.count <= device.capacity
      BY <1>3, <2>1
    <2>3. SubSeq(device.tokens, 1, device.count) = device.held.tokens
      BY <1>3, <2>1
    <2>4. SubSeq(device.gens, 1, device.count) = device.held.gens
      BY <1>3, <2>1
    <2> QED BY <2>2, <2>3, <2>4 DEF DeviceCurrent
  <1> QED BY <1>4, <1>5 DEF DeviceInv

\* A harvest stages each visible row of each cell once, in order and with its
\* generation, whatever the width of the blocks; a run a holder keeps names
\* rows its view shows and misses none that lives by its words; and a view's
\* buffers hold the columns it was given last, where its keys say.
THEOREM ViewsStayExact == ViewsSpec => []ViewsExact
  <1> DEFINE Inv == HarvestInv /\ DeviceInv
  <1>1. ViewsInit => Inv
    BY HarvestInitially, ViewInitially DEF ViewsInit
  <1>2. Inv /\ [ViewsNext]_<<harvestVars, device>> => Inv'
    <2> SUFFICES ASSUME Inv, [ViewsNext]_<<harvestVars, device>>
                 PROVE  Inv'
      OBVIOUS
    <2>1. ASSUME UNCHANGED harvestVars PROVE HarvestInv'
      <3>1. UNCHANGED <<bounds, live, staging, routed, scanning, run>>
        BY <2>1 DEF harvestVars
      <3>2. CellsSound' /\ StagingSound' /\ RunSound' /\ RunsHonest'
        BY <3>1 DEF HarvestInv, CellsSound, StagingSound, RunSound, RunsHonest, RowsOf, InUse, BoxOf
      <3>3. StagedExact'
        BY <3>1 DEF HarvestInv, StagedExact, Visible, RowsOf, InUse, BoxOf
      <3> QED BY <3>2, <3>3 DEF HarvestInv
    <2>2. ASSUME UNCHANGED device PROVE DeviceInv'
      BY <2>2 DEF DeviceInv, DeviceSound, DeviceCurrent
    <2>3. HarvestNext => HarvestInv'
      BY HarvestSteps
    <2>4. ViewNext => DeviceInv'
      BY UploadKeeps, RegisterKeysKeeps DEF ViewNext
    <2> QED BY <2>1, <2>2, <2>3, <2>4 DEF ViewsNext
  <1>3. Inv => ViewsExact
    BY DEF HarvestInv, DeviceInv, ViewsExact
  <1> QED BY <1>1, <1>2, <1>3, PTL DEF ViewsSpec

-----------------------------------------------------------------------------
(* Lists *)

\* A list of n places, with one more and with its first taken off.
LEMMA ListOf ==
  ASSUME NEW n \in Nat, NEW s, s = [i \in 1 .. n |-> s[i]]
  PROVE  /\ Len(s) = n /\ DOMAIN s = 1 .. n /\ (s = <<>> <=> n = 0)
         /\ \A x : Append(s, x) = [i \in 1 .. n + 1 |-> IF i = n + 1 THEN x ELSE s[i]]
         /\ n # 0 => Head(s) = s[1] /\ Tail(s) = [i \in 1 .. n - 1 |-> s[i + 1]] /\ Last(s) = s[n]
  <1> DEFINE V == {s[i] : i \in 1 .. n}
  <1>1. s \in Seq(V)
    <2>1. \A i \in 1 .. n : s[i] \in V
      OBVIOUS
    <2> HIDE DEF V
    <2>2. [i \in 1 .. n |-> s[i]] \in Seq(V)
      BY <2>1, IsASeq
    <2> QED BY <2>2
  <1>2. DOMAIN s = 1 .. n
    OBVIOUS
  <1> HIDE DEF V
  <1>3. Len(s) = n
    BY <1>1, <1>2, LenProperties
  <1>4. s = <<>> <=> n = 0
    BY <1>1, <1>3, EmptySeq
  <1>5. ASSUME NEW x PROVE Append(s, x) = [i \in 1 .. n + 1 |-> IF i = n + 1 THEN x ELSE s[i]]
    <2> DEFINE W == V \cup {x}
    <2>1. \A i \in 1 .. n : s[i] \in W
      BY DEF V
    <2>2. x \in W
      OBVIOUS
    <2> HIDE DEF W
    <2>3. [i \in 1 .. n |-> s[i]] \in Seq(W)
      BY <2>1, IsASeq
    <2>4. s \in Seq(W)
      BY <2>3
    <2>5. /\ Append(s, x) \in Seq(W) /\ Len(Append(s, x)) = n + 1
          /\ \A i \in 1 .. n : Append(s, x)[i] = s[i]
          /\ Append(s, x)[n + 1] = x
      BY <1>3, <2>2, <2>4, AppendProperties
    <2> DEFINE t == Append(s, x)
    <2> HIDE DEF t
    <2>6. DOMAIN t = 1 .. n + 1 /\ t = [i \in 1 .. n + 1 |-> t[i]]
      BY <2>5, LenProperties DEF t
    <2>7. \A i \in 1 .. n + 1 : t[i] = IF i = n + 1 THEN x ELSE s[i]
      BY <2>5 DEF t
    <2> QED BY <2>6, <2>7 DEF t
  <1>6. CASE n = 0
    BY <1>2, <1>3, <1>4, <1>5, <1>6
  <1>7. CASE n # 0
    <2>1. s # <<>>
      BY <1>4, <1>7
    <2>2. /\ Head(s) = s[1] /\ Tail(s) \in Seq(V) /\ Len(Tail(s)) = n - 1
          /\ \A i \in 1 .. Len(Tail(s)) : Tail(s)[i] = s[i + 1]
      BY <1>1, <1>3, <2>1, HeadTailProperties
    <2> DEFINE t == Tail(s)
    <2> HIDE DEF t
    <2>3. DOMAIN t = 1 .. n - 1 /\ t = [i \in 1 .. n - 1 |-> t[i]]
      BY <2>2, LenProperties DEF t
    <2>4. t = [i \in 1 .. n - 1 |-> s[i + 1]]
      BY <2>2, <2>3 DEF t
    <2>5. Last(s) = s[n]
      BY <1>3 DEF Last
    <2> QED BY <1>2, <1>3, <1>4, <1>5, <2>2, <2>4, <2>5 DEF t
  <1> QED BY <1>6, <1>7

\* What is retained from place m on is the rest of the list.
LEMMA RetainedRest ==
  ASSUME NEW n \in Nat, NEW s, NEW m \in 0 .. n
  PROVE  Retained(s, m + 1 .. n) = [j \in 1 .. n - m |-> s[m + j]]
  <1> DEFINE keep == m + 1 .. n
             rank(i) == Cardinality({k \in keep : k <= i})
             at(j) == CHOOSE i \in keep : rank(i) = j
  <1>1. Cardinality(keep) = n - m
    <2>1. m + 1 \in Int /\ n \in Int
      OBVIOUS
    <2>2. Cardinality(keep) = IF m + 1 > n THEN 0 ELSE n - (m + 1) + 1
      BY <2>1, FS_Interval
    <2> HIDE DEF keep
    <2> QED BY <2>2
  <1>2. \A i \in keep : rank(i) = i - m
    <2> TAKE i \in keep
    <2>1. {k \in keep : k <= i} = m + 1 .. i /\ m + 1 \in Int /\ i \in Int /\ i >= m + 1
      OBVIOUS
    <2>2. Cardinality(m + 1 .. i) = IF m + 1 > i THEN 0 ELSE i - (m + 1) + 1
      BY <2>1, FS_Interval
    <2>3. (IF m + 1 > i THEN 0 ELSE i - (m + 1) + 1) = i - m
      BY <2>1
    <2> QED BY <2>1, <2>2, <2>3
  <1> HIDE DEF rank
  <1>3. \A j \in 1 .. n - m : at(j) = m + j
    <2> TAKE j \in 1 .. n - m
    <2>1. m + j \in keep /\ rank(m + j) = j
      <3>1. m + j \in keep
        OBVIOUS
      <3> HIDE DEF keep
      <3> QED BY <1>2, <3>1
    <2>2. at(j) \in keep /\ rank(at(j)) = j
      <3> HIDE DEF keep
      <3> QED BY <2>1
    <2> HIDE DEF at
    <2>3. at(j) - m = j
      <3> HIDE DEF keep
      <3> QED BY <1>2, <2>2
    <2> QED BY <2>2, <2>3
  <1>4. Retained(s, keep) = [j \in 1 .. Cardinality(keep) |-> s[at(j)]]
    BY DEF Retained, rank
  <1> HIDE DEF at, keep
  <1>5. Retained(s, keep) = [j \in 1 .. n - m |-> s[m + j]]
    BY <1>1, <1>3, <1>4
  <1> QED BY <1>5 DEF keep

\* A list of n places without its first m.
Past(s, n, m) == [j \in 1 .. n - m |-> s[m + j]]

\* What an ascending list has past f is the rest of it.
LEMMA AscendingRest ==
  ASSUME NEW n \in Nat, NEW s, DOMAIN s = 1 .. n, NEW f \in Int,
         \A i \in 1 .. n : s[i] \in Int,
         \A i, j \in 1 .. n : i < j => s[i] < s[j]
  PROVE  \E m \in 0 .. n :
            /\ \A i \in 1 .. n : s[i] > f <=> i > m
            /\ After(s, f) = Past(s, n, m)
  <1> DEFINE K == {i \in 1 .. n : s[i] > f}
  <1>1. PICK m \in 0 .. n : \A i \in 1 .. n : s[i] > f <=> i > m
    <2>1. CASE K = {}
      <3>1. n \in 0 .. n /\ \A i \in 1 .. n : ~(s[i] > f) /\ ~(i > n)
        BY <2>1
      <3> QED BY <3>1
    <2>2. CASE K # {}
      <3>1. K \in SUBSET Nat
        OBVIOUS
      <3>2. PICK k \in K : \A i \in K : k <= i
        <4> HIDE DEF K
        <4> QED BY <2>2, <3>1, LeastIsIn
      <3>3. k \in 1 .. n /\ s[k] > f /\ k - 1 \in 0 .. n
        OBVIOUS
      <3>4. \A i \in 1 .. n : s[i] > f => i > k - 1
        <4> TAKE i \in 1 .. n
        <4>1. s[i] > f => k <= i
          BY <3>2
        <4> QED BY <3>3, <4>1
      <3>5. \A i \in 1 .. n : i > k - 1 => s[i] > f
        <4> SUFFICES ASSUME NEW i \in 1 .. n, i > k - 1 PROVE s[i] > f
          OBVIOUS
        <4>1. i = k \/ k < i
          BY <3>3
        <4>2. k < i => s[k] < s[i]
          BY <3>3
        <4>3. s[i] \in Int /\ s[k] \in Int
          BY <3>3
        <4> QED BY <3>3, <4>1, <4>2, <4>3
      <3> QED BY <3>3, <3>4, <3>5
    <2> QED BY <2>1, <2>2
  <1>2. {i \in DOMAIN s : s[i] > f} = m + 1 .. n
    <2>1. DOMAIN s = 1 .. n
      OBVIOUS
    <2>2. \A i \in 1 .. n : i > m <=> i \in m + 1 .. n
      OBVIOUS
    <2>3. m + 1 .. n \subseteq 1 .. n
      OBVIOUS
    <2> QED BY <1>1, <2>1, <2>2, <2>3
  <1> HIDE DEF K
  <1>3. Retained(s, m + 1 .. n) = [j \in 1 .. n - m |-> s[m + j]]
    BY RetainedRest
  <1> DEFINE later == {i \in DOMAIN s : s[i] > f}
  <1>4. later = m + 1 .. n
    BY <1>2
  <1> HIDE DEF later
  <1>5. Retained(s, later) = [j \in 1 .. n - m |-> s[m + j]]
    BY <1>3, <1>4
  <1>6. After(s, f) = Past(s, n, m)
    BY <1>5 DEF After, Past, later
  <1> QED BY <1>1, <1>6

-----------------------------------------------------------------------------
(* A client's predictions (Prediction) *)

\* The n numbers past a.
Upward(a, n) == [i \in 1 .. n |-> a + i]

\* The last k of a list of n places.
Newest(list, n, k) == [i \in 1 .. k |-> list[n - k + i]]

\* How many snapshots a Reconciler has of the n pushed past the base.
SnapshotsOf(n) == IF n < SnapshotCap THEN n ELSE SnapshotCap

\* How long such a list is.
LEMMA UpwardList ==
  ASSUME NEW a \in Int, NEW n \in Nat
  PROVE  /\ Len(Upward(a, n)) = n /\ DOMAIN Upward(a, n) = 1 .. n
         /\ Upward(a, n) = <<>> <=> n = 0
  <1>1. PICK s : s = Upward(a, n)
    OBVIOUS
  <1>2. s = [i \in 1 .. n |-> s[i]]
    BY <1>1 DEF Upward
  <1> QED BY <1>1, <1>2, ListOf

\* The next number pushed.
LEMMA UpwardPushed ==
  ASSUME NEW a \in Int, NEW n \in Nat
  PROVE  Append(Upward(a, n), (a + n) + 1) = Upward(a, n + 1)
  <1>1. PICK s : s = Upward(a, n)
    OBVIOUS
  <1>2. s = [i \in 1 .. n |-> s[i]] /\ \A i \in 1 .. n : s[i] = a + i
    BY <1>1 DEF Upward
  <1>3. Append(s, (a + n) + 1) = [i \in 1 .. n + 1 |-> IF i = n + 1 THEN (a + n) + 1 ELSE s[i]]
    BY <1>2, ListOf
  <1> QED BY <1>1, <1>2, <1>3 DEF Upward

\* The first number taken.
LEMMA UpwardTaken ==
  ASSUME NEW a \in Int, NEW n \in Nat \ {0}
  PROVE  /\ Head(Upward(a, n)) = a + 1 /\ Tail(Upward(a, n)) = Upward(a + 1, n - 1)
         /\ Last(Upward(a, n)) = a + n
  <1>1. PICK s : s = Upward(a, n)
    OBVIOUS
  <1>2. s = [i \in 1 .. n |-> s[i]] /\ \A i \in 1 .. n : s[i] = a + i
    BY <1>1 DEF Upward
  <1>3. Head(s) = s[1] /\ Tail(s) = [i \in 1 .. n - 1 |-> s[i + 1]] /\ Last(s) = s[n]
    BY <1>2, ListOf
  <1>4. Tail(s) = Upward(a + 1, n - 1)
    BY <1>2, <1>3 DEF Upward
  <1>5. s[1] = a + 1 /\ s[n] = a + n
    BY <1>2
  <1> QED BY <1>1, <1>3, <1>4, <1>5

\* The numbers past b (clear_before).
LEMMA UpwardAfter ==
  ASSUME NEW a \in Int, NEW n \in Nat, NEW b \in a .. a + n
  PROVE  After(Upward(a, n), b) = Upward(b, a + n - b)
  <1>1. PICK s : s = Upward(a, n)
    OBVIOUS
  <1>2. DOMAIN s = 1 .. n /\ \A i \in 1 .. n : s[i] = a + i
    BY <1>1 DEF Upward
  <1>3. PICK m \in 0 .. n : m = b - a
    OBVIOUS
  <1>4. PICK later : later = {i \in DOMAIN s : s[i] > b}
    OBVIOUS
  <1>5. later = m + 1 .. n
    BY <1>2, <1>3, <1>4
  <1>6. Retained(s, m + 1 .. n) = [j \in 1 .. n - m |-> s[m + j]]
    BY RetainedRest
  <1>7. [j \in 1 .. n - m |-> s[m + j]] = [j \in 1 .. a + n - b |-> b + j]
    BY <1>2, <1>3
  <1> QED BY <1>1, <1>4, <1>5, <1>6, <1>7 DEF After, Upward

\* A client that drops what is past a base has the newest of what is left.
LEMMA NewestAfter ==
  ASSUME SnapshotCap \in Nat \ {0}, NEW n \in Nat, NEW list, DOMAIN list = 1 .. n,
         \A i \in 1 .. n : list[i] \in Int,
         NEW b \in Int, NEW m \in 0 .. n, \A i \in 1 .. n : list[i] > b <=> i > m
  PROVE  After(Newest(list, n, SnapshotsOf(n)), b) = Newest(Past(list, n, m), n - m, SnapshotsOf(n - m))
  <1>1. PICK rest : rest = Past(list, n, m)
    OBVIOUS
  <1>2. rest = [j \in 1 .. n - m |-> list[m + j]]
    BY <1>1 DEF Past
  <1>3. PICK k : k = SnapshotsOf(n)
    OBVIOUS
  <1>4. k \in 0 .. n
    BY <1>3 DEF SnapshotsOf
  <1>5. PICK s : s = Newest(list, n, k)
    OBVIOUS
  <1>6. DOMAIN s = 1 .. k /\ \A i \in 1 .. k : s[i] = list[n - k + i]
    BY <1>5 DEF Newest
  <1>7. PICK p : p = IF m > n - k THEN m - (n - k) ELSE 0
    OBVIOUS
  <1>8. p \in 0 .. k /\ \A i \in 1 .. k : n - k + i > m <=> i > p
    BY <1>4, <1>7
  <1>9. \A i \in 1 .. k : s[i] > b <=> i > p
    <2> TAKE i \in 1 .. k
    <2>1. n - k + i \in 1 .. n
      BY <1>4
    <2> QED BY <1>6, <1>8, <2>1
  <1>10. PICK later : later = {i \in DOMAIN s : s[i] > b}
    OBVIOUS
  <1>11. later = p + 1 .. k
    BY <1>6, <1>8, <1>9, <1>10
  <1>12. Retained(s, p + 1 .. k) = [j \in 1 .. k - p |-> s[p + j]]
    BY <1>4, <1>8, RetainedRest
  <1>13. k - p = SnapshotsOf(n - m)
    BY <1>3, <1>7 DEF SnapshotsOf
  <1>14. \A j \in 1 .. k - p : s[p + j] = rest[n - m - (k - p) + j]
    <2> TAKE j \in 1 .. k - p
    <2>1. s[p + j] = list[n - k + (p + j)]
      BY <1>4, <1>6, <1>8
    <2>2. n - m - (k - p) + j \in 1 .. n - m
      BY <1>4, <1>7
    <2>3. rest[n - m - (k - p) + j] = list[m + (n - m - (k - p) + j)]
      BY <1>2, <2>2
    <2>4. m + (n - m - (k - p) + j) = n - k + (p + j)
      BY <1>4, <1>8
    <2> QED BY <2>1, <2>3, <2>4
  <1>15. [j \in 1 .. k - p |-> s[p + j]] = Newest(rest, n - m, k - p)
    BY <1>14 DEF Newest
  <1> QED BY <1>3, <1>5, <1>10, <1>11, <1>12, <1>13, <1>15, <1>1 DEF After

\* And so has one that pushes one more.
LEMMA NewestPushed ==
  ASSUME SnapshotCap \in Nat \ {0}, NEW n \in Nat, NEW list, list = [i \in 1 .. n |-> list[i]], NEW x
  PROVE  Latest(Append(Newest(list, n, SnapshotsOf(n)), x))
           = Newest(Append(list, x), n + 1, SnapshotsOf(n + 1))
  <1>1. PICK k : k = SnapshotsOf(n)
    OBVIOUS
  <1>2. k \in 0 .. n
    BY <1>1 DEF SnapshotsOf
  <1>3. PICK s : s = Newest(list, n, k)
    OBVIOUS
  <1>4. s = [i \in 1 .. k |-> s[i]] /\ \A i \in 1 .. k : s[i] = list[n - k + i]
    BY <1>3 DEF Newest
  <1>5. PICK t : t = Append(s, x)
    OBVIOUS
  <1>6. t = [i \in 1 .. k + 1 |-> IF i = k + 1 THEN x ELSE s[i]]
    BY <1>2, <1>4, <1>5, ListOf
  <1>7. t = [i \in 1 .. k + 1 |-> t[i]] /\ k + 1 \in Nat
    BY <1>2, <1>6
  <1>8. /\ Len(t) = k + 1 /\ Tail(t) = [i \in 1 .. k |-> t[i + 1]]
    BY <1>7, <1>2, ListOf
  <1>9. PICK u : u = Append(list, x)
    OBVIOUS
  <1>10. u = [i \in 1 .. n + 1 |-> IF i = n + 1 THEN x ELSE list[i]]
    BY <1>9, ListOf
  <1>11. \A i \in 1 .. k + 1 : t[i] = u[n - k + i]
    <2> TAKE i \in 1 .. k + 1
    <2>1. n - k + i \in 1 .. n + 1
      BY <1>2
    <2>2. u[n - k + i] = IF i = k + 1 THEN x ELSE list[n - k + i]
      BY <1>2, <1>10, <2>1
    <2>3. t[i] = IF i = k + 1 THEN x ELSE s[i]
      BY <1>6
    <2>4. i # k + 1 => i \in 1 .. k
      BY <1>2
    <2>5. i # k + 1 => s[i] = list[n - k + i]
      BY <1>4, <2>4
    <2> QED BY <2>2, <2>3, <2>5
  <1>12. CASE k + 1 > SnapshotCap
    <2>1. k = SnapshotCap /\ k = SnapshotsOf(n + 1)
      BY <1>1, <1>2, <1>12 DEF SnapshotsOf
    <2>2. \A i \in 1 .. k : t[i + 1] = u[(n + 1) - k + i]
      <3> TAKE i \in 1 .. k
      <3>1. i + 1 \in 1 .. k + 1 /\ n - k + (i + 1) = (n + 1) - k + i
        BY <1>2
      <3>2. t[i + 1] = u[n - k + (i + 1)]
        BY <1>11, <3>1
      <3> QED BY <3>1, <3>2
    <2>3. [i \in 1 .. k |-> t[i + 1]] = [i \in 1 .. k |-> u[(n + 1) - k + i]]
      BY <2>2
    <2>4. Tail(t) = Newest(u, n + 1, k)
      <3>1. Newest(u, n + 1, k) = [i \in 1 .. k |-> u[(n + 1) - k + i]]
        BY DEF Newest
      <3> QED BY <1>8, <2>3, <3>1
    <2> QED BY <1>1, <1>3, <1>5, <1>8, <1>9, <1>12, <2>1, <2>4 DEF Latest
  <1>13. CASE ~(k + 1 > SnapshotCap)
    <2>1. k = n /\ k + 1 = SnapshotsOf(n + 1)
      BY <1>1, <1>2, <1>13 DEF SnapshotsOf
    <2>2. \A i \in 1 .. k + 1 : t[i] = u[(n + 1) - (k + 1) + i]
      <3> TAKE i \in 1 .. k + 1
      <3>1. n - k + i = (n + 1) - (k + 1) + i
        BY <1>2
      <3>2. t[i] = u[n - k + i]
        BY <1>11
      <3> QED BY <3>1, <3>2
    <2>3. [i \in 1 .. k + 1 |-> t[i]] = [i \in 1 .. k + 1 |-> u[(n + 1) - (k + 1) + i]]
      BY <2>2
    <2>4. t = Newest(u, n + 1, k + 1)
      BY <1>7, <2>3 DEF Newest
    <2> QED BY <1>1, <1>3, <1>5, <1>8, <1>9, <1>13, <2>1, <2>4 DEF Latest
  <1> QED BY <1>12, <1>13

\* The base the delta at place i of the downlink follows.
BaseAt(i) == IF i = 0 THEN base ELSE downlink[i].base

\* The client keeps every input past its base, in order, and shows the newest
\* of them; it goes on showing its newest when all have been looked at and
\* none was lost or refused.
ClientPredicts ==
  LET lf == reconciler.localFrame IN
  /\ reconciler = [pending |-> Upward(base, lf - base), snapshots |-> reconciler.snapshots,
                   serverFrame |-> reconciler.serverFrame, localFrame |-> lf]
  /\ lf \in Nat /\ base \in 0 .. lf /\ dropped \in BOOLEAN
  /\ base < lf \/ ~dropped => predicted = lf

\* Snapshots are pushed in the order of the server's frames, and the newest
\* are there.
SnapshotsRecent ==
  LET n == Len(taken) IN
  /\ n \in Nat /\ taken = [i \in 1 .. n |-> taken[i]]
  /\ serverNow \in Nat /\ reconciler.serverFrame \in Nat
  /\ \A i \in 1 .. n : taken[i] \in Nat /\ taken[i] <= reconciler.serverFrame
  /\ \A i, j \in 1 .. n : i < j => taken[i] < taken[j]
  /\ reconciler.snapshots = Newest(taken, n, SnapshotsOf(n))

\* On the way are the newest inputs, none of which the server has looked at, and
\* deltas whose bases only rise; with no input lost or refused each delta has
\* the field as of its base, or it has not changed since the base before.
LinkOrdered ==
  LET lf == reconciler.localFrame
      u == Len(uplink)
      n == Len(downlink)
  IN
  /\ u \in 0 .. lf /\ uplink = Upward(lf - u, u)
  /\ looked \in base .. lf - u
  /\ ~dropped => looked = lf - u /\ held = looked
  /\ n \in Nat /\ downlink = [i \in 1 .. n |-> downlink[i]]
  /\ \A i \in 1 .. n : downlink[i].base \in base .. looked
  /\ \A i, j \in 1 .. n : i < j => downlink[i].base <= downlink[j].base
  /\ ~dropped => \A i \in 1 .. n : \/ downlink[i].value = downlink[i].base
                                   \/ downlink[i].value = NoWrite /\ downlink[i].base = BaseAt(i - 1)

\* What every step keeps.
LinkInvariant == ClientPredicts /\ SnapshotsRecent /\ LinkOrdered

\* It holds of a client, a server and a link nothing was sent on.
LEMMA PredictionInitial == PredictionInit => LinkInvariant
  <1> SUFFICES ASSUME PredictionInit PROVE LinkInvariant
    OBVIOUS
  <1>1. /\ reconciler = [pending |-> <<>>, snapshots |-> <<>>, serverFrame |-> 0, localFrame |-> 0]
        /\ predicted = 0 /\ uplink = <<>> /\ downlink = <<>> /\ held = 0 /\ looked = 0
        /\ serverNow = 0 /\ base = 0 /\ taken = <<>> /\ dropped = FALSE
    BY DEF PredictionInit
  <1>2. Upward(0, 0) = <<>> /\ 0 \in Int /\ 0 \in Nat
    BY UpwardList
  <1>3. reconciler.localFrame = 0 /\ reconciler.serverFrame = 0 /\ reconciler.snapshots = <<>>
    BY <1>1
  <1>4. ClientPredicts
    <2>1. 0 - 0 = 0 /\ 0 \in 0 .. 0
      OBVIOUS
    <2>2. Upward(base, reconciler.localFrame - base) = <<>> /\ predicted = reconciler.localFrame
      BY <1>1, <1>2, <1>3, <2>1
    <2>3. base \in 0 .. reconciler.localFrame /\ reconciler.localFrame \in Nat /\ dropped \in BOOLEAN
      BY <1>1, <1>2, <1>3, <2>1
    <2>4. reconciler = [pending |-> Upward(base, reconciler.localFrame - base),
                        snapshots |-> reconciler.snapshots,
                        serverFrame |-> reconciler.serverFrame, localFrame |-> reconciler.localFrame]
      BY <1>1, <1>3, <2>2
    <2> QED BY <2>2, <2>3, <2>4 DEF ClientPredicts
  <1>5. SnapshotsRecent
    <2>1. SnapshotsOf(0) = 0
      BY PredictionAssumption DEF SnapshotsOf
    <2>2. Newest(<<>>, 0, 0) = <<>>
      BY DEF Newest
    <2> QED BY <1>1, <1>3, <2>1, <2>2 DEF SnapshotsRecent
  <1>6. LinkOrdered
    BY <1>1, <1>2, <1>3 DEF LinkOrdered
  <1> QED BY <1>4, <1>5, <1>6 DEF LinkInvariant

\* An input is predicted and sent.
LEMMA PushInputKeeps ==
  ASSUME LinkInvariant, PushInput
  PROVE  LinkInvariant'
  <1>1. PICK P, S, sf, lf : reconciler = [pending |-> P, snapshots |-> S, serverFrame |-> sf, localFrame |-> lf]
    BY DEF LinkInvariant, ClientPredicts
  <1>2. /\ reconciler.pending = P /\ reconciler.snapshots = S /\ reconciler.serverFrame = sf
        /\ reconciler.localFrame = lf
    BY <1>1
  <1>3. lf \in Nat /\ base \in 0 .. lf /\ dropped \in BOOLEAN /\ P = Upward(base, lf - base)
    BY <1>1, <1>2 DEF LinkInvariant, ClientPredicts
  <1>4. reconciler' = [pending |-> Append(P, lf + 1), snapshots |-> S, serverFrame |-> sf,
                       localFrame |-> lf + 1]
    BY <1>1, <1>2 DEF PushInput
  <1>5. /\ reconciler'.pending = Append(P, lf + 1) /\ reconciler'.snapshots = S
        /\ reconciler'.serverFrame = sf /\ reconciler'.localFrame = lf + 1
    BY <1>4
  <1>6. /\ predicted' = lf + 1 /\ uplink' = Append(uplink, lf + 1)
        /\ UNCHANGED <<downlink, held, looked, serverNow, base, taken, dropped>>
    BY <1>2 DEF PushInput
  <1>7. Append(P, lf + 1) = Upward(base, (lf + 1) - base)
    <2>1. PICK n \in Nat : n = lf - base
      BY <1>3
    <2>2. base \in Int
      BY <1>3
    <2>3. Append(Upward(base, n), (base + n) + 1) = Upward(base, n + 1)
      BY <2>2, UpwardPushed
    <2>4. (base + n) + 1 = lf + 1 /\ n + 1 = (lf + 1) - base
      BY <1>3, <2>1
    <2> QED BY <1>3, <2>1, <2>3, <2>4
  <1>8. ClientPredicts'
    <2>1. base' = base /\ dropped' \in BOOLEAN /\ predicted' = lf + 1
      BY <1>3, <1>6
    <2>2. lf + 1 \in Nat /\ base' \in 0 .. lf + 1
      BY <1>3, <2>1
    <2>3. reconciler' = [pending |-> Upward(base', (lf + 1) - base'),
                         snapshots |-> S, serverFrame |-> sf, localFrame |-> lf + 1]
      BY <1>4, <1>7, <2>1
    <2> QED BY <1>5, <2>1, <2>2, <2>3 DEF ClientPredicts
  <1>9. SnapshotsRecent'
    BY <1>2, <1>5, <1>6 DEF LinkInvariant, SnapshotsRecent
  <1>10. LinkOrdered'
    <2>1. PICK u : u = Len(uplink)
      OBVIOUS
    <2>2. u \in 0 .. lf /\ uplink = Upward(lf - u, u) /\ looked \in base .. lf - u
      BY <1>2, <2>1 DEF LinkInvariant, LinkOrdered
    <2>3. PICK a \in Int : a = lf - u
      BY <1>3, <2>2
    <2>4. u \in Nat
      BY <1>3, <2>2
    <2>5. Append(Upward(a, u), (a + u) + 1) = Upward(a, u + 1)
      BY <2>4, UpwardPushed
    <2>6. (a + u) + 1 = lf + 1 /\ u + 1 \in 0 .. (lf + 1) /\ (lf + 1) - (u + 1) = a
      BY <1>3, <2>2, <2>3
    <2>7. uplink' = Upward(a, u + 1)
      BY <1>6, <2>2, <2>3, <2>5, <2>6
    <2>8. Len(uplink') = u + 1
      <3>1. u + 1 \in Nat
        BY <2>4
      <3> QED BY <2>7, <3>1, UpwardList
    <2>9. /\ looked \in base .. a /\ (~dropped => looked = a /\ held = looked)
          /\ Len(downlink) \in Nat /\ downlink = [i \in 1 .. Len(downlink) |-> downlink[i]]
      BY <1>2, <2>1, <2>2, <2>3 DEF LinkInvariant, LinkOrdered
    <2>10. \A i : BaseAt(i)' = BaseAt(i)
      BY <1>6 DEF BaseAt
    <2>11. (/\ \A i \in 1 .. Len(downlink) : downlink[i].base \in base .. looked
            /\ \A i, j \in 1 .. Len(downlink) : i < j => downlink[i].base <= downlink[j].base
            /\ ~dropped => \A i \in 1 .. Len(downlink) :
                             \/ downlink[i].value = downlink[i].base
                             \/ downlink[i].value = NoWrite /\ downlink[i].base = BaseAt(i - 1))'
      BY <1>6, <2>10 DEF LinkInvariant, LinkOrdered
    <2> QED BY <1>5, <1>6, <2>6, <2>7, <2>8, <2>9, <2>11 DEF LinkOrdered
  <1> QED BY <1>8, <1>9, <1>10 DEF LinkInvariant

\* A snapshot is remembered.
LEMMA PushSnapshotKeeps ==
  ASSUME LinkInvariant, PushSnapshot
  PROVE  LinkInvariant'
  <1>1. PICK P, S, sf, lf : reconciler = [pending |-> P, snapshots |-> S, serverFrame |-> sf, localFrame |-> lf]
    BY DEF LinkInvariant, ClientPredicts
  <1>2. /\ reconciler.pending = P /\ reconciler.snapshots = S /\ reconciler.serverFrame = sf
        /\ reconciler.localFrame = lf
    BY <1>1
  <1>3. lf \in Nat /\ base \in 0 .. lf /\ dropped \in BOOLEAN /\ P = Upward(base, lf - base)
    BY <1>1, <1>2 DEF LinkInvariant, ClientPredicts
  <1>4. reconciler' = [pending |-> P, snapshots |-> Latest(Append(S, serverNow)),
                       serverFrame |-> serverNow, localFrame |-> lf]
    BY <1>1, <1>2 DEF PushSnapshot
  <1>5. /\ reconciler'.pending = P /\ reconciler'.snapshots = Latest(Append(S, serverNow))
        /\ reconciler'.serverFrame = serverNow /\ reconciler'.localFrame = lf
    BY <1>4
  <1>6. /\ sf < serverNow /\ taken' = Append(taken, serverNow)
        /\ UNCHANGED <<predicted, uplink, downlink, held, looked, serverNow, base, dropped>>
    BY <1>2 DEF PushSnapshot
  <1>7. ClientPredicts'
    <2>1. base < lf \/ ~dropped => predicted = lf
      BY <1>2 DEF LinkInvariant, ClientPredicts
    <2> QED BY <1>3, <1>4, <1>5, <1>6, <2>1 DEF ClientPredicts
  <1>8. SnapshotsRecent'
    <2>1. PICK n \in Nat : n = Len(taken)
      BY DEF LinkInvariant, SnapshotsRecent
    <2>2. /\ taken = [i \in 1 .. n |-> taken[i]] /\ serverNow \in Nat /\ sf \in Nat
          /\ \A i \in 1 .. n : taken[i] \in Nat /\ taken[i] <= sf
          /\ \A i, j \in 1 .. n : i < j => taken[i] < taken[j]
          /\ S = Newest(taken, n, SnapshotsOf(n))
      BY <1>2, <2>1 DEF LinkInvariant, SnapshotsRecent
    <2>3. taken' = [i \in 1 .. n + 1 |-> IF i = n + 1 THEN serverNow ELSE taken[i]]
      BY <1>6, <2>2, ListOf
    <2>4. PICK t : t = taken'
      OBVIOUS
    <2>5. /\ t = [i \in 1 .. n + 1 |-> t[i]]
          /\ \A i \in 1 .. n + 1 : t[i] = IF i = n + 1 THEN serverNow ELSE taken[i]
      BY <2>3, <2>4
    <2>6. Len(t) = n + 1 /\ n + 1 \in Nat
      BY <2>5, ListOf
    <2>7. \A i \in 1 .. n + 1 : t[i] \in Nat /\ t[i] <= serverNow
      <3> TAKE i \in 1 .. n + 1
      <3>1. i = n + 1 => t[i] = serverNow
        BY <2>5
      <3>2. i # n + 1 => i \in 1 .. n /\ t[i] = taken[i]
        BY <2>5
      <3>3. i # n + 1 => t[i] \in Nat /\ t[i] <= sf
        BY <2>2, <3>2
      <3> QED BY <1>6, <2>2, <3>1, <3>3
    <2>8. \A i, j \in 1 .. n + 1 : i < j => t[i] < t[j]
      <3> SUFFICES ASSUME NEW i \in 1 .. n + 1, NEW j \in 1 .. n + 1, i < j PROVE t[i] < t[j]
        OBVIOUS
      <3>1. i \in 1 .. n /\ t[i] = taken[i]
        BY <2>5
      <3>2. CASE j = n + 1
        <4>1. t[i] \in Nat /\ t[i] <= sf
          BY <2>2, <3>1
        <4>2. t[j] = serverNow
          BY <2>5, <3>2
        <4> QED BY <1>6, <2>2, <4>1, <4>2
      <3>3. CASE j # n + 1
        <4>1. j \in 1 .. n /\ t[j] = taken[j]
          BY <2>5, <3>3
        <4> QED BY <2>2, <3>1, <4>1
      <3> QED BY <3>2, <3>3
    <2>9. Latest(Append(S, serverNow)) = Newest(t, n + 1, SnapshotsOf(n + 1))
      BY <1>6, <2>2, <2>4, NewestPushed, PredictionAssumption
    <2> QED BY <1>5, <1>6, <2>2, <2>4, <2>5, <2>6, <2>7, <2>8, <2>9 DEF SnapshotsRecent
  <1>9. LinkOrdered'
    <2>1. \A i : BaseAt(i)' = BaseAt(i)
      BY <1>6 DEF BaseAt
    <2> QED BY <1>2, <1>5, <1>6, <2>1 DEF LinkInvariant, LinkOrdered
  <1> QED BY <1>7, <1>8, <1>9 DEF LinkInvariant

\* The server looks at an input, or it is lost.
LEMMA TakeInputKeeps ==
  ASSUME LinkInvariant, TakeInput \/ LoseInput
  PROVE  LinkInvariant'
  <1>1. PICK lf, u : lf = reconciler.localFrame /\ u = Len(uplink)
    OBVIOUS
  <1>2. lf \in Nat /\ base \in 0 .. lf /\ dropped \in BOOLEAN
    BY <1>1 DEF LinkInvariant, ClientPredicts
  <1>3. /\ u \in 0 .. lf /\ uplink = Upward(lf - u, u) /\ looked \in base .. lf - u
        /\ ~dropped => looked = lf - u /\ held = looked
    BY <1>1 DEF LinkInvariant, LinkOrdered
  <1>4. /\ Len(downlink) \in Nat /\ downlink = [i \in 1 .. Len(downlink) |-> downlink[i]]
        /\ \A i \in 1 .. Len(downlink) : downlink[i].base \in base .. looked
        /\ \A i, j \in 1 .. Len(downlink) : i < j => downlink[i].base <= downlink[j].base
        /\ ~dropped => \A i \in 1 .. Len(downlink) :
                         \/ downlink[i].value = downlink[i].base
                         \/ downlink[i].value = NoWrite /\ downlink[i].base = BaseAt(i - 1)
    BY DEF LinkInvariant, LinkOrdered
  <1>5. /\ uplink # <<>> /\ uplink' = Tail(uplink)
        /\ UNCHANGED <<reconciler, predicted, downlink, serverNow, base, taken>>
    BY DEF TakeInput, LoseInput
  <1>6. PICK a : a = lf - u
    OBVIOUS
  <1>7. a \in Int /\ u \in Nat /\ u # 0
    <2>1. a \in Int /\ u \in Nat
      BY <1>2, <1>3, <1>6
    <2> QED BY <1>3, <1>5, <1>6, <2>1, UpwardList
  <1>8. Head(uplink) = a + 1 /\ uplink' = Upward(a + 1, u - 1)
    BY <1>3, <1>5, <1>6, <1>7, UpwardTaken
  <1>9. Len(uplink') = u - 1 /\ u - 1 \in 0 .. lf /\ lf - (u - 1) = a + 1
    <2>1. u - 1 \in Nat /\ a + 1 \in Int
      BY <1>7
    <2> QED BY <1>2, <1>3, <1>6, <1>7, <1>8, <2>1, UpwardList
  <1>10. /\ looked' \in base .. a + 1 /\ looked <= looked' /\ dropped' \in BOOLEAN
         /\ dropped => dropped'
         /\ ~dropped' => looked' = a + 1 /\ held' = looked'
    <2>1. looked \in Int /\ base \in Int /\ base <= looked /\ looked <= a
      BY <1>2, <1>3, <1>6, <1>7
    <2>2. CASE TakeInput
      <3>1. /\ looked' = a + 1 /\ held' = (IF CanWrite THEN a + 1 ELSE held)
            /\ dropped' = (dropped \/ ~CanWrite)
        BY <1>8, <2>2 DEF TakeInput
      <3>2. dropped' \in BOOLEAN /\ (dropped => dropped') /\ (~dropped' => CanWrite)
        <4> DEFINE can == CanWrite
        <4>1. dropped' = (dropped \/ ~can)
          BY <3>1
        <4> HIDE DEF can
        <4>2. dropped' \in BOOLEAN /\ (dropped => dropped') /\ (~dropped' => can)
          BY <1>2, <4>1
        <4> QED BY <4>2 DEF can
      <3>3. ~dropped' => held' = a + 1
        BY <3>1, <3>2
      <3>4. looked' \in base .. a + 1 /\ looked <= looked'
        BY <1>7, <2>1, <3>1
      <3> QED BY <3>1, <3>2, <3>3, <3>4
    <2>3. CASE LoseInput
      <3>1. dropped' = TRUE /\ looked' = looked
        BY <2>3 DEF LoseInput
      <3>2. looked' \in base .. a + 1 /\ looked <= looked'
        BY <1>7, <2>1, <3>1
      <3> QED BY <3>1, <3>2
    <2> QED BY <2>2, <2>3
  <1>11. ClientPredicts'
    BY <1>5, <1>10 DEF LinkInvariant, ClientPredicts
  <1>12. SnapshotsRecent'
    BY <1>5 DEF LinkInvariant, SnapshotsRecent
  <1>13. LinkOrdered'
    <2>1. \A i : BaseAt(i)' = BaseAt(i)
      BY <1>5 DEF BaseAt
    <2>2. \A i \in 1 .. Len(downlink) : downlink[i].base \in base .. looked'
      <3> TAKE i \in 1 .. Len(downlink)
      <3>1. downlink[i].base \in base .. looked /\ looked \in Int /\ looked' \in Int /\ base \in Int
        BY <1>2, <1>3, <1>4, <1>6, <1>7, <1>10
      <3> QED BY <1>10, <3>1
    <2>3. reconciler'.localFrame = lf /\ base' = base /\ downlink' = downlink
      BY <1>1, <1>5
    <2> QED BY <1>4, <1>8, <1>9, <1>10, <2>1, <2>2, <2>3 DEF LinkOrdered
  <1> QED BY <1>11, <1>12, <1>13 DEF LinkInvariant

\* The server's frame goes out, with the newest input it has looked at as base.
LEMMA SendDeltaKeeps ==
  ASSUME LinkInvariant, SendDelta
  PROVE  LinkInvariant'
  <1>1. PICK n \in Nat : n = Len(downlink)
    BY DEF LinkInvariant, LinkOrdered
  <1>2. PICK D : D = downlink
    OBVIOUS
  <1>3. /\ D = [i \in 1 .. n |-> D[i]]
        /\ \A i \in 1 .. n : D[i].base \in base .. looked
        /\ \A i, j \in 1 .. n : i < j => D[i].base <= D[j].base
        /\ ~dropped => \A i \in 1 .. n : \/ D[i].value = D[i].base
                                         \/ D[i].value = NoWrite /\ D[i].base = BaseAt(i - 1)
    BY <1>1, <1>2 DEF LinkInvariant, LinkOrdered
  <1>4. base \in Int /\ looked \in Int /\ base <= looked /\ (~dropped => held = looked)
    BY DEF LinkInvariant, LinkOrdered, ClientPredicts
  <1>5. /\ serverNow' = serverNow + 1
        /\ UNCHANGED <<reconciler, predicted, uplink, held, looked, base, taken, dropped>>
    BY DEF SendDelta
  <1>6. PICK d : /\ downlink' = Append(D, d) /\ d.base = looked
                 /\ d.value = IF held > BaseAt(n) THEN held ELSE NoWrite
    <2>1. (IF D = <<>> THEN base ELSE Last(D).base) = BaseAt(n)
      <3>1. (D = <<>> <=> n = 0) /\ (n # 0 => Last(D) = D[n])
        BY <1>3, ListOf
      <3> QED BY <1>2, <3>1 DEF BaseAt
    <2>2. PICK last : last = IF D = <<>> THEN base ELSE Last(D).base
      OBVIOUS
    <2>3. downlink' = Append(D, [base |-> looked, value |-> IF held > last THEN held ELSE NoWrite])
      BY <1>2, <2>2 DEF SendDelta
    <2>4. PICK d : d = [base |-> looked, value |-> IF held > last THEN held ELSE NoWrite]
      OBVIOUS
    <2>5. d.base = looked /\ d.value = IF held > last THEN held ELSE NoWrite
      BY <2>4
    <2> QED BY <2>1, <2>2, <2>3, <2>4, <2>5
  <1>7. PICK t : t = downlink'
    OBVIOUS
  <1>8. /\ t = [i \in 1 .. n + 1 |-> t[i]]
        /\ \A i \in 1 .. n + 1 : t[i] = IF i = n + 1 THEN d ELSE D[i]
    <2>1. t = [i \in 1 .. n + 1 |-> IF i = n + 1 THEN d ELSE D[i]]
      BY <1>3, <1>6, <1>7, ListOf
    <2> QED BY <2>1
  <1>9. Len(t) = n + 1 /\ n + 1 \in Nat
    BY <1>8, ListOf
  <1>10. t[n + 1] = d /\ \A i \in 1 .. n : t[i] = D[i] /\ i \in 1 .. n + 1
    BY <1>8
  <1>11. \A i \in 1 .. n + 1 : i # n + 1 => i \in 1 .. n
    OBVIOUS
  <1>12. \A i \in 1 .. n + 1 : t[i].base \in base .. looked
    <2> TAKE i \in 1 .. n + 1
    <2>1. CASE i = n + 1
      BY <1>4, <1>6, <1>10, <2>1
    <2>2. CASE i # n + 1
      BY <1>3, <1>10, <1>11, <2>2
    <2> QED BY <2>1, <2>2
  <1>13. \A i, j \in 1 .. n + 1 : i < j => t[i].base <= t[j].base
    <2> SUFFICES ASSUME NEW i \in 1 .. n + 1, NEW j \in 1 .. n + 1, i < j
                 PROVE  t[i].base <= t[j].base
      OBVIOUS
    <2>1. i \in 1 .. n /\ t[i] = D[i]
      BY <1>10
    <2>2. CASE j = n + 1
      <3>1. t[j].base = looked /\ D[i].base \in base .. looked
        BY <1>3, <1>6, <1>10, <2>1, <2>2
      <3> QED BY <1>4, <2>1, <3>1
    <2>3. CASE j # n + 1
      BY <1>3, <1>10, <1>11, <2>1, <2>3
    <2> QED BY <2>2, <2>3
  <1>14. \A i \in 0 .. n : BaseAt(i)' = BaseAt(i)
    <2> TAKE i \in 0 .. n
    <2>1. CASE i = 0
      BY <1>5, <2>1 DEF BaseAt
    <2>2. CASE i # 0
      <3>1. i \in 1 .. n
        BY <2>2
      <3> QED BY <1>2, <1>7, <1>10, <2>2, <3>1 DEF BaseAt
    <2> QED BY <2>1, <2>2
  <1>15. ~dropped => \A i \in 1 .. n + 1 :
                       \/ t[i].value = t[i].base
                       \/ t[i].value = NoWrite /\ t[i].base = BaseAt(i - 1)'
    <2> SUFFICES ASSUME ~dropped, NEW i \in 1 .. n + 1
                 PROVE  \/ t[i].value = t[i].base
                        \/ t[i].value = NoWrite /\ t[i].base = BaseAt(i - 1)'
      OBVIOUS
    <2>1. i - 1 \in 0 .. n
      OBVIOUS
    <2>2. BaseAt(i - 1)' = BaseAt(i - 1)
      BY <1>14, <2>1
    <2>3. CASE i = n + 1
      <3>1. t[i] = d /\ i - 1 = n
        BY <1>10, <2>3
      <3>2. BaseAt(n) \in Int /\ BaseAt(n) <= looked
        <4>1. CASE n = 0
          BY <1>4, <4>1 DEF BaseAt
        <4>2. CASE n # 0
          <5>1. n \in 1 .. n
            BY <4>2
          <5>2. BaseAt(n) \in base .. looked
            BY <1>2, <1>3, <4>2, <5>1 DEF BaseAt
          <5> QED BY <1>4, <5>2
        <4> QED BY <4>1, <4>2
      <3>3. CASE held > BaseAt(n)
        BY <1>4, <1>6, <3>1, <3>3
      <3>4. CASE ~(held > BaseAt(n))
        <4>1. looked = BaseAt(n)
          BY <1>4, <3>2, <3>4
        <4>2. d.value = NoWrite /\ d.base = BaseAt(n)
          BY <1>6, <3>4, <4>1
        <4> QED BY <2>2, <3>1, <4>2
      <3> QED BY <3>3, <3>4
    <2>4. CASE i # n + 1
      <3>1. i \in 1 .. n /\ t[i] = D[i]
        BY <1>10, <1>11, <2>4
      <3> QED BY <1>3, <2>2, <3>1
    <2> QED BY <2>3, <2>4
  <1>16. ClientPredicts'
    BY <1>5 DEF LinkInvariant, ClientPredicts
  <1>17. SnapshotsRecent'
    <2>1. serverNow' \in Nat
      BY <1>5 DEF LinkInvariant, SnapshotsRecent
    <2> QED BY <1>5, <2>1 DEF LinkInvariant, SnapshotsRecent
  <1>18. LinkOrdered'
    <2>1. /\ Len(downlink') = n + 1 /\ Len(downlink') \in Nat
          /\ downlink' = [i \in 1 .. Len(downlink') |-> downlink'[i]]
          /\ \A i \in 1 .. Len(downlink') : downlink'[i].base \in base' .. looked'
          /\ \A i, j \in 1 .. Len(downlink') : i < j => downlink'[i].base <= downlink'[j].base
      BY <1>5, <1>7, <1>8, <1>9, <1>12, <1>13
    <2>2. ~dropped' => \A i \in 1 .. Len(downlink') :
                         \/ downlink'[i].value = downlink'[i].base
                         \/ downlink'[i].value = NoWrite /\ downlink'[i].base = BaseAt(i - 1)'
      BY <1>5, <1>7, <1>9, <1>15
    <2>3. (/\ Len(uplink) \in 0 .. reconciler.localFrame
           /\ uplink = Upward(reconciler.localFrame - Len(uplink), Len(uplink))
           /\ looked \in base .. reconciler.localFrame - Len(uplink)
           /\ ~dropped => looked = reconciler.localFrame - Len(uplink) /\ held = looked)'
      BY <1>5 DEF LinkInvariant, LinkOrdered
    <2> QED BY <2>1, <2>2, <2>3 DEF LinkOrdered
  <1> QED BY <1>16, <1>17, <1>18 DEF LinkInvariant

\* A delta is applied, and the inputs past its base replayed.
LEMMA ReconcileKeeps ==
  ASSUME LinkInvariant, Reconcile
  PROVE  LinkInvariant'
  <1>1. PICK P, S, sf, lf : reconciler = [pending |-> P, snapshots |-> S, serverFrame |-> sf, localFrame |-> lf]
    BY DEF LinkInvariant, ClientPredicts
  <1>2. /\ reconciler.pending = P /\ reconciler.snapshots = S /\ reconciler.serverFrame = sf
        /\ reconciler.localFrame = lf
    BY <1>1
  <1>3. /\ lf \in Nat /\ base \in 0 .. lf /\ dropped \in BOOLEAN /\ P = Upward(base, lf - base)
        /\ base < lf \/ ~dropped => predicted = lf
    BY <1>1, <1>2 DEF LinkInvariant, ClientPredicts
  <1>4. PICK n \in Nat : n = Len(downlink)
    BY DEF LinkInvariant, LinkOrdered
  <1>5. PICK D : D = downlink
    OBVIOUS
  <1>6. /\ D = [i \in 1 .. n |-> D[i]]
        /\ \A i \in 1 .. n : D[i].base \in base .. looked
        /\ \A i, j \in 1 .. n : i < j => D[i].base <= D[j].base
        /\ ~dropped => \A i \in 1 .. n : \/ D[i].value = D[i].base
                                         \/ D[i].value = NoWrite /\ D[i].base = BaseAt(i - 1)
    BY <1>4, <1>5 DEF LinkInvariant, LinkOrdered
  <1>7. PICK u : u = Len(uplink)
    OBVIOUS
  <1>8. /\ u \in 0 .. lf /\ uplink = Upward(lf - u, u) /\ looked \in base .. lf - u
        /\ ~dropped => looked = lf - u /\ held = looked
    BY <1>2, <1>7 DEF LinkInvariant, LinkOrdered
  <1>9. PICK b, v : b = Head(D).base /\ v = Head(D).value
    OBVIOUS
  <1>10. /\ n \in Nat \ {0} /\ D[1].base = b /\ D[1].value = v
         /\ downlink' = [i \in 1 .. n - 1 |-> D[i + 1]]
    <2>1. D # <<>> /\ downlink' = Tail(D)
      BY <1>5 DEF Reconcile
    <2>2. n # 0
      BY <1>6, <2>1, ListOf
    <2>3. Head(D) = D[1] /\ Tail(D) = [i \in 1 .. n - 1 |-> D[i + 1]]
      BY <1>6, <2>2, ListOf
    <2> QED BY <1>9, <2>1, <2>2, <2>3
  <1>11. b \in base .. looked /\ b \in base .. lf /\ b \in 0 .. lf /\ b \in Int /\ lf - b \in Nat
    <2>1. b \in base .. looked
      BY <1>6, <1>10
    <2> QED BY <1>3, <1>8, <2>1
  <1>12. PICK rest : rest = After(P, b)
    OBVIOUS
  <1>13. rest = Upward(b, lf - b)
    <2>1. PICK k \in Nat : k = lf - base
      BY <1>3
    <2>2. base \in Int /\ b \in base .. base + k /\ base + k - b = lf - b
      BY <1>3, <1>11, <2>1
    <2>3. After(Upward(base, k), b) = Upward(b, base + k - b)
      BY <2>2, UpwardAfter
    <2> QED BY <1>3, <1>12, <2>1, <2>2, <2>3
  <1>14. (rest = <<>> <=> lf = b) /\ (rest # <<>> => Last(rest) = lf)
    <2>1. PICK k \in Nat : k = lf - b
      BY <1>11
    <2>2. Upward(b, k) = <<>> <=> k = 0
      BY <1>11, UpwardList
    <2>3. k # 0 => Last(Upward(b, k)) = b + k
      BY <1>11, UpwardTaken
    <2> QED BY <1>3, <1>11, <1>13, <2>1, <2>2, <2>3
  <1>15. PICK T : T = After(S, b)
    OBVIOUS
  <1>16. reconciler' = [pending |-> rest, snapshots |-> T, serverFrame |-> sf, localFrame |-> lf]
    <2>1. reconciler' = [reconciler EXCEPT !.pending = rest, !.snapshots = After(@, b)]
      BY <1>2, <1>5, <1>9, <1>12 DEF Reconcile
    <2> QED BY <1>1, <1>2, <1>15, <2>1
  <1>17. /\ reconciler'.snapshots = T /\ reconciler'.serverFrame = sf /\ reconciler'.localFrame = lf
    BY <1>16
  <1>18. /\ base' = b /\ taken' = After(taken, b)
         /\ predicted' = IF rest = <<>> THEN (IF v = NoWrite THEN predicted ELSE v) ELSE Last(rest)
         /\ UNCHANGED <<uplink, held, looked, serverNow, dropped>>
    BY <1>2, <1>5, <1>9, <1>12 DEF Reconcile, After
  <1>19. ClientPredicts'
    <2>1. b < lf \/ ~dropped => predicted' = lf
      <3>1. CASE b # lf
        BY <1>14, <1>18, <3>1
      <3>2. CASE b = lf /\ ~dropped
        <4>1. v = b \/ (v = NoWrite /\ b = BaseAt(1 - 1))
          <5>1. 1 \in 1 .. n
            BY <1>10
          <5> QED BY <1>6, <1>10, <3>2, <5>1
        <4>2. BaseAt(1 - 1) = base
          BY DEF BaseAt
        <4>3. predicted' = IF v = NoWrite THEN predicted ELSE v
          BY <1>14, <1>18, <3>2
        <4>4. CASE v = b /\ v # NoWrite
          BY <3>2, <4>3, <4>4
        <4>5. CASE v = NoWrite
          <5>1. base = lf
            BY <1>11, <3>2, <4>1, <4>2, <4>5 DEF NoWrite
          <5> QED BY <1>3, <3>2, <4>3, <4>5, <5>1
        <4> QED BY <4>1, <4>4, <4>5
      <3> QED BY <1>11, <3>1, <3>2
    <2>2. reconciler' = [pending |-> Upward(base', lf - base'), snapshots |-> T,
                         serverFrame |-> sf, localFrame |-> lf]
      BY <1>13, <1>16, <1>18
    <2>3. base' \in 0 .. lf /\ dropped' \in BOOLEAN /\ (base' < lf \/ ~dropped' => predicted' = lf)
      BY <1>3, <1>11, <1>18, <2>1
    <2> QED BY <1>3, <1>17, <2>2, <2>3 DEF ClientPredicts
  <1>20. SnapshotsRecent'
    <2>1. PICK k \in Nat : k = Len(taken)
      BY DEF LinkInvariant, SnapshotsRecent
    <2>2. PICK s : s = taken
      OBVIOUS
    <2>3. /\ s = [i \in 1 .. k |-> s[i]] /\ serverNow \in Nat /\ sf \in Nat
          /\ \A i \in 1 .. k : s[i] \in Nat /\ s[i] <= sf
          /\ \A i, j \in 1 .. k : i < j => s[i] < s[j]
          /\ S = Newest(s, k, SnapshotsOf(k))
      BY <1>2, <2>1, <2>2 DEF LinkInvariant, SnapshotsRecent
    <2>4. DOMAIN s = 1 .. k /\ \A i \in 1 .. k : s[i] \in Int
      BY <2>3
    <2>5. PICK t : t = taken'
      OBVIOUS
    <2>6. PICK m \in 0 .. k : /\ \A i \in 1 .. k : s[i] > b <=> i > m
                              /\ t = Past(s, k, m)
      <3>1. \E m \in 0 .. k :
              /\ \A i \in 1 .. k : s[i] > b <=> i > m
              /\ After(s, b) = Past(s, k, m)
        <4>1. \A i, j \in 1 .. k : i < j => s[i] < s[j]
          BY <2>3
        <4>2. b \in Int
          BY <1>11
        <4> QED BY <2>4, <4>1, <4>2, AscendingRest
      <3> QED BY <1>18, <2>2, <2>5, <3>1
    <2>7. T = Newest(t, k - m, SnapshotsOf(k - m))
      <3>1. After(Newest(s, k, SnapshotsOf(k)), b) = Newest(t, k - m, SnapshotsOf(k - m))
        <4>1. b \in Int /\ SnapshotCap \in Nat \ {0}
          BY <1>11, PredictionAssumption
        <4> QED BY <2>4, <2>6, <4>1, NewestAfter
      <3> QED BY <1>15, <2>3, <3>1
    <2>8. k - m \in Nat /\ t = [j \in 1 .. k - m |-> t[j]]
      BY <2>6 DEF Past
    <2>9. Len(t) = k - m
      BY <2>8, ListOf
    <2>10. \A i \in 1 .. k - m : t[i] = s[m + i] /\ m + i \in 1 .. k
      BY <2>6 DEF Past
    <2>11. \A i \in 1 .. k - m : t[i] \in Nat /\ t[i] <= sf
      BY <2>3, <2>10
    <2>12. \A i, j \in 1 .. k - m : i < j => t[i] < t[j]
      <3> SUFFICES ASSUME NEW i \in 1 .. k - m, NEW j \in 1 .. k - m, i < j PROVE t[i] < t[j]
        OBVIOUS
      <3>1. m + i < m + j
        OBVIOUS
      <3> QED BY <2>3, <2>10, <3>1
    <2> QED BY <1>17, <1>18, <2>3, <2>5, <2>7, <2>8, <2>9, <2>11, <2>12 DEF SnapshotsRecent
  <1>21. LinkOrdered'
    <2>1. PICK t : t = downlink'
      OBVIOUS
    <2>2. PICK k \in Nat : k = n - 1
      BY <1>10
    <2>3. t = [i \in 1 .. k |-> t[i]] /\ \A i \in 1 .. k : t[i] = D[i + 1] /\ i + 1 \in 1 .. n
      BY <1>10, <2>1, <2>2
    <2>4. Len(t) = k
      BY <2>3, ListOf
    <2>5. \A i \in 1 .. k : t[i].base \in b .. looked
      <3> TAKE i \in 1 .. k
      <3>1. 1 < i + 1 /\ i + 1 \in 1 .. n /\ t[i] = D[i + 1] /\ 1 \in 1 .. n
        BY <1>10, <2>3
      <3>2. D[1].base <= D[i + 1].base /\ D[i + 1].base \in base .. looked
        BY <1>6, <3>1
      <3> QED BY <1>3, <1>8, <1>10, <1>11, <3>1, <3>2
    <2>6. \A i, j \in 1 .. k : i < j => t[i].base <= t[j].base
      <3> SUFFICES ASSUME NEW i \in 1 .. k, NEW j \in 1 .. k, i < j PROVE t[i].base <= t[j].base
        OBVIOUS
      <3>1. i + 1 < j + 1 /\ t[i] = D[i + 1] /\ t[j] = D[j + 1] /\ i + 1 \in 1 .. n /\ j + 1 \in 1 .. n
        BY <2>3
      <3> QED BY <1>6, <3>1
    <2>7. \A i \in 1 .. k : BaseAt(i - 1)' = BaseAt((i + 1) - 1)
      <3> TAKE i \in 1 .. k
      <3>1. (i + 1) - 1 = i /\ i # 0
        OBVIOUS
      <3>2. CASE i = 1
        BY <1>5, <1>10, <1>18, <3>1, <3>2 DEF BaseAt
      <3>3. CASE i # 1
        <4>1. i - 1 \in 1 .. k /\ (i - 1) + 1 = i /\ i - 1 # 0
          BY <3>3
        <4>2. t[i - 1] = D[i]
          BY <2>3, <4>1
        <4> QED BY <1>5, <2>1, <3>1, <4>1, <4>2 DEF BaseAt
      <3> QED BY <3>2, <3>3
    <2>8. ~dropped => \A i \in 1 .. k : \/ t[i].value = t[i].base
                                        \/ t[i].value = NoWrite /\ t[i].base = BaseAt(i - 1)'
      BY <1>6, <2>3, <2>7
    <2>9. looked \in b .. lf - u
      BY <1>3, <1>8, <1>11
    <2> QED BY <1>7, <1>8, <1>17, <1>18, <2>1, <2>3, <2>4, <2>5, <2>6, <2>8, <2>9 DEF LinkOrdered
  <1> QED BY <1>19, <1>20, <1>21 DEF LinkInvariant

\* Every step keeps it.
LEMMA PredictionSteps == LinkInvariant /\ [PredictionNext]_predictionVars => LinkInvariant'
  <1> SUFFICES ASSUME LinkInvariant, [PredictionNext]_predictionVars
               PROVE  LinkInvariant'
    OBVIOUS
  <1>1. CASE PushInput
    BY <1>1, PushInputKeeps
  <1>2. CASE PushSnapshot
    BY <1>2, PushSnapshotKeeps
  <1>3. CASE Reconcile
    BY <1>3, ReconcileKeeps
  <1>4. CASE TakeInput \/ LoseInput
    BY <1>4, TakeInputKeeps
  <1>5. CASE SendDelta
    BY <1>5, SendDeltaKeeps
  <1>6. CASE UNCHANGED <<reconciler, predicted, uplink, downlink, held, looked, serverNow, base, taken, dropped>>
    <2>1. \A i : BaseAt(i)' = BaseAt(i)
      BY <1>6 DEF BaseAt
    <2>2. ClientPredicts'
      BY <1>6 DEF LinkInvariant, ClientPredicts
    <2>3. SnapshotsRecent'
      BY <1>6 DEF LinkInvariant, SnapshotsRecent
    <2>4. LinkOrdered'
      BY <1>6, <2>1 DEF LinkInvariant, LinkOrdered
    <2> QED BY <2>2, <2>3, <2>4 DEF LinkInvariant
  <1>7. CASE UNCHANGED predictionVars
    BY <1>6, <1>7 DEF predictionVars
  <1>8. ASSUME NEW place, NEW owner, SetOwner(place, owner) PROVE LinkInvariant'
    BY <1>6, <1>8 DEF SetOwner
  <1> QED BY <1>1, <1>2, <1>3, <1>4, <1>5, <1>7, <1>8 DEF PredictionNext

\* The smaller of two.
LEMMA LeastOfTwo ==
  ASSUME NEW a \in Int, NEW b \in Int
  PROVE  Min({a, b}) = IF a <= b THEN a ELSE b
  BY DEF Min

\* It is more than the property asks.
LEMMA PredictionShown == LinkInvariant => PredictionKept
  <1> SUFFICES ASSUME LinkInvariant PROVE PredictionKept
    OBVIOUS
  <1>1. PICK lf : lf = reconciler.localFrame
    OBVIOUS
  <1>2. PICK P : P = reconciler.pending
    OBVIOUS
  <1>3. /\ lf \in Nat /\ base \in 0 .. lf /\ dropped \in BOOLEAN /\ P = Upward(base, lf - base)
        /\ base < lf \/ ~dropped => predicted = lf
    <2>1. PICK S, sf : reconciler = [pending |-> Upward(base, lf - base), snapshots |-> S,
                                     serverFrame |-> sf, localFrame |-> lf]
      BY <1>1 DEF LinkInvariant, ClientPredicts
    <2>2. P = Upward(base, lf - base)
      BY <1>2, <2>1
    <2> QED BY <1>1, <2>2 DEF LinkInvariant, ClientPredicts
  <1>4. (P = <<>> <=> lf = base) /\ (P # <<>> => Last(P) = lf)
    <2>1. PICK k \in Nat : k = lf - base
      BY <1>3
    <2>2. base \in Int
      BY <1>3
    <2>3. Upward(base, k) = <<>> <=> k = 0
      BY <2>2, UpwardList
    <2>4. k # 0 => Last(Upward(base, k)) = base + k
      BY <2>2, UpwardTaken
    <2> QED BY <1>3, <2>1, <2>2, <2>3, <2>4
  <1>5. P # <<>> => predicted = Last(P)
    BY <1>3, <1>4
  <1>6. PICK n \in Nat : n = Len(taken)
    BY DEF LinkInvariant, SnapshotsRecent
  <1>7. /\ taken = [i \in 1 .. n |-> taken[i]] /\ \A i \in 1 .. n : taken[i] \in Nat
        /\ reconciler.snapshots = Newest(taken, n, SnapshotsOf(n))
    BY <1>6 DEF LinkInvariant, SnapshotsRecent
  <1>8. PICK k \in 0 .. n : k = SnapshotsOf(n)
    BY PredictionAssumption DEF SnapshotsOf
  <1>9. Min({SnapshotCap, n}) = k
    <2>1. SnapshotCap \in Int /\ n \in Int
      BY PredictionAssumption
    <2>2. Min({SnapshotCap, n}) = IF SnapshotCap <= n THEN SnapshotCap ELSE n
      BY <2>1, LeastOfTwo
    <2> QED BY <1>8, <2>1, <2>2 DEF SnapshotsOf
  <1>10. SubSeq(taken, n - k + 1, n) = Newest(taken, n, k)
    <2>1. taken \in Seq(Nat)
      <3>1. [i \in 1 .. n |-> taken[i]] \in Seq(Nat)
        BY <1>7, IsASeq
      <3> QED BY <1>7, <3>1
    <2>2. PICK t : t = SubSeq(taken, n - k + 1, n)
      OBVIOUS
    <2>3. /\ t \in Seq(Nat) /\ Len(t) = k
          /\ \A i \in 1 .. k : t[i] = taken[n - k + i]
      <3>1. PICK m : m = n - k + 1
        OBVIOUS
      <3>2. m \in 1 .. n + 1 /\ n \in m - 1 .. n /\ n - m + 1 = k
        BY <3>1
      <3>3. /\ t \in Seq(Nat) /\ Len(t) = n - m + 1
            /\ \A i \in 1 .. n - m + 1 : t[i] = taken[m + i - 1]
        BY <1>6, <2>1, <2>2, <3>1, <3>2, SubSeqProperties
      <3>4. \A i \in 1 .. k : m + i - 1 = n - k + i
        BY <3>1
      <3> QED BY <3>2, <3>3, <3>4
    <2>4. t = [i \in 1 .. k |-> t[i]]
      BY <2>3, LenProperties
    <2>5. [i \in 1 .. k |-> t[i]] = [i \in 1 .. k |-> taken[n - k + i]]
      BY <2>3
    <2> QED BY <2>2, <2>4, <2>5 DEF Newest
  <1>11. LET kept == Min({SnapshotCap, Len(taken)})
         IN reconciler.snapshots = SubSeq(taken, Len(taken) - kept + 1, Len(taken))
    BY <1>6, <1>7, <1>8, <1>9, <1>10
  <1>12. (~dropped /\ P = <<>> /\ uplink = <<>> /\ downlink = <<>>) => predicted = held
    <2>1. ~dropped => looked = lf - Len(uplink) /\ held = looked
      BY <1>1 DEF LinkInvariant, LinkOrdered
    <2>2. uplink = <<>> => Len(uplink) = 0
      OBVIOUS
    <2> QED BY <1>3, <1>4, <2>1, <2>2
  <1>13. P = [i \in 1 .. lf - base |-> base + i]
    BY <1>3 DEF Upward
  <1> QED BY <1>1, <1>2, <1>5, <1>11, <1>12, <1>13 DEF PredictionKept

\* However many inputs are pushed, lost, refused or looked at late, and whoever
\* owns the field in between, Reconciler keeps exactly the inputs past the base it
\* reconciled, shows the newest of them, holds the newest snapshots, and comes to
\* show what the server holds.
THEOREM PredictionStaysKept == PredictionSpec => []PredictionKept
  <1>1. PredictionSpec => []LinkInvariant
    BY PredictionInitial, PredictionSteps, PTL DEF PredictionSpec
  <1> QED BY <1>1, PredictionShown, PTL

-----------------------------------------------------------------------------
(* Two editors' deltas (Prediction) *)

\* s is a list of n places.
IsListOf(s, n) == n \in Nat /\ s = [i \in 1 .. n |-> s[i]]

\* u is one list after another.
IsJoin(u, s, n, t, m) ==
  /\ IsListOf(u, n + m) /\ Len(u) = n + m
  /\ \A i \in 1 .. n : u[i] = s[i]
  /\ \A i \in 1 .. m : u[n + i] = t[i]

\* Joining two lists gives it.
LEMMA ListJoined ==
  ASSUME NEW n \in Nat, NEW s, IsListOf(s, n), NEW m \in Nat, NEW t, IsListOf(t, m),
         NEW u, u = s \o t
  PROVE  IsJoin(u, s, n, t, m)
  <1> DEFINE V == {s[i] : i \in 1 .. n} \cup {t[i] : i \in 1 .. m}
  <1>1. (\A i \in 1 .. n : s[i] \in V) /\ (\A i \in 1 .. m : t[i] \in V)
    OBVIOUS
  <1> HIDE DEF V
  <1>2. s \in Seq(V)
    <2>1. [i \in 1 .. n |-> s[i]] \in Seq(V)
      BY <1>1, IsASeq
    <2> QED BY <2>1 DEF IsListOf
  <1>3. t \in Seq(V)
    <2>1. [i \in 1 .. m |-> t[i]] \in Seq(V)
      BY <1>1, IsASeq
    <2> QED BY <2>1 DEF IsListOf
  <1>4. Len(s) = n /\ Len(t) = m
    BY ListOf DEF IsListOf
  <1>5. /\ u \in Seq(V) /\ Len(u) = n + m
        /\ \A i \in 1 .. n + m : u[i] = IF i <= n THEN s[i] ELSE t[i - n]
    BY <1>2, <1>3, <1>4, ConcatProperties
  <1>6. IsListOf(u, n + m)
    BY <1>5, LenProperties DEF IsListOf
  <1>7. \A i \in 1 .. n : u[i] = s[i]
    <2> TAKE i \in 1 .. n
    <2>1. i \in 1 .. n + m /\ i <= n
      OBVIOUS
    <2> QED BY <1>5, <2>1
  <1>8. \A i \in 1 .. m : u[n + i] = t[i]
    <2> TAKE i \in 1 .. m
    <2>1. n + i \in 1 .. n + m /\ ~(n + i <= n) /\ (n + i) - n = i
      OBVIOUS
    <2> QED BY <1>5, <2>1
  <1> QED BY <1>5, <1>6, <1>7, <1>8 DEF IsJoin

\* As many different things as the list has places.
LEMMA DifferentCount ==
  ASSUME NEW n \in Nat, NEW f, \A i, j \in 1 .. n : f[i] = f[j] => i = j
  PROVE  Cardinality({f[i] : i \in 1 .. n}) = n
  <1> DEFINE S == 1 .. n
             T == {f[i] : i \in 1 .. n}
             g == [i \in S |-> f[i]]
  <1>1. IsFiniteSet(S) /\ Cardinality(S) = n
    <2>1. 1 \in Int /\ n \in Int
      OBVIOUS
    <2>2. IsFiniteSet(1 .. n) /\ Cardinality(1 .. n) = IF 1 > n THEN 0 ELSE n - 1 + 1
      BY <2>1, FS_Interval
    <2> QED BY <2>2
  <1>2. g \in Bijection(S, T)
    BY DEF Bijection, Injection, Surjection, IsInjective
  <1>3. ExistsBijection(S, T)
    BY <1>2 DEF ExistsBijection
  <1> HIDE DEF S, T
  <1>4. Cardinality(T) = Cardinality(S)
    BY <1>1, <1>3, FS_Bijection
  <1> QED BY <1>1, <1>4 DEF T

\* The places of t whose key s has none of, by a key K of its elements.
IsRest(keep, s, n, t, m, K) == keep = {j \in 1 .. m : \A i \in 1 .. n : K[s[i]] # K[t[j]]}

\* The keys of a list, and that each is there once.
KeysOf(s, n, K) == {K[s[i]] : i \in 1 .. n}

KeysDiffer(s, n, K) == \A i, j \in 1 .. n : K[s[i]] = K[s[j]] => i = j

\* What a merge of two lists is: all of the first, then each of the second's
\* places in keep once.
IsMerge(u, s, n, t, keep, c, at) ==
  /\ IsListOf(u, n + c) /\ Len(u) = n + c
  /\ \A i \in 1 .. n : u[i] = s[i]
  /\ \A i \in 1 .. c : at[i] \in keep /\ u[n + i] = t[at[i]]
  /\ \A i, j \in 1 .. c : at[i] = at[j] => i = j
  /\ \A j \in keep : \E i \in 1 .. c : at[i] = j

\* A loser's list retained and added to the winner's is a merge.
LEMMA MergedList ==
  ASSUME NEW n \in Nat, NEW s, IsListOf(s, n), NEW m \in Nat, NEW t, IsListOf(t, m),
         NEW keep \in SUBSET (1 .. m), NEW u, u = s \o Retained(t, keep)
  PROVE  \E c \in Nat : \E at : IsMerge(u, s, n, t, keep, c, at)
  <1> DEFINE V == {t[i] : i \in 1 .. m}
  <1>1. \A i \in 1 .. m : t[i] \in V
    OBVIOUS
  <1> HIDE DEF V
  <1>2. t \in Seq(V)
    <2>1. [i \in 1 .. m |-> t[i]] \in Seq(V)
      BY <1>1, IsASeq
    <2> QED BY <2>1 DEF IsListOf
  <1>3. keep \in SUBSET DOMAIN t
    BY DEF IsListOf
  <1> DEFINE c == Cardinality(keep)
             r == Retained(t, keep)
  <1>4. c \in Nat
    BY <1>2, <1>3, RetainedElements
  <1>5. PICK at \in Bijection(1 .. c, keep) : r = [j \in 1 .. c |-> t[at[j]]]
    BY <1>2, <1>3, RetainedElements
  <1> HIDE DEF c, r
  <1>6. /\ \A i \in 1 .. c : at[i] \in keep
        /\ \A i, j \in 1 .. c : at[i] = at[j] => i = j
        /\ \A j \in keep : \E i \in 1 .. c : at[i] = j
    BY DEF Bijection, Injection, Surjection, IsInjective
  <1>7. IsListOf(r, c) /\ \A i \in 1 .. c : r[i] = t[at[i]]
    BY <1>4, <1>5 DEF IsListOf
  <1>8. /\ IsListOf(u, n + c) /\ Len(u) = n + c
        /\ \A i \in 1 .. n : u[i] = s[i]
        /\ \A i \in 1 .. c : u[n + i] = r[i]
    <2>1. u = s \o r
      BY DEF r
    <2>2. IsListOf(r, c)
      BY <1>7
    <2>3. IsJoin(u, s, n, r, c)
      BY <1>4, <2>1, <2>2, ListJoined
    <2> QED BY <2>3 DEF IsJoin
  <1>9. \A i \in 1 .. c : at[i] \in keep /\ u[n + i] = t[at[i]]
    BY <1>6, <1>7, <1>8
  <1>10. IsMerge(u, s, n, t, keep, c, at)
    BY <1>6, <1>8, <1>9 DEF IsMerge
  <1> QED BY <1>4, <1>10

\* The keys of a merge are those of both, each once.
LEMMA MergedOnce ==
  ASSUME NEW n \in Nat, NEW s, NEW m \in Nat, NEW t, NEW K,
         KeysDiffer(s, n, K), KeysDiffer(t, m, K), NEW keep, IsRest(keep, s, n, t, m, K),
         NEW c \in Nat, NEW at, NEW u, IsMerge(u, s, n, t, keep, c, at)
  PROVE  /\ KeysOf(u, n + c, K) = KeysOf(s, n, K) \cup KeysOf(t, m, K)
         /\ Cardinality(KeysOf(u, n + c, K)) = n + c
  <1>1. keep \in SUBSET (1 .. m)
    BY DEF IsRest
  <1>2. \A i \in 1 .. n + c :
           \/ i \in 1 .. n /\ u[i] = s[i]
           \/ \E j \in 1 .. c : i = n + j /\ at[j] \in keep /\ at[j] \in 1 .. m /\ u[i] = t[at[j]]
    <2> TAKE i \in 1 .. n + c
    <2>1. CASE i <= n
      BY <2>1 DEF IsMerge
    <2>2. CASE ~(i <= n)
      <3>1. PICK j \in 1 .. c : i = n + j
        <4>1. i - n \in 1 .. c /\ i = n + (i - n)
          BY <2>2
        <4> QED BY <4>1
      <3>2. at[j] \in keep /\ u[n + j] = t[at[j]]
        BY DEF IsMerge
      <3> QED BY <1>1, <3>1, <3>2
    <2> QED BY <2>1, <2>2
  <1>3. \A x \in 1 .. n, j \in keep : K[s[x]] # K[t[j]]
    BY DEF IsRest
  <1>4. \A i, j \in 1 .. n + c : K[u[i]] = K[u[j]] => i = j
    <2> SUFFICES ASSUME NEW i \in 1 .. n + c, NEW j \in 1 .. n + c, K[u[i]] = K[u[j]] PROVE i = j
      OBVIOUS
    <2>1. CASE (i \in 1 .. n /\ u[i] = s[i]) /\ (j \in 1 .. n /\ u[j] = s[j])
      BY <2>1 DEF KeysDiffer
    <2>2. ASSUME NEW x \in 1 .. c, i = n + x, at[x] \in 1 .. m, u[i] = t[at[x]],
                 NEW y \in 1 .. c, j = n + y, at[y] \in 1 .. m, u[j] = t[at[y]]
          PROVE  i = j
      <3>1. at[x] = at[y]
        BY <2>2 DEF KeysDiffer
      <3>2. x = y
        BY <3>1 DEF IsMerge
      <3> QED BY <2>2, <3>2
    <2>3. ASSUME i \in 1 .. n, u[i] = s[i], NEW y \in 1 .. c, at[y] \in keep, u[j] = t[at[y]]
          PROVE  FALSE
      BY <1>3, <2>3
    <2>4. ASSUME j \in 1 .. n, u[j] = s[j], NEW x \in 1 .. c, at[x] \in keep, u[i] = t[at[x]]
          PROVE  FALSE
      BY <1>3, <2>4
    <2>5. CASE i \in 1 .. n /\ u[i] = s[i]
      BY <1>2, <2>1, <2>3, <2>5
    <2>6. CASE ~(i \in 1 .. n /\ u[i] = s[i])
      <3>1. PICK x \in 1 .. c : i = n + x /\ at[x] \in keep /\ at[x] \in 1 .. m /\ u[i] = t[at[x]]
        BY <1>2, <2>6
      <3>2. CASE j \in 1 .. n /\ u[j] = s[j]
        BY <2>4, <3>1, <3>2
      <3>3. CASE ~(j \in 1 .. n /\ u[j] = s[j])
        <4>1. PICK y \in 1 .. c : j = n + y /\ at[y] \in keep /\ at[y] \in 1 .. m /\ u[j] = t[at[y]]
          BY <1>2, <3>3
        <4> QED BY <2>2, <3>1, <4>1
      <3> QED BY <3>2, <3>3
    <2> QED BY <2>5, <2>6
  <1>5. Cardinality(KeysOf(u, n + c, K)) = n + c
    <2>1. PICK f : f = [i \in 1 .. n + c |-> K[u[i]]]
      OBVIOUS
    <2>2. \A i \in 1 .. n + c : f[i] = K[u[i]]
      BY <2>1
    <2>3. \A i, j \in 1 .. n + c : f[i] = f[j] => i = j
      BY <1>4, <2>2
    <2>4. PICK N \in Nat : N = n + c
      OBVIOUS
    <2>5. Cardinality({f[i] : i \in 1 .. N}) = N
      BY <2>3, <2>4, DifferentCount
    <2>6. {f[i] : i \in 1 .. N} = KeysOf(u, N, K)
      BY <2>2, <2>4 DEF KeysOf
    <2> QED BY <2>4, <2>5, <2>6
  <1> DEFINE all == KeysOf(u, n + c, K)
  <1>6. \A i \in 1 .. n + c : K[u[i]] \in KeysOf(s, n, K) \cup KeysOf(t, m, K)
    <2> TAKE i \in 1 .. n + c
    <2>1. CASE i \in 1 .. n /\ u[i] = s[i]
      BY <2>1 DEF KeysOf
    <2>2. ASSUME NEW j \in 1 .. c, at[j] \in 1 .. m, u[i] = t[at[j]]
          PROVE  K[u[i]] \in KeysOf(t, m, K)
      BY <2>2 DEF KeysOf
    <2> QED BY <1>2, <2>1, <2>2
  <1>7. \A i \in 1 .. n : K[s[i]] \in all
    <2> TAKE i \in 1 .. n
    <2>1. i \in 1 .. n + c /\ u[i] = s[i]
      BY DEF IsMerge
    <2> QED BY <2>1 DEF KeysOf
  <1>8. \A j \in 1 .. m : K[t[j]] \in all
    <2> TAKE j \in 1 .. m
    <2>1. CASE j \in keep
      <3>1. PICK i \in 1 .. c : at[i] = j
        BY <2>1 DEF IsMerge
      <3>2. u[n + i] = t[j]
        BY <3>1 DEF IsMerge
      <3>3. n + i \in 1 .. n + c
        OBVIOUS
      <3> QED BY <3>2, <3>3 DEF KeysOf
    <2>2. CASE j \notin keep
      <3>1. PICK i \in 1 .. n : K[s[i]] = K[t[j]]
        BY <2>2 DEF IsRest
      <3>2. K[s[i]] \in all
        BY <1>7
      <3> QED BY <3>1, <3>2
    <2> QED BY <2>1, <2>2
  <1>9. all \subseteq KeysOf(s, n, K) \cup KeysOf(t, m, K)
    <2> DEFINE both == KeysOf(s, n, K) \cup KeysOf(t, m, K)
    <2>1. \A i \in 1 .. n + c : K[u[i]] \in both
      BY <1>6
    <2> HIDE DEF both
    <2>2. all \subseteq both
      BY <2>1 DEF KeysOf
    <2> QED BY <2>2 DEF both
  <1> HIDE DEF all
  <1>10. KeysOf(s, n, K) \subseteq all /\ KeysOf(t, m, K) \subseteq all
    BY <1>7, <1>8 DEF KeysOf
  <1>11. all = KeysOf(s, n, K) \cup KeysOf(t, m, K)
    BY <1>9, <1>10
  <1> QED BY <1>5, <1>11 DEF all

\* s is a list.
IsPlain(s) == Len(s) \in Nat /\ s = [i \in 1 .. Len(s) |-> s[i]]

\* What a delta spawned, and what it changed.
EntitiesIn(s) == {s[i].entity : i \in DOMAIN s}
ComponentsIn(s) == {<<s[i].entity, s[i].component>> : i \in DOMAIN s}

\* u is the merge of s and t by their elements' keys K.
MergedBy(u, s, t, K) ==
  /\ IsListOf(u, Len(u)) /\ Len(u) \in Nat
  /\ \A i \in 1 .. Len(s) : i \in 1 .. Len(u) /\ u[i] = s[i]
  /\ \A i \in 1 .. Len(u) : \/ \E j \in 1 .. Len(s) : u[i] = s[j]
                            \/ \E j \in 1 .. Len(t) : u[i] = t[j]
  /\ KeysOf(u, Len(u), K) = KeysOf(s, Len(s), K) \cup KeysOf(t, Len(t), K)
  /\ Cardinality(KeysOf(u, Len(u), K)) = Len(u)

\* What Merged makes of two lists is a merge by their keys.
LEMMA MergedByKeys ==
  ASSUME NEW s, IsPlain(s), NEW t, IsPlain(t), NEW K, KeysDiffer(s, Len(s), K), KeysDiffer(t, Len(t), K),
         NEW keep, IsRest(keep, s, Len(s), t, Len(t), K), NEW u, u = s \o Retained(t, keep)
  PROVE  MergedBy(u, s, t, K)
  <1>1. PICK n \in Nat : n = Len(s)
    BY DEF IsPlain
  <1>2. PICK m \in Nat : m = Len(t)
    BY DEF IsPlain
  <1>3. IsListOf(s, n) /\ IsListOf(t, m)
    BY <1>1, <1>2 DEF IsPlain, IsListOf
  <1>4. keep \in SUBSET (1 .. m)
    BY <1>2 DEF IsRest
  <1>5. PICK c \in Nat : \E at : IsMerge(u, s, n, t, keep, c, at)
    BY <1>3, <1>4, MergedList
  <1>6. PICK at : IsMerge(u, s, n, t, keep, c, at)
    BY <1>5
  <1>7. /\ KeysOf(u, n + c, K) = KeysOf(s, n, K) \cup KeysOf(t, m, K)
        /\ Cardinality(KeysOf(u, n + c, K)) = n + c
    <2>1. KeysDiffer(s, n, K) /\ KeysDiffer(t, m, K) /\ IsRest(keep, s, n, t, m, K)
      BY <1>1, <1>2
    <2> QED BY <1>6, <2>1, MergedOnce
  <1>8. Len(u) = n + c /\ IsListOf(u, n + c) /\ n + c \in Nat
    BY <1>6 DEF IsMerge
  <1>9. \A i \in 1 .. n : i \in 1 .. n + c /\ u[i] = s[i]
    BY <1>6 DEF IsMerge
  <1>10. \A i \in 1 .. n + c : \/ \E j \in 1 .. n : u[i] = s[j]
                               \/ \E j \in 1 .. m : u[i] = t[j]
    <2> TAKE i \in 1 .. n + c
    <2>1. CASE i <= n
      <3>1. i \in 1 .. n
        BY <2>1
      <3>2. u[i] = s[i]
        BY <1>9, <3>1
      <3> QED BY <3>1, <3>2
    <2>2. CASE ~(i <= n)
      <3>1. PICK j \in 1 .. c : i = n + j
        <4>1. i - n \in 1 .. c /\ i = n + (i - n)
          BY <2>2
        <4> QED BY <4>1
      <3>2. at[j] \in keep /\ u[n + j] = t[at[j]]
        BY <1>6 DEF IsMerge
      <3>3. at[j] \in 1 .. m /\ u[i] = t[at[j]]
        BY <1>4, <3>1, <3>2
      <3> QED BY <3>3
    <2> QED BY <2>1, <2>2
  <1> QED BY <1>1, <1>2, <1>7, <1>8, <1>9, <1>10 DEF MergedBy

\* The places of a list.
LEMMA PlainDomain ==
  ASSUME NEW s, IsPlain(s) PROVE DOMAIN s = 1 .. Len(s)
  BY DEF IsPlain

\* A list's entities as its keys.
LEMMA EntitiesAreKeys ==
  ASSUME NEW s, NEW n, DOMAIN s = 1 .. n, NEW K, \A i \in 1 .. n : K[s[i]] = s[i].entity
  PROVE  KeysOf(s, n, K) = EntitiesIn(s)
  <1>1. ASSUME NEW x \in KeysOf(s, n, K) PROVE x \in EntitiesIn(s)
    <2>1. PICK i \in 1 .. n : x = K[s[i]]
      BY <1>1 DEF KeysOf
    <2>2. x = s[i].entity /\ i \in DOMAIN s
      BY <2>1
    <2> QED BY <2>2 DEF EntitiesIn
  <1>2. ASSUME NEW x \in EntitiesIn(s) PROVE x \in KeysOf(s, n, K)
    <2>1. PICK i \in DOMAIN s : x = s[i].entity
      BY <1>2 DEF EntitiesIn
    <2>2. x = K[s[i]] /\ i \in 1 .. n
      BY <2>1
    <2> QED BY <2>2 DEF KeysOf
  <1> QED BY <1>1, <1>2

\* The places of t with entities s has none of.
EntitiesRest(keep, s, t) == keep = {j \in DOMAIN t : \A i \in DOMAIN s : s[i].entity # t[j].entity}

\* A merge by entities: those of both, each once.
LEMMA EntitiesMerged ==
  ASSUME NEW s, IsPlain(s), \A i, j \in DOMAIN s : s[i].entity = s[j].entity => i = j,
         NEW t, IsPlain(t), \A i, j \in DOMAIN t : t[i].entity = t[j].entity => i = j,
         NEW keep, EntitiesRest(keep, s, t),
         NEW u, u = s \o Retained(t, keep)
  PROVE  EntitiesIn(u) = EntitiesIn(s) \cup EntitiesIn(t) /\ Cardinality(EntitiesIn(u)) = Len(u)
  <1>1. PICK n, m : n = Len(s) /\ m = Len(t)
    OBVIOUS
  <1>2. DOMAIN s = 1 .. n /\ DOMAIN t = 1 .. m
    BY <1>1, PlainDomain
  <1>3. PICK K : K = [x \in {s[i] : i \in 1 .. n} \cup {t[j] : j \in 1 .. m} |-> x.entity]
    OBVIOUS
  <1>4. \A i \in 1 .. n : K[s[i]] = s[i].entity
    BY <1>3
  <1>5. \A j \in 1 .. m : K[t[j]] = t[j].entity
    BY <1>3
  <1>6. IsRest(keep, s, n, t, m, K)
    BY <1>2, <1>4, <1>5 DEF IsRest, EntitiesRest
  <1>7. KeysDiffer(s, n, K)
    <2> SUFFICES ASSUME NEW i \in 1 .. n, NEW j \in 1 .. n, K[s[i]] = K[s[j]] PROVE i = j
      BY DEF KeysDiffer
    <2>1. s[i].entity = s[j].entity
      BY <1>4
    <2> QED BY <1>2, <2>1
  <1>8. KeysDiffer(t, m, K)
    <2> SUFFICES ASSUME NEW i \in 1 .. m, NEW j \in 1 .. m, K[t[i]] = K[t[j]] PROVE i = j
      BY DEF KeysDiffer
    <2>1. t[i].entity = t[j].entity
      BY <1>5
    <2> QED BY <1>2, <2>1
  <1>9. MergedBy(u, s, t, K)
    BY <1>1, <1>6, <1>7, <1>8, MergedByKeys
  <1>10. PICK v : v = u
    OBVIOUS
  <1>11. MergedBy(v, s, t, K)
    BY <1>9, <1>10
  <1>12. \A i \in 1 .. Len(v) : K[v[i]] = v[i].entity
    <2> TAKE i \in 1 .. Len(v)
    <2>1. (\E j \in 1 .. n : v[i] = s[j]) \/ (\E j \in 1 .. m : v[i] = t[j])
      BY <1>1, <1>11 DEF MergedBy
    <2> QED BY <1>4, <1>5, <2>1
  <1>13. DOMAIN v = 1 .. Len(v)
    BY <1>11 DEF MergedBy, IsListOf
  <1>14. KeysOf(v, Len(v), K) = EntitiesIn(v)
    BY <1>12, <1>13, EntitiesAreKeys
  <1>15. KeysOf(s, n, K) = EntitiesIn(s)
    BY <1>2, <1>4, EntitiesAreKeys
  <1>16. KeysOf(t, m, K) = EntitiesIn(t)
    BY <1>2, <1>5, EntitiesAreKeys
  <1> QED BY <1>1, <1>11, <1>14, <1>15, <1>16, <1>10 DEF MergedBy
\* A list's components as its keys.
LEMMA ComponentsAreKeys ==
  ASSUME NEW s, NEW n, DOMAIN s = 1 .. n, NEW K, \A i \in 1 .. n : K[s[i]] = <<s[i].entity, s[i].component>>
  PROVE  KeysOf(s, n, K) = ComponentsIn(s)
  <1>1. ASSUME NEW x \in KeysOf(s, n, K) PROVE x \in ComponentsIn(s)
    <2>1. PICK i \in 1 .. n : x = K[s[i]]
      BY <1>1 DEF KeysOf
    <2>2. x = <<s[i].entity, s[i].component>> /\ i \in DOMAIN s
      BY <2>1
    <2> QED BY <2>2 DEF ComponentsIn
  <1>2. ASSUME NEW x \in ComponentsIn(s) PROVE x \in KeysOf(s, n, K)
    <2>1. PICK i \in DOMAIN s : x = <<s[i].entity, s[i].component>>
      BY <1>2 DEF ComponentsIn
    <2>2. x = K[s[i]] /\ i \in 1 .. n
      BY <2>1
    <2> QED BY <2>2 DEF KeysOf
  <1> QED BY <1>1, <1>2

\* The places of t with components s has none of.
ComponentsRest(keep, s, t) ==
  keep = {j \in DOMAIN t : \A i \in DOMAIN s :
            <<s[i].entity, s[i].component>> # <<t[j].entity, t[j].component>>}

\* A merge by components: those of both, each once.
LEMMA ComponentsMerged ==
  ASSUME NEW s, IsPlain(s),
         \A i, j \in DOMAIN s :
           <<s[i].entity, s[i].component>> = <<s[j].entity, s[j].component>> => i = j,
         NEW t, IsPlain(t),
         \A i, j \in DOMAIN t :
           <<t[i].entity, t[i].component>> = <<t[j].entity, t[j].component>> => i = j,
         NEW keep, ComponentsRest(keep, s, t),
         NEW u, u = s \o Retained(t, keep)
  PROVE  /\ ComponentsIn(u) = ComponentsIn(s) \cup ComponentsIn(t) /\ Cardinality(ComponentsIn(u)) = Len(u)
         /\ ToSet(s) \subseteq ToSet(u)
  <1>1. PICK n, m : n = Len(s) /\ m = Len(t)
    OBVIOUS
  <1>2. DOMAIN s = 1 .. n /\ DOMAIN t = 1 .. m
    BY <1>1, PlainDomain
  <1>3. PICK K : K = [x \in {s[i] : i \in 1 .. n} \cup {t[j] : j \in 1 .. m} |-> <<x.entity, x.component>>]
    OBVIOUS
  <1>4. \A i \in 1 .. n : K[s[i]] = <<s[i].entity, s[i].component>>
    BY <1>3
  <1>5. \A j \in 1 .. m : K[t[j]] = <<t[j].entity, t[j].component>>
    BY <1>3
  <1>6. IsRest(keep, s, n, t, m, K)
    BY <1>2, <1>4, <1>5 DEF IsRest, ComponentsRest
  <1>7. KeysDiffer(s, n, K)
    <2> SUFFICES ASSUME NEW i \in 1 .. n, NEW j \in 1 .. n, K[s[i]] = K[s[j]] PROVE i = j
      BY DEF KeysDiffer
    <2>1. <<s[i].entity, s[i].component>> = <<s[j].entity, s[j].component>>
      BY <1>4
    <2> QED BY <1>2, <2>1
  <1>8. KeysDiffer(t, m, K)
    <2> SUFFICES ASSUME NEW i \in 1 .. m, NEW j \in 1 .. m, K[t[i]] = K[t[j]] PROVE i = j
      BY DEF KeysDiffer
    <2>1. <<t[i].entity, t[i].component>> = <<t[j].entity, t[j].component>>
      BY <1>5
    <2> QED BY <1>2, <2>1
  <1>9. MergedBy(u, s, t, K)
    BY <1>1, <1>6, <1>7, <1>8, MergedByKeys
  <1>10. PICK v : v = u
    OBVIOUS
  <1>11. MergedBy(v, s, t, K)
    BY <1>9, <1>10
  <1>12. \A i \in 1 .. Len(v) : K[v[i]] = <<v[i].entity, v[i].component>>
    <2> TAKE i \in 1 .. Len(v)
    <2>1. (\E j \in 1 .. n : v[i] = s[j]) \/ (\E j \in 1 .. m : v[i] = t[j])
      BY <1>1, <1>11 DEF MergedBy
    <2> QED BY <1>4, <1>5, <2>1
  <1>13. DOMAIN v = 1 .. Len(v)
    BY <1>11 DEF MergedBy, IsListOf
  <1>14. KeysOf(v, Len(v), K) = ComponentsIn(v)
    BY <1>12, <1>13, ComponentsAreKeys
  <1>15. KeysOf(s, n, K) = ComponentsIn(s)
    BY <1>2, <1>4, ComponentsAreKeys
  <1>16. KeysOf(t, m, K) = ComponentsIn(t)
    BY <1>2, <1>5, ComponentsAreKeys
  <1>17. ToSet(s) \subseteq ToSet(v)
    <2> SUFFICES ASSUME NEW x \in ToSet(s) PROVE x \in ToSet(v)
      OBVIOUS
    <2>1. PICK i \in 1 .. n : x = s[i]
      BY <1>2 DEF ToSet
    <2>2. i \in DOMAIN v /\ x = v[i]
      BY <1>1, <1>11, <1>13, <2>1 DEF MergedBy
    <2> QED BY <2>2 DEF ToSet
  <1> QED BY <1>1, <1>11, <1>14, <1>15, <1>16, <1>17, <1>10 DEF MergedBy
\* A list's elements as its keys.
LEMMA ItemsAreKeys ==
  ASSUME NEW s, NEW n, DOMAIN s = 1 .. n, NEW K, \A i \in 1 .. n : K[s[i]] = s[i]
  PROVE  KeysOf(s, n, K) = ToSet(s)
  <1>1. ASSUME NEW x \in KeysOf(s, n, K) PROVE x \in ToSet(s)
    <2>1. PICK i \in 1 .. n : x = K[s[i]]
      BY <1>1 DEF KeysOf
    <2>2. x = s[i] /\ i \in DOMAIN s
      BY <2>1
    <2> QED BY <2>2 DEF ToSet
  <1>2. ASSUME NEW x \in ToSet(s) PROVE x \in KeysOf(s, n, K)
    <2>1. PICK i \in DOMAIN s : x = s[i]
      BY <1>2 DEF ToSet
    <2>2. x = K[s[i]] /\ i \in 1 .. n
      BY <2>1
    <2> QED BY <2>2 DEF KeysOf
  <1> QED BY <1>1, <1>2

\* The places of t with elements s has none of.
ItemsRest(keep, s, t) == keep = {j \in DOMAIN t : \A i \in DOMAIN s : s[i] # t[j]}

\* A merge by elements: those of both, each once.
LEMMA ItemsMerged ==
  ASSUME NEW s, IsPlain(s), \A i, j \in DOMAIN s : s[i] = s[j] => i = j,
         NEW t, IsPlain(t), \A i, j \in DOMAIN t : t[i] = t[j] => i = j,
         NEW keep, ItemsRest(keep, s, t),
         NEW u, u = s \o Retained(t, keep)
  PROVE  ToSet(u) = ToSet(s) \cup ToSet(t) /\ Cardinality(ToSet(u)) = Len(u)
  <1>1. PICK n, m : n = Len(s) /\ m = Len(t)
    OBVIOUS
  <1>2. DOMAIN s = 1 .. n /\ DOMAIN t = 1 .. m
    BY <1>1, PlainDomain
  <1>3. PICK K : K = [x \in {s[i] : i \in 1 .. n} \cup {t[j] : j \in 1 .. m} |-> x]
    OBVIOUS
  <1>4. \A i \in 1 .. n : K[s[i]] = s[i]
    BY <1>3
  <1>5. \A j \in 1 .. m : K[t[j]] = t[j]
    BY <1>3
  <1>6. IsRest(keep, s, n, t, m, K)
    BY <1>2, <1>4, <1>5 DEF IsRest, ItemsRest
  <1>7. KeysDiffer(s, n, K)
    <2> SUFFICES ASSUME NEW i \in 1 .. n, NEW j \in 1 .. n, K[s[i]] = K[s[j]] PROVE i = j
      BY DEF KeysDiffer
    <2>1. s[i] = s[j]
      BY <1>4
    <2> QED BY <1>2, <2>1
  <1>8. KeysDiffer(t, m, K)
    <2> SUFFICES ASSUME NEW i \in 1 .. m, NEW j \in 1 .. m, K[t[i]] = K[t[j]] PROVE i = j
      BY DEF KeysDiffer
    <2>1. t[i] = t[j]
      BY <1>5
    <2> QED BY <1>2, <2>1
  <1>9. MergedBy(u, s, t, K)
    BY <1>1, <1>6, <1>7, <1>8, MergedByKeys
  <1>10. PICK v : v = u
    OBVIOUS
  <1>11. MergedBy(v, s, t, K)
    BY <1>9, <1>10
  <1>12. \A i \in 1 .. Len(v) : K[v[i]] = v[i]
    <2> TAKE i \in 1 .. Len(v)
    <2>1. (\E j \in 1 .. n : v[i] = s[j]) \/ (\E j \in 1 .. m : v[i] = t[j])
      BY <1>1, <1>11 DEF MergedBy
    <2> QED BY <1>4, <1>5, <2>1
  <1>13. DOMAIN v = 1 .. Len(v)
    BY <1>11 DEF MergedBy, IsListOf
  <1>14. KeysOf(v, Len(v), K) = ToSet(v)
    BY <1>12, <1>13, ItemsAreKeys
  <1>15. KeysOf(s, n, K) = ToSet(s)
    BY <1>2, <1>4, ItemsAreKeys
  <1>16. KeysOf(t, m, K) = ToSet(t)
    BY <1>2, <1>5, ItemsAreKeys
  <1> QED BY <1>1, <1>11, <1>14, <1>15, <1>16, <1>10 DEF MergedBy

\* What both peers make of a winner's delta and a loser's.
WellMerged(m, w, l) ==
  /\ ToSet(w.changed) \subseteq ToSet(m.changed)
  /\ ComponentsIn(m.changed) = ComponentsIn(w.changed) \cup ComponentsIn(l.changed)
  /\ Cardinality(ComponentsIn(m.changed)) = Len(m.changed)
  /\ EntitiesIn(m.spawned) = EntitiesIn(w.spawned) \cup EntitiesIn(l.spawned)
  /\ Cardinality(EntitiesIn(m.spawned)) = Len(m.spawned)
  /\ ToSet(m.despawned) = ToSet(w.despawned) \cup ToSet(l.despawned)
  /\ ToSet(l.events) \subseteq ToSet(m.events)

\* A delta's lists name a key once.
ToldOnce(d) ==
  /\ IsPlain(d.spawned) /\ IsPlain(d.despawned) /\ IsPlain(d.changed) /\ IsPlain(d.events)
  /\ \A i, j \in DOMAIN d.spawned : d.spawned[i].entity = d.spawned[j].entity => i = j
  /\ \A i, j \in DOMAIN d.despawned : d.despawned[i] = d.despawned[j] => i = j
  /\ \A i, j \in DOMAIN d.changed :
       <<d.changed[i].entity, d.changed[i].component>> = <<d.changed[j].entity, d.changed[j].component>>
         => i = j

\* So do the editors'.
LEMMA EditsToldOnce == \A d \in Edits : ToldOnce(d)
  BY EditsAssumption DEF KeysOnce, ToldOnce, IsPlain

\* The lists of a merge as resolve_conflict makes them of a winner and a loser.
ListsMerged(m, w, l) ==
  /\ m.spawned = w.spawned \o Retained(l.spawned,
       {j \in DOMAIN l.spawned : \A i \in DOMAIN w.spawned : w.spawned[i].entity # l.spawned[j].entity})
  /\ m.despawned = w.despawned \o Retained(l.despawned,
       {j \in DOMAIN l.despawned : \A i \in DOMAIN w.despawned : w.despawned[i] # l.despawned[j]})
  /\ m.changed = w.changed \o Retained(l.changed,
       {j \in DOMAIN l.changed : \A i \in DOMAIN w.changed :
          <<w.changed[i].entity, w.changed[i].component>> # <<l.changed[j].entity, l.changed[j].component>>})
  /\ m.events = w.events \o l.events

\* Such lists leave out nothing and have nothing twice.
LEMMA ResolvedWell ==
  ASSUME NEW w, NEW l, ToldOnce(w), ToldOnce(l), NEW m, ListsMerged(m, w, l)
  PROVE  WellMerged(m, w, l)
  <1>1. /\ EntitiesIn(m.spawned) = EntitiesIn(w.spawned) \cup EntitiesIn(l.spawned)
        /\ Cardinality(EntitiesIn(m.spawned)) = Len(m.spawned)
    <2>1. PICK s, t : s = w.spawned /\ t = l.spawned
      OBVIOUS
    <2>2. PICK u : u = m.spawned
      OBVIOUS
    <2>3. PICK keep : keep = {j \in DOMAIN t : \A i \in DOMAIN s : s[i].entity # t[j].entity}
      OBVIOUS
    <2>4. u = s \o Retained(t, keep)
      BY <2>1, <2>2, <2>3 DEF ListsMerged
    <2>5. IsPlain(s) /\ IsPlain(t)
      BY <2>1 DEF ToldOnce
    <2>6. \A i, j \in DOMAIN s : s[i].entity = s[j].entity => i = j
      BY <2>1 DEF ToldOnce
    <2>7. \A i, j \in DOMAIN t : t[i].entity = t[j].entity => i = j
      BY <2>1 DEF ToldOnce
    <2>8. EntitiesRest(keep, s, t)
      BY <2>3 DEF EntitiesRest
    <2>9. EntitiesIn(u) = EntitiesIn(s) \cup EntitiesIn(t) /\ Cardinality(EntitiesIn(u)) = Len(u)
      BY <2>4, <2>5, <2>6, <2>7, <2>8, EntitiesMerged
    <2> QED BY <2>1, <2>2, <2>9
  <1>2. ToSet(m.despawned) = ToSet(w.despawned) \cup ToSet(l.despawned)
    <2>1. PICK s, t : s = w.despawned /\ t = l.despawned
      OBVIOUS
    <2>2. PICK u : u = m.despawned
      OBVIOUS
    <2>3. PICK keep : keep = {j \in DOMAIN t : \A i \in DOMAIN s : s[i] # t[j]}
      OBVIOUS
    <2>4. u = s \o Retained(t, keep)
      BY <2>1, <2>2, <2>3 DEF ListsMerged
    <2>5. IsPlain(s) /\ IsPlain(t)
      BY <2>1 DEF ToldOnce
    <2>6. \A i, j \in DOMAIN s : s[i] = s[j] => i = j
      BY <2>1 DEF ToldOnce
    <2>7. \A i, j \in DOMAIN t : t[i] = t[j] => i = j
      BY <2>1 DEF ToldOnce
    <2>8. ItemsRest(keep, s, t)
      BY <2>3 DEF ItemsRest
    <2>9. ToSet(u) = ToSet(s) \cup ToSet(t)
      BY <2>4, <2>5, <2>6, <2>7, <2>8, ItemsMerged
    <2> QED BY <2>1, <2>2, <2>9
  <1>3. /\ ToSet(w.changed) \subseteq ToSet(m.changed)
        /\ ComponentsIn(m.changed) = ComponentsIn(w.changed) \cup ComponentsIn(l.changed)
        /\ Cardinality(ComponentsIn(m.changed)) = Len(m.changed)
    <2>1. PICK s, t : s = w.changed /\ t = l.changed
      OBVIOUS
    <2>2. PICK u : u = m.changed
      OBVIOUS
    <2>3. PICK keep : keep = {j \in DOMAIN t : \A i \in DOMAIN s :
                                <<s[i].entity, s[i].component>> # <<t[j].entity, t[j].component>>}
      OBVIOUS
    <2>4. u = s \o Retained(t, keep)
      BY <2>1, <2>2, <2>3 DEF ListsMerged
    <2>5. IsPlain(s) /\ IsPlain(t)
      BY <2>1 DEF ToldOnce
    <2>6. \A i, j \in DOMAIN s : <<s[i].entity, s[i].component>> = <<s[j].entity, s[j].component>> => i = j
      BY <2>1 DEF ToldOnce
    <2>7. \A i, j \in DOMAIN t : <<t[i].entity, t[i].component>> = <<t[j].entity, t[j].component>> => i = j
      BY <2>1 DEF ToldOnce
    <2>8. ComponentsRest(keep, s, t)
      BY <2>3 DEF ComponentsRest
    <2>9. ComponentsIn(u) = ComponentsIn(s) \cup ComponentsIn(t) /\ Cardinality(ComponentsIn(u)) = Len(u)
          /\ ToSet(s) \subseteq ToSet(u)
      BY <2>4, <2>5, <2>6, <2>7, <2>8, ComponentsMerged
    <2> QED BY <2>1, <2>2, <2>9
  <1>4. ToSet(l.events) \subseteq ToSet(m.events)
    <2>1. PICK s, t : s = w.events /\ t = l.events
      OBVIOUS
    <2>2. PICK n \in Nat : n = Len(s)
      BY <2>1 DEF ToldOnce, IsPlain
    <2>3. PICK k \in Nat : k = Len(t)
      BY <2>1 DEF ToldOnce, IsPlain
    <2>4. PICK u : u = m.events
      OBVIOUS
    <2>5. u = s \o t
      BY <2>1, <2>4 DEF ListsMerged
    <2>6. IsListOf(s, n) /\ IsListOf(t, k)
      BY <2>3, <2>1, <2>2 DEF ToldOnce, IsPlain, IsListOf
    <2>7. IsJoin(u, s, n, t, k)
      BY <2>5, <2>6, ListJoined
    <2>8. ASSUME NEW x \in ToSet(t) PROVE x \in ToSet(u)
      <3>1. PICK i \in 1 .. k : x = t[i]
        BY <2>6 DEF ToSet, IsListOf
      <3>2. u[n + i] = t[i] /\ DOMAIN u = 1 .. n + k
        BY <2>7 DEF IsJoin, IsListOf
      <3>3. n + i \in 1 .. n + k
        OBVIOUS
      <3> QED BY <3>1, <3>2, <3>3 DEF ToSet
    <2> QED BY <2>4, <2>8, <2>1
  <1> QED BY <1>1, <1>2, <1>3, <1>4 DEF WellMerged

\* The higher client's delta wins.
LEMMA ResolvedLists ==
  ASSUME NEW a, NEW b, NEW i \in Nat, NEW j \in Nat
  PROVE  /\ i > j => ListsMerged(Resolve(a, i, b, j), a, b)
         /\ ~(i > j) => ListsMerged(Resolve(a, i, b, j), b, a)
  <1>1. CASE i > j
    BY <1>1 DEF Resolve, Merged, ListsMerged
  <1>2. CASE ~(i > j)
    BY <1>2 DEF Resolve, Merged, ListsMerged
  <1> QED BY <1>1, <1>2

\* Whichever of the two came first.
LEMMA ResolvedAlike ==
  ASSUME NEW a, NEW b, NEW i \in Nat, NEW j \in Nat, i # j
  PROVE  Resolve(b, j, a, i) = Resolve(a, i, b, j)
  <1>1. {a.frame, b.frame} = {b.frame, a.frame} /\ {a.base, b.base} = {b.base, a.base}
    OBVIOUS
  <1>2. CASE i > j
    <2>1. ~(j > i)
      BY <1>2
    <2> QED BY <1>1, <1>2, <2>1 DEF Resolve, Merged
  <1>3. CASE ~(i > j)
    <2>1. j > i
      BY <1>3
    <2> QED BY <1>1, <1>3, <2>1 DEF Resolve, Merged
  <1> QED BY <1>2, <1>3

\* A merge was made of two deltas of two editors.
MergeShown ==
  merge # <<>> => \E a, b \in Edits, i, j \in Editors : i # j /\ merge =
    [a |-> a, b |-> b, first |-> i, second |-> j,
     gave |-> Resolve(a, i, b, j), peer |-> Resolve(b, j, a, i)]

\* Then both peers made the same of them.
LEMMA MergeAgrees == MergeShown => MergeAgreed
  <1> SUFFICES ASSUME MergeShown, merge # <<>> PROVE MergeAgreed
    BY DEF MergeAgreed
  <1>1. PICK a \in Edits, b \in Edits, i \in Editors, j \in Editors : i # j /\ merge =
          [a |-> a, b |-> b, first |-> i, second |-> j,
           gave |-> Resolve(a, i, b, j), peer |-> Resolve(b, j, a, i)]
    BY DEF MergeShown
  <1>2. PICK m, p : m = Resolve(a, i, b, j) /\ p = Resolve(b, j, a, i)
    OBVIOUS
  <1>3. /\ merge.a = a /\ merge.b = b /\ merge.first = i /\ merge.second = j
        /\ merge.gave = m /\ merge.peer = p
    BY <1>1, <1>2
  <1>4. i \in Nat /\ j \in Nat /\ i # j
    BY <1>1, PredictionAssumption
  <1>5. p = m
    BY <1>2, <1>4, ResolvedAlike
  <1>6. ToldOnce(a) /\ ToldOnce(b)
    BY EditsToldOnce
  <1>7. (i > j => WellMerged(m, a, b)) /\ (~(i > j) => WellMerged(m, b, a))
    <2>1. i > j => ListsMerged(m, a, b)
      BY <1>2, <1>4, ResolvedLists
    <2>2. ~(i > j) => ListsMerged(m, b, a)
      BY <1>2, <1>4, ResolvedLists
    <2> QED BY <1>6, <2>1, <2>2, ResolvedWell
  <1>8. PICK w, l : /\ w = IF i > j THEN a ELSE b
                    /\ l = IF w = a THEN b ELSE a
    OBVIOUS
  <1>9. WellMerged(m, w, l) /\ ((w = a /\ l = b) \/ (w = b /\ l = a))
    BY <1>7, <1>8
  <1>10. /\ ToSet(w.changed) \subseteq ToSet(m.changed)
         /\ ComponentsIn(m.changed) = ComponentsIn(a.changed) \cup ComponentsIn(b.changed)
         /\ Cardinality(ComponentsIn(m.changed)) = Len(m.changed)
         /\ EntitiesIn(m.spawned) = EntitiesIn(a.spawned) \cup EntitiesIn(b.spawned)
         /\ Cardinality(EntitiesIn(m.spawned)) = Len(m.spawned)
         /\ ToSet(m.despawned) = ToSet(a.despawned) \cup ToSet(b.despawned)
         /\ ToSet(l.events) \subseteq ToSet(m.events)
    BY <1>9 DEF WellMerged
  <1> DEFINE winner == IF merge.first > merge.second THEN merge.a ELSE merge.b
             loser == IF winner = merge.a THEN merge.b ELSE merge.a
  <1>11. winner = w /\ loser = l
    BY <1>3, <1>8
  <1> HIDE DEF winner, loser
  <1>12. /\ merge.peer = merge.gave
         /\ ToSet(winner.changed) \subseteq ToSet(merge.gave.changed)
         /\ ComponentsIn(merge.gave.changed) = ComponentsIn(merge.a.changed) \cup ComponentsIn(merge.b.changed)
         /\ Cardinality(ComponentsIn(merge.gave.changed)) = Len(merge.gave.changed)
         /\ EntitiesIn(merge.gave.spawned) = EntitiesIn(merge.a.spawned) \cup EntitiesIn(merge.b.spawned)
         /\ Cardinality(EntitiesIn(merge.gave.spawned)) = Len(merge.gave.spawned)
         /\ ToSet(merge.gave.despawned) = ToSet(merge.a.despawned) \cup ToSet(merge.b.despawned)
         /\ ToSet(loser.events) \subseteq ToSet(merge.gave.events)
    BY <1>3, <1>5, <1>10, <1>11
  <1> QED BY <1>12, Zenon DEF MergeAgreed, ComponentsIn, EntitiesIn, winner, loser

\* Whatever two editors changed, in lists of any length, resolve_conflict gives
\* both peers one result, in which nothing is spawned or despawned twice or
\* forgotten and the higher client's writes are kept.
THEOREM MergesStayAgreed == MergeSpec => []MergeAgreed
  <1>1. MergeInit => MergeShown
    BY DEF MergeInit, MergeShown
  <1>2. MergeShown /\ [MergeNext]_merge => MergeShown'
    <2> SUFFICES ASSUME MergeShown, [MergeNext]_merge PROVE MergeShown'
      OBVIOUS
    <2>1. CASE MergeNext
      <3>1. PICK a \in Edits, b \in Edits, i \in Editors, j \in Editors :
                   i # j /\ ResolveConflict(a, i, b, j)
        BY <2>1 DEF MergeNext
      <3>2. merge' = [a |-> a, b |-> b, first |-> i, second |-> j,
                      gave |-> Resolve(a, i, b, j), peer |-> Resolve(b, j, a, i)]
        BY <3>1 DEF ResolveConflict
      <3> QED BY <3>1, <3>2 DEF MergeShown
    <2>2. CASE UNCHANGED merge
      BY <2>2 DEF MergeShown
    <2> QED BY <2>1, <2>2
  <1>3. MergeSpec => []MergeShown
    BY <1>1, <1>2, PTL DEF MergeSpec
  <1> QED BY <1>3, MergeAgrees, PTL

-----------------------------------------------------------------------------
(* EntityCellMap (Prediction) *)

\* Whatever is mapped, mapped again or removed, in whatever order, the two
\* directions of EntityCellMap stay inverse.
THEOREM MapStaysInverse == MapSpec => []MapInverse
  <1>1. MapInit => MapInverse
    BY DEF MapInit, MapInverse
  <1>2. ASSUME MapInverse, NEW e, RemoveMapping(e)
        PROVE  MapInverse'
    <2>1. /\ DOMAIN toCell' = DOMAIN toCell \ {e}
          /\ \A x \in DOMAIN toCell' : toCell'[x] = toCell[x]
      BY <1>2 DEF RemoveMapping, WithoutKey
    <2>2. CASE e \in DOMAIN toCell
      <3>1. /\ DOMAIN toEntity' = DOMAIN toEntity \ {toCell[e]}
            /\ \A x \in DOMAIN toEntity' : toEntity'[x] = toEntity[x]
        BY <1>2, <2>2 DEF RemoveMapping, WithoutKey
      <3> QED BY <1>2, <2>1, <2>2, <3>1 DEF MapInverse
    <2>3. CASE e \notin DOMAIN toCell
      <3>1. toEntity' = toEntity
        BY <1>2, <2>3 DEF RemoveMapping
      <3> QED BY <1>2, <2>1, <2>3, <3>1 DEF MapInverse
    <2> QED BY <2>2, <2>3
  <1>3. ASSUME MapInverse, NEW e \in MapEntities, NEW at \in MapCells, InsertMapping(e, at),
               DOMAIN toCell \subseteq MapEntities, DOMAIN toEntity \subseteq MapCells
        PROVE  MapInverse'
    <2> DEFINE formerCell == {c \in MapCells : e \in DOMAIN toCell /\ toCell[e] = c /\ c # at}
               formerEntity == {o \in MapEntities : at \in DOMAIN toEntity /\ toEntity[at] = o /\ o # e}
               c1 == WithKey(toCell, e, at)
               e1 == WithoutKey(toEntity, formerCell)
    <2>1. toEntity' = WithKey(e1, at, e) /\ toCell' = WithoutKey(c1, formerEntity)
      BY <1>3 DEF InsertMapping
    <2>2. /\ DOMAIN toCell' = (DOMAIN toCell \cup {e}) \ formerEntity
          /\ \A x \in DOMAIN toCell' : toCell'[x] = IF x = e THEN at ELSE toCell[x]
      <3>1. DOMAIN c1 = DOMAIN toCell \cup {e} /\ \A x \in DOMAIN c1 : c1[x] = IF x = e THEN at ELSE toCell[x]
        BY DEF WithKey
      <3> HIDE DEF c1, formerEntity
      <3> QED BY <2>1, <3>1 DEF WithoutKey
    <2>3. /\ DOMAIN toEntity' = (DOMAIN toEntity \ formerCell) \cup {at}
          /\ \A x \in DOMAIN toEntity' : toEntity'[x] = IF x = at THEN e ELSE toEntity[x]
      <3>1. DOMAIN e1 = DOMAIN toEntity \ formerCell /\ \A x \in DOMAIN e1 : e1[x] = toEntity[x]
        BY DEF WithoutKey
      <3> HIDE DEF e1, formerCell
      <3>2. toEntity' = WithKey(e1, at, e)
        BY <2>1
      <3> QED BY <3>1, <3>2 DEF WithKey
    <2>4. \A x \in DOMAIN toCell' : toCell'[x] \in DOMAIN toEntity' /\ toEntity'[toCell'[x]] = x
      BY <1>3, <2>2, <2>3 DEF MapInverse
    <2>5. \A c \in DOMAIN toEntity' : toEntity'[c] \in DOMAIN toCell' /\ toCell'[toEntity'[c]] = c
      BY <1>3, <2>2, <2>3 DEF MapInverse
    <2> QED BY <2>4, <2>5 DEF MapInverse
  <1> DEFINE Inv == MapInverse /\ DOMAIN toCell \subseteq MapEntities /\ DOMAIN toEntity \subseteq MapCells
  <1>4. MapInit => Inv
    BY <1>1 DEF MapInit
  <1>5. Inv /\ [MapNext]_mapVars => Inv'
    <2> SUFFICES ASSUME Inv, [MapNext]_mapVars PROVE Inv'
      OBVIOUS
    <2>1. CASE UNCHANGED mapVars
      BY <2>1 DEF mapVars, MapInverse
    <2>2. ASSUME NEW e \in MapEntities, RemoveMapping(e) PROVE Inv'
      <3>1. DOMAIN toCell' \subseteq MapEntities /\ DOMAIN toEntity' \subseteq MapCells
        BY <2>2 DEF RemoveMapping, WithoutKey
      <3> QED BY <1>2, <2>2, <3>1
    <2>3. ASSUME NEW e \in MapEntities, NEW at \in MapCells, InsertMapping(e, at) PROVE Inv'
      <3>1. DOMAIN toCell' \subseteq MapEntities /\ DOMAIN toEntity' \subseteq MapCells
        BY <2>3 DEF InsertMapping, WithoutKey, WithKey
      <3> QED BY <1>3, <2>3, <3>1
    <2> QED BY <2>1, <2>2, <2>3 DEF MapNext
  <1>6. Inv => MapInverse
    OBVIOUS
  <1> QED BY <1>4, <1>5, <1>6, PTL DEF MapSpec

=============================================================================
