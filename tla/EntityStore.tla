----------------------------- MODULE EntityStore -----------------------------
(***************************************************************************)
(* What a World promises, with no slots, archetypes, rows or columns: a map *)
(* from the entities that exist to their components.  An operation on one   *)
(* entity leaves every other one as it is, and a handle whose entity is     *)
(* gone stays without one, unless a peer spawns in its slot at its          *)
(* generation or below: such a spawn takes the slot's numbering over.       *)
(***************************************************************************)
EXTENDS Naturals

CONSTANTS Entities,    \* records [index, generation]
          Components, Values

VARIABLES store,   \* existing entity -> component it has -> value
          used     \* handles that cannot be handed out again

vars == <<store, used>>

Bundles == UNION {[cs -> Values] : cs \in SUBSET Components}

Init ==
  /\ store = [e \in {} |-> e]
  /\ used = {}

\* Every entity outside gone is as it was.
Keep(gone) == \A x \in DOMAIN store \ gone : x \in DOMAIN store' /\ store'[x] = store[x]

Spawn(e) ==
  /\ e \notin used
  /\ used' = used \union {e}
  /\ DOMAIN store' = DOMAIN store \union {e}
  /\ store'[e] \in Bundles
  /\ Keep({})

\* A peer's entity replaces whatever lives in its slot.
Arrive(e) ==
  LET displaced == {x \in DOMAIN store : x.index = e.index}
  IN /\ used' = {x \in used : x.index = e.index => x.generation < e.generation} \union {e}
     /\ DOMAIN store' = (DOMAIN store \ displaced) \union {e}
     /\ store'[e] \in Bundles
     /\ Keep(displaced)

Despawn(e) ==
  /\ UNCHANGED used
  /\ e \in DOMAIN store
  /\ DOMAIN store' = DOMAIN store \ {e}
  /\ Keep({e})

\* One component of one entity is set, added or taken away.
Update(e) ==
  /\ UNCHANGED used
  /\ e \in DOMAIN store
  /\ DOMAIN store' = DOMAIN store
  /\ store'[e] \in Bundles
  /\ \E c \in Components : \A d \in Components \ {c} :
       /\ d \in DOMAIN store'[e] <=> d \in DOMAIN store[e]
       /\ d \in DOMAIN store[e] => store'[e][d] = store[e][d]
  /\ Keep({e})

Next == \E e \in Entities : Spawn(e) \/ Arrive(e) \/ Despawn(e) \/ Update(e)

Spec == Init /\ [][Next]_vars

==============================================================================
