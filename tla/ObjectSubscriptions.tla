------------------------- MODULE ObjectSubscriptions -------------------------
(***************************************************************************)
(* object_subscriptions.rs and the places of world.rs and mut_guard.rs that *)
(* call back: subscribers of an object are told every write to a component *)
(* of an entity that belongs to it, inside the write, with the new value.  *)
(*                                                                         *)
(* The resolver is the one of the repository's README: an entity belongs   *)
(* to what its Owner component names, or to itself.  It runs before the    *)
(* write in some operations and after it in others, and between the pushes *)
(* of a bundle it looks at an entity whose later columns have no row yet.  *)
(*                                                                         *)
(* A view is what a subscriber has been told: the value of each component  *)
(* of each entity.  It stops speaking of an entity that went to another    *)
(* object, which is all a subscriber can make of that: an overwritten      *)
(* Owner is told to the new object, one changed through a guard to the old *)
(* one only.                                                               *)
(***************************************************************************)
EXTENDS Integers, SequencesExt, FiniteSetsExt, Vectors

CONSTANTS
  SubIndices,      \* entity slots
  SubGenerations,  \* bound: generations of a slot
  DataValues,      \* what the component Data may hold
  BundleOrders,    \* the orders callers list (Owner, Data) in a bundle
  MaxSubscriptions \* bound: subscriptions ever made

ASSUME SubscriptionAssumption == MaxSubscriptions \in Nat

VARIABLES
  owned,       \* [live entity -> [its components -> their values]]
  fresh,       \* the generation the next entity of a slot has
  ownerColumn, \* the archetype {Owner, Data} has its Owner column
  byObject,    \* ObjectSubscriptions.by_object: [object -> Seq(id)]
  objects,     \* ObjectSubscriptions.objects: [id -> object]
  view,        \* [id -> what its callback was told, while it lasts]
  due,         \* history: [id -> pairs whose last write it had to be told]
  despawns,    \* [id -> how often it was told Despawned]
  panicked     \* a write unwound

subVars == <<owned, fresh, ownerColumn, byObject, objects, view, due, despawns, panicked>>

SubEntities == SubIndices \X SubGenerations
Subscriptions == 1 .. MaxSubscriptions
Subscribed == DOMAIN objects

-----------------------------------------------------------------------------
(* Objects and their subscribers *)

\* The resolver, over the components ow has.
ObjectIn(ow, e) == IF e \in DOMAIN ow /\ "Owner" \in DOMAIN ow[e] THEN ow[e].Owner ELSE e

CallbacksOf(object) ==
  IF object \in DOMAIN byObject THEN ToSet(byObject[object]) ELSE {}

\* object_subscribers over the components ow has.
SubscribersIn(ow, e) == CallbacksOf(ObjectIn(ow, e))

Only(f, S) == [x \in DOMAIN f \intersect S |-> f[x]]
Single(x, y) == [z \in {x} |-> y]
Mapped(f, x, y) == [z \in DOMAIN f \union {x} |-> IF z = x THEN y ELSE f[z]]
Empty == [x \in {} |-> 0]

\* What a subscriber knows of entity e's components cs.
Pairs(e, cs) == {e} \X cs

\* deliver: every subscriber in ids hears that e's components have the values
\* of row, or, of those in gone, that they were removed.
Heard(vw, ids, e, row, gone) ==
  [id \in Subscriptions |->
     IF id \notin ids THEN vw[id]
     ELSE LET kept == DOMAIN vw[id] \ Pairs(e, gone)
              told == Pairs(e, DOMAIN row)
          IN [p \in kept \union told |-> IF p \in told THEN row[p[2]] ELSE vw[id][p]]]

\* A view stops speaking of the components of entities that belong to another
\* object, when they still have them.
Placed(ow, vw) ==
  [id \in Subscriptions |->
     IF id \notin Subscribed THEN vw[id]
     ELSE Only(vw[id], {p \in DOMAIN vw[id] :
            p[1] \in DOMAIN ow /\ p[2] \in DOMAIN ow[p[1]] =>
              ObjectIn(ow, p[1]) = objects[id]})]

\* The pairs written in this step that a subscriber must be told of, and those
\* still there of the earlier ones.
Promised(ow, written) ==
  [id \in Subscriptions |->
     IF id \notin Subscribed THEN {}
     ELSE {p \in due[id] \union written :
             /\ p[1] \in DOMAIN ow /\ p[2] \in DOMAIN ow[p[1]]
             /\ ObjectIn(ow, p[1]) = objects[id]}]

\* The components become ow, and of the pairs written subscribers must know.
Stored(ow, vw, written) ==
  /\ owned' = ow
  /\ view' = Placed(ow, vw)
  /\ due' = Promised(ow, written)
  /\ ownerColumn' = (ownerColumn \/ \E e \in DOMAIN ow : DOMAIN ow[e] = {"Owner", "Data"})

-----------------------------------------------------------------------------
(* Subscribing *)

SubscribeObject(object) ==
  /\ object \in DOMAIN owned
  /\ \E id \in Subscriptions :
       /\ id = 1 + Cardinality({i \in Subscriptions : despawns[i] # -1})
       /\ objects' = Mapped(objects, id, object)
       /\ byObject' = Mapped(byObject, object,
                            Append(IF object \in DOMAIN byObject THEN byObject[object] ELSE <<>>, id))
       /\ despawns' = [despawns EXCEPT ![id] = 0]
  /\ UNCHANGED <<owned, fresh, ownerColumn, view, due, panicked>>

\* unsubscribe: the object leaves by_object with its last subscriber.
UnsubscribeObject(id) ==
  /\ id \in Subscribed
  /\ objects' = Only(objects, Subscribed \ {id})
  /\ LET rest == Without(byObject[objects[id]], id)
     IN byObject' = IF Len(rest) = 0 THEN Only(byObject, DOMAIN byObject \ {objects[id]})
                    ELSE [byObject EXCEPT ![objects[id]] = rest]
  /\ view' = [view EXCEPT ![id] = Empty]
  /\ due' = [due EXCEPT ![id] = {}]
  /\ UNCHANGED <<owned, fresh, ownerColumn, despawns, panicked>>

-----------------------------------------------------------------------------
(* Writes *)

Row(e) == owned[e]
With(e, c, v) == Mapped(owned, e, Mapped(Row(e), c, v))
WithoutComponent(e, c) == Mapped(owned, e, Only(Row(e), DOMAIN Row(e) \ {c}))

\* insert, in place or by migration: told once the value is stored.
InsertComponent(e, c, v) ==
  LET ow == With(e, c, v)
  IN /\ Stored(ow, Heard(view, SubscribersIn(ow, e), e, Single(c, v), {}), {<<e, c>>})
     /\ UNCHANGED <<fresh, byObject, objects, despawns, panicked>>

\* write_component_field for a peer: told like an insert.
PeerWritesField(e, c, v) ==
  c \in DOMAIN Row(e) /\ InsertComponent(e, c, v)

\* A guard written through and dropped: its subscribers were found when it was
\* made, and hear the value it is dropped with.
GuardWrite(e, c, v) ==
  /\ c \in DOMAIN Row(e)
  /\ LET ow == With(e, c, v)
     IN /\ Stored(ow, Heard(view, SubscribersIn(owned, e), e, Single(c, v), {}),
                  IF ObjectIn(ow, e) = ObjectIn(owned, e) THEN {<<e, c>>} ELSE {})
        /\ UNCHANGED <<fresh, byObject, objects, despawns, panicked>>

RemovedFromMutant(e, c) == SubscribersIn(WithoutComponent(e, c), e)

\* remove: who is told is found before the component goes, which may be the one
\* that places the entity.
RemovedFrom(e, c) == SubscribersIn(owned, e)

RemoveWatched(e, c) ==
  /\ c \in DOMAIN Row(e)
  /\ Stored(WithoutComponent(e, c), Heard(view, RemovedFrom(e, c), e, Empty, {c}), {})
  /\ UNCHANGED <<fresh, byObject, objects, despawns, panicked>>

\* despawn: the components' removal goes to the subscribers of the object the
\* entity belonged to, its own among them, whose subscriptions end with it.
DespawnWatched(e) ==
  LET ended == CallbacksOf(e)
      told == Heard(view, SubscribersIn(owned, e), e, Empty, DOMAIN Row(e))
  IN /\ owned' = Only(owned, DOMAIN owned \ {e})
     /\ view' = [id \in Subscriptions |->
                   IF id \in ended THEN Only(told[id], Pairs(e, {"Owner", "Data"})) ELSE told[id]]
     /\ due' = [id \in Subscriptions |->
                  IF id \in ended THEN {} ELSE {p \in due[id] : p[1] # e}]
     /\ byObject' = Only(byObject, DOMAIN byObject \ {e})
     /\ objects' = Only(objects, Subscribed \ ended)
     /\ despawns' = [id \in Subscriptions |-> despawns[id] + (IF id \in ended THEN 1 ELSE 0)]
     /\ UNCHANGED <<fresh, ownerColumn, panicked>>

-----------------------------------------------------------------------------
(* Spawning *)

NextOf(i) == <<i, fresh[i]>>
Vacant(i) == fresh[i] \in SubGenerations /\ \A e \in DOMAIN owned : e[1] # i

SpawnBare(i) ==
  /\ Vacant(i)
  /\ Stored(Mapped(owned, NextOf(i), Empty), view, {})
  /\ fresh' = [fresh EXCEPT ![i] = @ + 1]
  /\ UNCHANGED <<byObject, objects, despawns, panicked>>

\* While Data is pushed before Owner: the archetype may have its Owner column
\* from an earlier entity, and the new row is past its end.
ResolverPanics(order) ==
  /\ Subscribed # {}         \* nobody watches: the resolver is not called
  /\ Head(order) = "Data" /\ ownerColumn

\* Each component is told as it is pushed, by the components pushed so far.
SpawnPair(i, order, bundle) ==
  LET e == NextOf(i)
      first == Mapped(owned, e, Single(Head(order), bundle[Head(order)]))
      both == Mapped(owned, e, bundle)
      once == Heard(view, SubscribersIn(first, e), e, first[e], {})
      twice == Heard(once, SubscribersIn(both, e), e, Single(order[2], bundle[order[2]]), {})
  IN /\ Vacant(i)
     /\ IF ResolverPanics(order)
        THEN panicked' = TRUE /\ UNCHANGED <<owned, view, due, ownerColumn>>
        ELSE Stored(both, twice, Pairs(e, {"Owner", "Data"})) /\ UNCHANGED panicked
     /\ fresh' = [fresh EXCEPT ![i] = @ + 1]
     /\ UNCHANGED <<byObject, objects, despawns>>

-----------------------------------------------------------------------------
SubscriptionInit ==
  /\ owned = Empty /\ fresh = [i \in SubIndices |-> 0] /\ ownerColumn = FALSE
  /\ byObject = Empty /\ objects = Empty
  /\ view = [id \in Subscriptions |-> Empty]
  /\ due = [id \in Subscriptions |-> {}]
  /\ despawns = [id \in Subscriptions |-> -1]   \* -1: not yet made
  /\ panicked = FALSE

Spawned == {e \in SubEntities : e[2] < fresh[e[1]]}
ValuesOf(c) == IF c = "Owner" THEN Spawned ELSE DataValues

WatchedWrite ==
  \E e \in DOMAIN owned, c \in {"Owner", "Data"} :
    \/ RemoveWatched(e, c)
    \/ \E v \in ValuesOf(c) :
         InsertComponent(e, c, v) \/ PeerWritesField(e, c, v) \/ GuardWrite(e, c, v)

WatchedSpawn ==
  \E i \in SubIndices :
    \/ SpawnBare(i)
    \/ \E order \in BundleOrders, object \in Spawned, v \in DataValues :
         SpawnPair(i, order, [Owner |-> object, Data |-> v])

SubscriptionNext ==
  /\ ~panicked
  /\ \/ WatchedWrite \/ WatchedSpawn
     \/ \E e \in DOMAIN owned : DespawnWatched(e) \/ SubscribeObject(e)
     \/ \E id \in Subscribed : UnsubscribeObject(id)

SubscriptionSpec == SubscriptionInit /\ [][SubscriptionNext]_subVars

-----------------------------------------------------------------------------
\* A subscriber's view is never wrong and misses nothing it was promised: what
\* it was told last of a component is what the component holds, for as long as
\* its entity belongs to the object, and of an entity that died it was told
\* that its components went (object_subscriptions.rs:35 "Delivery").
ViewsCurrent ==
  \A id \in Subscribed :
    /\ due[id] \subseteq DOMAIN view[id]
    /\ \A p \in DOMAIN view[id] :
         /\ p[1] \in DOMAIN owned /\ p[2] \in DOMAIN owned[p[1]]
         /\ view[id][p] = owned[p[1]][p[2]]

\* A subscription ends once: with its object, told Despawned after the removal
\* of the object's own components, or before that without a word; the two maps
\* of ObjectSubscriptions know the same ones.
EndsOnce ==
  /\ \A id \in Subscriptions :
       /\ despawns[id] <= 1
       /\ despawns[id] = 1 => id \notin Subscribed /\ DOMAIN view[id] = {}
  /\ \A object \in DOMAIN byObject :
       Len(byObject[object]) > 0 /\ \A id \in ToSet(byObject[object]) :
         id \in Subscribed /\ objects[id] = object
  /\ \A id \in Subscribed : objects[id] \in DOMAIN owned /\ id \in CallbacksOf(objects[id])

SubscribersTold == ViewsCurrent /\ EndsOnce

\* A bundle may be spawned whatever the order of its components: World::get, as
\* the resolver calls it, answers for a component that is not there yet
\* (world.rs:1596 "if present").
BundlesSpawn == ~panicked

=============================================================================
