---------------------------- MODULE Replication ----------------------------
(***************************************************************************)
(* Replication of one World to its peers (replication.rs): a change        *)
(* tracker records what a frame did, the frame boundary drains it into a   *)
(* delta, each connection gets the delta filtered by relevance and by its  *)
(* fields' conditions, and peers apply what arrives, or restore a          *)
(* snapshot when they have fallen behind.                                  *)
(*                                                                         *)
(* A world is a function from its live entities to the values of their     *)
(* components; slots and rows are in World.  A component has one field.    *)
(* The transport is the engine's: it may lose and reorder deltas, and the  *)
(* receiver keeps the guard the tests prescribe, applying nothing that is  *)
(* not newer than what it applied last.  The engine completes a drained    *)
(* delta with the current values of what changed, since most of the        *)
(* World's calls record a change without its bytes.                        *)
(***************************************************************************)
EXTENDS Integers, Sequences, FiniteSets, Functions

CONSTANTS
  Indices,       \* slots of the World
  Components,
  Values,        \* what the server writes
  DefaultValue,  \* what push_default leaves in a column
  Clients,
  Condition,     \* the ReplicationCondition of each component's field
  Owner,         \* AuthorityTable: the owner of each slot's entities
  MaxGen,        \* bound: generations of a slot
  MaxFrame,      \* bound: frames the server runs
  MaxInFlight    \* bound: deltas on one connection

ASSUME ReplicationAssumption ==
  /\ MaxGen \in Nat /\ MaxFrame \in Nat /\ MaxInFlight \in Nat
  /\ Condition \in [Components -> {"Always", "OwnerOnly", "SkipOwner", "InitialOnly"}]
  /\ Owner \in [Indices -> Clients \cup {"server", "shared"}]

VARIABLES
  server,       \* the authoritative World
  nextGen,      \* the generation the next entity of each slot will have
  tracker,      \* ChangeTracker: spawned, despawned, changed
  frame,        \* ChangeTracker.frame
  relevant,     \* each connection's RelevanceSet
  channel,      \* deltas on their way to each client
  replica,      \* each client's World
  applied,      \* the frame each client applied last
  gapped,       \* history: the client applied a delta past one it never had
  withheld,     \* history: fields whose last value a filter kept from the client
  omitted,      \* history: entities the client's last snapshot left out
  born          \* history: components entities were replicated with, and kept

serverVars  == <<server, nextGen, tracker, frame, born>>
clientVars  == <<replica, applied, gapped>>
replicaVars == <<serverVars, clientVars, relevant, channel, withheld, omitted>>

Entity(i, g) == [index |-> i, gen |-> g]
EmptyTracker == [spawned |-> <<>>, despawned |-> {}, changed |-> {}]
NoEntity == [e \in {} |-> {}]
NoComponents == [k \in {} |-> DefaultValue]

\* f with x sent to y.
Put(f, x, y) == [z \in DOMAIN f \cup {x} |-> IF z = x THEN y ELSE f[z]]

Fields(world) == {<<e, k>> : e \in DOMAIN world, k \in Components}
Held(world) == {f \in Fields(world) : f[2] \in DOMAIN world[f[1]]}

---------------------------------------------------------------------------
(* The server's World, with the tracker attached: every call records.      *)

Spawn(i) ==
  LET e == Entity(i, nextGen[i])
  IN /\ e.gen <= MaxGen /\ \A o \in DOMAIN server : o.index # i
     /\ server' = Put(server, e, NoComponents)
     /\ tracker' = [tracker EXCEPT !.spawned = Append(@, e)]
     /\ UNCHANGED <<nextGen, frame, born, clientVars, relevant, channel, withheld, omitted>>

Despawn(e) ==
  /\ server' = Restrict(server, DOMAIN server \ {e})
  /\ nextGen' = [nextGen EXCEPT ![e.index] = e.gen + 1]
  /\ tracker' = [tracker EXCEPT !.despawned = @ \cup {e}]
  /\ born' = {f \in born : f[1] # e}
  /\ UNCHANGED <<frame, clientVars, relevant, channel, withheld, omitted>>

\* insert and get_mut: a new component, or a new value.
Set(e, k, v) ==
  /\ server' = Put(server, e, Put(server[e], k, v))
  /\ tracker' = [tracker EXCEPT !.changed = @ \cup {<<e, k>>}]
  /\ UNCHANGED <<nextGen, frame, born, clientVars, relevant, channel, withheld, omitted>>

Unset(e, k) ==
  /\ k \in DOMAIN server[e]
  /\ server' = Put(server, e, Restrict(server[e], DOMAIN server[e] \ {k}))
  /\ tracker' = [tracker EXCEPT !.changed = @ \cup {<<e, k>>}]
  /\ born' = born \ {<<e, k>>}
  /\ UNCHANGED <<nextGen, frame, clientVars, relevant, channel, withheld, omitted>>

---------------------------------------------------------------------------
(* The frame boundary: drain_with_world and one filter for each client.    *)

\* A spawn travels with the archetype its entity has now; a dead one with none.
ArchetypeOf(e) == IF e \in DOMAIN server THEN DOMAIN server[e] ELSE {}

\* The archetype at the time of the spawn.
DrainedMutant ==
  [frame |-> frame, base |-> frame - 1, despawned |-> tracker.despawned,
   spawned |-> [i \in DOMAIN tracker.spawned |->
                  [entity |-> tracker.spawned[i], archetype |-> {}]],
   values |-> [f \in tracker.changed \cap Held(server) |-> server[f[1]][f[2]]]]

Drained ==
  [frame |-> frame, base |-> frame - 1, despawned |-> tracker.despawned,
   spawned |-> [i \in DOMAIN tracker.spawned |->
                  [entity |-> tracker.spawned[i],
                   archetype |-> ArchetypeOf(tracker.spawned[i])]],
   values |-> [f \in tracker.changed \cap Held(server) |-> server[f[1]][f[2]]]]

\* condition_passes, for the entity's owner and the client.
Passes(condition, owner, client) ==
  CASE condition = "Always"      -> TRUE
    [] condition = "OwnerOnly"   -> owner \in {client, "shared"}
    [] condition = "SkipOwner"   -> owner # client
    [] condition = "InitialOnly" -> FALSE

Sees(client, f) ==
  f[1] \in relevant[client] /\ Passes(Condition[f[2]], Owner[f[1].index], client)

\* RelevanceSet::filter: spawns and despawns reach every client, values only
\* those that may see them.
View(delta, client) ==
  [delta EXCEPT !.values =
     Restrict(@, {f \in DOMAIN @ : Sees(client, f)})]

EndFrame ==
  /\ frame < MaxFrame
  /\ \A c \in Clients : Len(channel[c]) < MaxInFlight
  /\ channel' = [c \in Clients |-> Append(channel[c], View(Drained, c))]
  /\ withheld' = [c \in Clients |->
       {f \in withheld[c] \cup DOMAIN Drained.values :
          f \in DOMAIN Drained.values /\ f[1] \notin omitted[c] => ~Sees(c, f)}]
  /\ omitted' = [c \in Clients |-> omitted[c] \ Range(tracker.spawned)]
  /\ born' = born \cup {f \in Held(server) : f[1] \in Range(tracker.spawned)}
  /\ tracker' = EmptyTracker /\ frame' = frame + 1
  /\ UNCHANGED <<server, nextGen, clientVars, relevant>>

\* The engine queries the cells again: what a client may see changes.
Refocus(c, S) ==
  /\ S # relevant[c]
  /\ relevant' = [relevant EXCEPT ![c] = S]
  /\ UNCHANGED <<serverVars, clientVars, channel, withheld, omitted>>

---------------------------------------------------------------------------
(* The receiver.                                                           *)

\* force_spawn_in_archetype, spawn by spawn: the occupant of the slot goes,
\* whoever it is, and the entity gets its archetype's columns with default
\* values.  In each slot the last one spawned stays.
LastSpawns(spawns) ==
  {n \in DOMAIN spawns : \A m \in DOMAIN spawns :
     m > n => spawns[m].entity.index # spawns[n].entity.index}

Spawned(world, spawns) ==
  LET kept == {o \in DOMAIN world : \A n \in DOMAIN spawns : spawns[n].entity.index # o.index}
      last == LastSpawns(spawns)
      archetype(e) == UNION {spawns[n].archetype : n \in {m \in last : spawns[m].entity = e}}
  IN [e \in kept \cup {spawns[n].entity : n \in last} |->
        IF e \in kept THEN world[e] ELSE [k \in archetype(e) |-> DefaultValue]]

\* write_component_field: nothing happens to a dead entity or a missing column.
WriteFields(world, values) ==
  [e \in DOMAIN world |-> [k \in DOMAIN world[e] |->
     IF <<e, k>> \in DOMAIN values THEN values[<<e, k>>] ELSE world[e][k]]]

\* Delta::apply: despawns, then spawns in order, then fields.
Applied(world, delta) ==
  WriteFields(
    Spawned(Restrict(world, DOMAIN world \ delta.despawned), delta.spawned),
    delta.values)

RemoveFrom(s, n) == SubSeq(s, 1, n - 1) \o SubSeq(s, n + 1, Len(s))

\* The n-th delta under way arrives.
Deliver(c, n) ==
  LET delta == channel[c][n]
      newer == delta.frame > applied[c]
  IN /\ channel' = [channel EXCEPT ![c] = RemoveFrom(@, n)]
     /\ replica' = IF newer THEN [replica EXCEPT ![c] = Applied(@, delta)] ELSE replica
     /\ applied' = IF newer THEN [applied EXCEPT ![c] = delta.frame] ELSE applied
     /\ gapped' = [gapped EXCEPT ![c] = @ \/ (newer /\ delta.base # applied[c])]
     /\ UNCHANGED <<serverVars, relevant, withheld, omitted>>

Lose(c, n) ==
  /\ channel' = [channel EXCEPT ![c] = RemoveFrom(@, n)]
  /\ UNCHANGED <<serverVars, clientVars, relevant, withheld, omitted>>

---------------------------------------------------------------------------
(* Recovery: capture_relevant on the server, restore_to_world on the       *)
(* client.  Values are captured whatever their conditions, and entities    *)
(* the snapshot does not name stay.                                        *)

Captured(c) == Restrict(server, DOMAIN server \cap relevant[c])

Restored(world, snapshot) ==
  LET kept == {o \in DOMAIN world : \A e \in DOMAIN snapshot : o.index # e.index}
  IN [e \in kept \cup DOMAIN snapshot |->
        IF e \in DOMAIN snapshot THEN snapshot[e] ELSE world[e]]

Resync(c) ==
  /\ replica' = [replica EXCEPT ![c] = Restored(@, Captured(c))]
  /\ applied' = [applied EXCEPT ![c] = frame - 1]
  /\ gapped' = [gapped EXCEPT ![c] = FALSE]
  /\ withheld' = [withheld EXCEPT ![c] =
       {f \in Held(server) : f[1] \notin relevant[c]}]
  /\ omitted' = [omitted EXCEPT ![c] = DOMAIN server \ relevant[c]]
  /\ UNCHANGED <<serverVars, relevant, channel>>

---------------------------------------------------------------------------
AnyEntity == {Entity(i, g) : i \in Indices, g \in 0 .. MaxGen}

ReplicaInit ==
  /\ server = NoEntity /\ nextGen = [i \in Indices |-> 0]
  /\ tracker = EmptyTracker /\ frame = 1 /\ born = {}
  /\ relevant = [c \in Clients |-> AnyEntity]
  /\ channel = [c \in Clients |-> <<>>]
  /\ replica = [c \in Clients |-> NoEntity]
  /\ applied = [c \in Clients |-> 0]
  /\ gapped = [c \in Clients |-> FALSE]
  /\ withheld = [c \in Clients |-> {}]
  /\ omitted = [c \in Clients |-> {}]

ReplicaNext ==
  \/ \E i \in Indices : Spawn(i)
  \/ \E e \in DOMAIN server : Despawn(e)
  \/ \E e \in DOMAIN server, k \in Components, v \in Values : Set(e, k, v)
  \/ \E e \in DOMAIN server, k \in Components : Unset(e, k)
  \/ EndFrame
  \/ \E c \in Clients, J \in SUBSET Indices :
       Refocus(c, {e \in AnyEntity : e.index \in J})
  \/ \E c \in Clients : \E n \in DOMAIN channel[c] : Deliver(c, n) \/ Lose(c, n)
  \/ \E c \in Clients : Resync(c)

ReplicaSpec == ReplicaInit /\ [][ReplicaNext]_replicaVars

---------------------------------------------------------------------------
(* Properties.                                                             *)

\* A client that has every delta since its last baseline, while nothing is
\* waiting to be drained.
CaughtUp(c) == applied[c] = frame - 1 /\ ~gapped[c] /\ tracker = EmptyTracker

\* Such a client has every entity of the server it was sent, with its exact
\* generation, and, of the components the entity was replicated with, the
\* server's value: through despawns, slot reuse within a frame, lost and
\* reordered deltas, and snapshots taken while deltas are under way.
ReplicaCurrent ==
  \A c \in Clients : CaughtUp(c) =>
    \A f \in born \ withheld[c] :
      f \in Held(replica[c]) /\ replica[c][f[1]][f[2]] = server[f[1]][f[2]]

=============================================================================
