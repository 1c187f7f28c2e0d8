------------------------------ MODULE Prediction ------------------------------
(***************************************************************************)
(* The parts of replication.rs an engine drives on its own: Reconciler, on  *)
(* the client that predicts its inputs; AuthorityTable, on the server that *)
(* takes them and for editors whose deltas meet; EntityCellMap.            *)
(*                                                                         *)
(* An input writes a field.  The engine sends it up, where it may be lost; *)
(* the server takes it if the client may write the field, and names in each *)
(* delta, as its base, the newest input it has looked at.  Deltas come in  *)
(* order; the client applies one, then reconciles.                         *)
(***************************************************************************)
EXTENDS Integers, SequencesExt, FiniteSetsExt, TLC, Vectors

CONSTANTS
  SnapshotCap,    \* snapshots a Reconciler holds (64 in the code)
  MaxInput,       \* bound: inputs
  MaxServerFrame, \* bound: deltas
  Edits,          \* deltas of editors: [spawned, despawned, changed, events, frame, base]
  Editors,        \* their ClientIds, numbers
  MapEntities, MapCells

\* An editor's delta names a key once in each of its lists.
KeysOnce(list, key(_)) ==
  /\ Len(list) \in Nat /\ list = [i \in 1 .. Len(list) |-> list[i]]
  /\ \A i, j \in DOMAIN list : key(list[i]) = key(list[j]) => i = j

ASSUME PredictionAssumption == SnapshotCap \in Nat \ {0} /\ Editors \subseteq Nat

ASSUME EditsAssumption ==
  \A d \in Edits :
    /\ KeysOnce(d.spawned, LAMBDA x : x.entity)
    /\ KeysOnce(d.despawned, LAMBDA x : x)
    /\ KeysOnce(d.changed, LAMBDA x : <<x.entity, x.component>>)
    /\ Len(d.events) \in Nat /\ d.events = [i \in 1 .. Len(d.events) |-> d.events[i]]

VARIABLES
  reconciler,  \* Reconciler: pending, snapshots, serverFrame, localFrame
  predicted,   \* the field in the client's World, as the input it is from
  uplink, downlink,
  held,        \* the field in the server's World
  looked,      \* the newest input the server looked at
  serverNow,   \* the server's frame
  owners,      \* AuthorityTable: [entity, field -> an owner or NoOwner]
  base,        \* history: the base reconciled last
  taken,       \* snapshots pushed, of those past the base
  dropped,     \* history: an input was lost or refused
  merge,       \* resolve_conflict: what it was given and gave
  toCell, toEntity \* EntityCellMap

predictionVars ==
  <<reconciler, predicted, uplink, downlink, held, looked, serverNow, owners, base, taken, dropped>>
mapVars == <<toCell, toEntity>>

NoOwner == "unset"
NoWrite == -1
Ownerships == {"Server", "Client", "Other", "Shared"}

-----------------------------------------------------------------------------
(* The client *)

\* push_input: the write is made and remembered.
PushInput ==
  LET f == reconciler.localFrame + 1
  IN /\ f <= MaxInput
     /\ reconciler' = [reconciler EXCEPT !.localFrame = f, !.pending = Append(@, f)]
     /\ predicted' = f
     /\ uplink' = Append(uplink, f)
     /\ UNCHANGED <<downlink, held, looked, serverNow, owners, base, taken, dropped>>

\* push_snapshot: the oldest makes room.
Latest(snapshots) ==
  IF Len(snapshots) > SnapshotCap THEN Tail(snapshots) ELSE snapshots

PushSnapshot ==
  /\ reconciler.serverFrame < serverNow
  /\ reconciler' = [reconciler EXCEPT !.serverFrame = serverNow,
                                      !.snapshots = Latest(Append(@, serverNow))]
  /\ taken' = Append(taken, serverNow)
  /\ UNCHANGED <<predicted, uplink, downlink, held, looked, serverNow, owners, base, dropped>>

AfterMutant(frames, f) == Retained(frames, {i \in DOMAIN frames : frames[i] >= f})

After(frames, f) == Retained(frames, {i \in DOMAIN frames : frames[i] > f})

\* Delta::apply, then reconcile: clear_before the base, the rest replayed.
Reconcile ==
  LET d == Head(downlink)
      rest == After(reconciler.pending, d.base)
      applied == IF d.value = NoWrite THEN predicted ELSE d.value
  IN /\ downlink # <<>> /\ downlink' = Tail(downlink)
     /\ reconciler' = [reconciler EXCEPT !.pending = rest, !.snapshots = After(@, d.base)]
     /\ predicted' = IF rest = <<>> THEN applied ELSE Last(rest)
     /\ base' = d.base /\ taken' = Retained(taken, {i \in DOMAIN taken : taken[i] > d.base})
     /\ UNCHANGED <<uplink, held, looked, serverNow, owners, dropped>>

-----------------------------------------------------------------------------
(* The server *)

SetOwner(place, owner) ==
  /\ owners[place] # owner
  /\ owners' = [owners EXCEPT ![place] = owner]
  /\ UNCHANGED <<reconciler, predicted, uplink, downlink, held, looked, serverNow, base, taken, dropped>>

MayWrite(owner) == owner \in {"Client", "Shared"}

\* can_write: the field's owner if it has one, then the entity's; unowned is the
\* server's.
CanWrite == IF owners.field # NoOwner THEN MayWrite(owners.field) ELSE MayWrite(owners.entity)

TakeInput ==
  LET f == Head(uplink)
  IN /\ uplink # <<>> /\ uplink' = Tail(uplink)
     /\ looked' = f
     /\ held' = IF CanWrite THEN f ELSE held
     /\ dropped' = (dropped \/ ~CanWrite)
     /\ UNCHANGED <<reconciler, predicted, downlink, serverNow, owners, base, taken>>

LoseInput ==
  /\ uplink # <<>> /\ uplink' = Tail(uplink) /\ dropped' = TRUE
  /\ UNCHANGED <<reconciler, predicted, downlink, held, looked, serverNow, owners, base, taken>>

\* A frame's delta has the field if it changed since the last one.
SendDelta ==
  /\ serverNow < MaxServerFrame /\ serverNow' = serverNow + 1
  /\ LET last == IF downlink = <<>> THEN base ELSE Last(downlink).base
     IN downlink' = Append(downlink, [base |-> looked,
                                      value |-> IF held > last THEN held ELSE NoWrite])
  /\ UNCHANGED <<reconciler, predicted, uplink, held, looked, owners, base, taken, dropped>>

PredictionInit ==
  /\ reconciler = [pending |-> <<>>, snapshots |-> <<>>, serverFrame |-> 0, localFrame |-> 0]
  /\ predicted = 0 /\ uplink = <<>> /\ downlink = <<>> /\ held = 0 /\ looked = 0 /\ serverNow = 0
  /\ owners = [entity |-> "Client", field |-> NoOwner]
  /\ base = 0 /\ taken = <<>> /\ dropped = FALSE

PredictionNext ==
  \/ PushInput \/ PushSnapshot \/ Reconcile
  \/ TakeInput \/ LoseInput \/ SendDelta
  \/ \E place \in {"entity", "field"}, owner \in Ownerships : SetOwner(place, owner)

PredictionSpec == PredictionInit /\ [][PredictionNext]_predictionVars

-----------------------------------------------------------------------------
(* Two editors *)

\* One entry per key: the winner's, then those of the loser's it has none for.
Merged(won, lost, key(_)) ==
  won \o Retained(lost, {j \in DOMAIN lost : \A i \in DOMAIN won : key(won[i]) # key(lost[j])})

\* resolve_conflict
Resolve(a, editorA, b, editorB) ==
  LET winner == IF editorA > editorB THEN a ELSE b
      loser == IF editorA > editorB THEN b ELSE a
      entity(x) == x.entity
      itself(x) == x
      component(x) == <<x.entity, x.component>>
  IN [spawned |-> Merged(winner.spawned, loser.spawned, entity),
      despawned |-> Merged(winner.despawned, loser.despawned, itself),
      changed |-> Merged(winner.changed, loser.changed, component),
      events |-> winner.events \o loser.events,
      frame |-> Max({a.frame, b.frame}), base |-> Min({a.base, b.base})]

ResolveConflict(a, editorA, b, editorB) ==
  merge' = [a |-> a, b |-> b, first |-> editorA, second |-> editorB,
            gave |-> Resolve(a, editorA, b, editorB), peer |-> Resolve(b, editorB, a, editorA)]

MergeInit == merge = <<>>
MergeNext == merge = <<>> /\ \E a, b \in Edits, i, j \in Editors : i # j /\ ResolveConflict(a, i, b, j)
MergeSpec == MergeInit /\ [][MergeNext]_merge

-----------------------------------------------------------------------------
(* EntityCellMap *)

WithKey(f, x, v) == [y \in DOMAIN f \union {x} |-> IF y = x THEN v ELSE f[y]]
WithoutKey(f, S) == [x \in DOMAIN f \ S |-> f[x]]

InsertMapping(e, at) ==
  LET formerCell == {c \in MapCells : e \in DOMAIN toCell /\ toCell[e] = c /\ c # at}
      formerEntity == {o \in MapEntities : at \in DOMAIN toEntity /\ toEntity[at] = o /\ o # e}
  IN /\ toEntity' = WithKey(WithoutKey(toEntity, formerCell), at, e)
     /\ toCell' = WithoutKey(WithKey(toCell, e, at), formerEntity)

RemoveMapping(e) ==
  /\ toEntity' = IF e \in DOMAIN toCell THEN WithoutKey(toEntity, {toCell[e]}) ELSE toEntity
  /\ toCell' = WithoutKey(toCell, {e})

MapInit == toCell = <<>> /\ toEntity = <<>>
MapNext == \E e \in MapEntities : RemoveMapping(e) \/ \E at \in MapCells : InsertMapping(e, at)
MapSpec == MapInit /\ [][MapNext]_mapVars

-----------------------------------------------------------------------------
\* Whatever arrives, a client goes on showing the newest input the server has
\* not looked at, keeps all of those and no other, and the newest snapshots past
\* the base; when everything has come through and no input was lost or refused,
\* it shows what the server holds (replication.rs "Apply a server delta").
PredictionKept ==
  /\ reconciler.pending = [i \in 1 .. reconciler.localFrame - base |-> base + i]
  /\ reconciler.pending # <<>> => predicted = Last(reconciler.pending)
  /\ LET kept == Min({SnapshotCap, Len(taken)})
     IN reconciler.snapshots = SubSeq(taken, Len(taken) - kept + 1, Len(taken))
  /\ (~dropped /\ reconciler.pending = <<>> /\ uplink = <<>> /\ downlink = <<>>) =>
       predicted = held

\* Both editors' peers make the same of two deltas, whichever they got first:
\* nothing is spawned or despawned twice or forgotten, and of two writes to a
\* component the higher client's is kept.
MergeAgreed ==
  merge # <<>> =>
    LET m == merge.gave
        winner == IF merge.first > merge.second THEN merge.a ELSE merge.b
        loser == IF winner = merge.a THEN merge.b ELSE merge.a
        keys(changed) == {<<changed[i].entity, changed[i].component>> : i \in DOMAIN changed}
        entities(spawned) == {spawned[i].entity : i \in DOMAIN spawned}
    IN /\ merge.peer = m
       /\ ToSet(winner.changed) \subseteq ToSet(m.changed)
       /\ keys(m.changed) = keys(merge.a.changed) \union keys(merge.b.changed)
       /\ Cardinality(keys(m.changed)) = Len(m.changed)
       /\ entities(m.spawned) = entities(merge.a.spawned) \union entities(merge.b.spawned)
       /\ Cardinality(entities(m.spawned)) = Len(m.spawned)
       /\ ToSet(m.despawned) = ToSet(merge.a.despawned) \union ToSet(merge.b.despawned)
       /\ ToSet(loser.events) \subseteq ToSet(m.events)

\* The two directions of the map tell the same story.
MapInverse ==
  /\ \A e \in DOMAIN toCell : toCell[e] \in DOMAIN toEntity /\ toEntity[toCell[e]] = e
  /\ \A at \in DOMAIN toEntity : toEntity[at] \in DOMAIN toCell /\ toCell[toEntity[at]] = at

=============================================================================
