------------------------------ MODULE MCServices ------------------------------
(*****************************************************************************)
(* The services around the World and the store, for TLC, one at a time       *)
(* like the machines of MCMachines: the World with the journals its          *)
(* readers follow, tiered storage, object subscriptions, the spatial         *)
(* queries and the buffers their results go to, replication's bytes,         *)
(* prediction on a client, the merge of two editors, a relation's two        *)
(* maps, the shared runtime, and the code the macro generates for GPU        *)
(* fields.                                                                   *)
(*****************************************************************************)
EXTENDS World, TieredStorage, ObjectSubscriptions, Harvest, Wire, Prediction, Runtime, MCFields

CONSTANTS pos, h1,          \* World: a component, a handle
          e1, e2, x, y,     \* TieredStorage: owners, payload elements
          editor, p1, p2   \* Runtime: copies of the crate

VARIABLE machine

\* World: a peer's entity in the last slot, those before it placeholders.
OnlyPos == {pos}
OneHandle == {h1}
PeerOfTwo == {[index |-> 2, generation |-> 0]}

\* TieredStorage: one payload of two segments, and the one row.
OneRow == {1}
LongOnly == {<<x, y, x>>}
TwoRanks == {[offset |-> 0, len |-> 2, rank |-> 0], [offset |-> 2, len |-> 2, rank |-> 1]}

\* ObjectSubscriptions: the owner first, as the repository's tests list it.
OwnerFirst == {<<"Owner", "Data">>}

\* Harvest: a unit box, and one with no upper edge on the second axis; a query
\* box, and the plane x = 2 with the plane y = 0.
Box(lo, hi) == [min |-> lo, max |-> hi]
UnitAndOpen ==
  {[box |-> Box(<<0, 0>>, <<1, 1>>), gen |-> 0], [box |-> Box(<<0, 0>>, <<2, NaNum>>), gen |-> 1]}
BoxAndFrustum ==
  {[kind |-> "aabb", min |-> <<1, 1>>, max |-> <<2, 2>>],
   [kind |-> "frustum", planes |-> {[n |-> <<1, 0>>, d |-> -2], [n |-> <<0, -1>>, d |-> 0]}]}
FromEight == "c1" :> 8
FiveRows == "c1" :> 5
ColumnPrefixes(toks, gens) == {[tokens |-> SubSeq(toks, 1, n), gens |-> SubSeq(gens, 1, n)] : n \in 0 .. 3}
TwoViews == ColumnPrefixes(<<1, 2, 3>>, <<0, 1, 0>>) \union ColumnPrefixes(<<7, 8, 9>>, <<1, 1, 1>>)

\* Wire: every message with its lists empty and filled, every placeholder number
\* that carries, scalars at and past the compressor's limit.
DeltaOf(v) == [kind |-> "delta", value |-> v]
EmptyDelta == <<5, 4, <<>>, <<>>, <<>>, <<>>>>
FullDelta ==
  <<70, 69, << <<9, <<1, 2, 3, 4>>>>, <<10, <<>>>> >>, << <<3>> >>,
    << <<9, 2, << << <<>> >>, << <<7, 7>> >> >> >>, <<10, 2, <<>> >> >>,
    << <<9, 1, 0, <<6>>, 1, <<>>>>, <<9, 1, 2, <<>>, 0, << <<100>> >> >> >> >>
OneRoom == << << <<6, <<>>>>, <<5, << <<0, 0, 1, 0>>, <<1, 4, 6, 1>> >> >> >> >>
AllMessages ==
  {DeltaOf(EmptyDelta), DeltaOf(FullDelta)}
  \union {[kind |-> "handshake", value |-> v] : v \in {<<<<>>>>, OneRoom}}
  \union {[kind |-> "archetype", value |-> v] : v \in {<<<<>>>>, << << <<3>>, <<60>> >> >>}}
  \union {[kind |-> "placeholder", value |-> <<n>>] : n \in 0 .. 200}
  \union {[kind |-> "texts", value |-> v] : v \in {<<<<>>>>, << << <<<<>>>>, << <<1, 2>> >> >> >>}}
  \union {[kind |-> "option", value |-> v] : v \in {<<<<>>>>, << << <<33>> >> >>}}
  \union {[kind |-> "scalar", value |-> v] :
            v \in {<<0, 0>>, <<3>>, <<7, 7>>, <<0, 4, 0>>, <<1, 2, 3, 7>>}}
TwoScalars == {<<0, 0>>, <<1, 4>>}
FourSchemas ==
  {<<"Pod">>, <<"DeltaCompressed">>, <<"Event", "Pod", "Pod">>, <<"DeltaCompressed", "Pod">>}
CellRow(lives, values) == [live |-> lives, bytes |-> values]
ThreeCells ==
  {<<>>, <<CellRow(TRUE, <<1, 2>>), CellRow(FALSE, <<3, 4>>), CellRow(TRUE, <<5, 6>>)>>,
   <<CellRow(TRUE, <<1, 2, 3, 4, 5>>)>>}

\* Prediction: what two editors did to two entities.
SpawnOf(e, blob) == [entity |-> e, blob |-> blob]
ChangeOf(c, v) == [entity |-> "e1", component |-> c, value |-> v]
EditsOfTwo ==
  {[spawned |-> s, despawned |-> d, changed |-> c, events |-> <<>>, frame |-> 1, base |-> 0] :
    s \in {<<>>, <<SpawnOf("e1", "x")>>, <<SpawnOf("e1", "y"), SpawnOf("e2", "y")>>},
    d \in {<<>>, <<"e1">>},
    c \in {<<>>, <<ChangeOf("A", 1)>>, <<ChangeOf("A", 2), ChangeOf("B", 1)>>}}

\* Runtime: one thread in the editor and one in a plugin; two plugins attach,
\* both with a component the editor has too.
EditorAndPlugin == "u0" :> editor @@ "u1" :> p1
FoundInCopies == editor :> <<"A">> @@ p1 :> <<"B", "A">> @@ p2 :> <<"A">>

-----------------------------------------------------------------------------
Services ==
  {"journal", "tiers", "subscriptions", "harvest", "views", "wire", "compress", "prediction",
   "merge", "maps", "runtime", "fields"}

serviceVars ==
  <<machine, worldVars, tierVars, subVars, harvestVars, device, wireVars, compressVars,
    predictionVars, merge, mapVars, runtimeVars, fieldVars>>

OthersStay(m) ==
  /\ machine = m /\ UNCHANGED machine
  /\ m # "journal" => UNCHANGED worldVars
  /\ m # "tiers" => UNCHANGED tierVars
  /\ m # "subscriptions" => UNCHANGED subVars
  /\ m # "harvest" => UNCHANGED harvestVars
  /\ m # "views" => UNCHANGED device
  /\ m # "wire" => UNCHANGED wireVars
  /\ m # "compress" => UNCHANGED compressVars
  /\ m # "prediction" => UNCHANGED predictionVars
  /\ m # "merge" => UNCHANGED merge
  /\ m # "maps" => UNCHANGED mapVars
  /\ m # "runtime" => UNCHANGED runtimeVars
  /\ m # "fields" => UNCHANGED fieldVars

ServicesInit ==
  /\ machine \in Services
  /\ Init /\ TierInit /\ SubscriptionInit
  /\ HarvestInit /\ ViewInit
  /\ WireInit /\ CompressInit
  /\ PredictionInit /\ MergeInit /\ MapInit
  /\ RuntimeInit
  /\ FieldsInit /\ (machine # "fields" => "Crowd" \in DOMAIN code)

ServicesNext ==
  \/ OthersStay("journal") /\ FollowedNext
  \/ OthersStay("tiers") /\ TierNext
  \/ OthersStay("subscriptions") /\ SubscriptionNext
  \/ OthersStay("harvest") /\ HarvestNext
  \/ OthersStay("views") /\ ViewNext
  \/ OthersStay("wire") /\ WireNext
  \/ OthersStay("compress") /\ CompressNext
  \/ OthersStay("prediction") /\ PredictionNext
  \/ OthersStay("merge") /\ MergeNext
  \/ OthersStay("maps") /\ MapNext
  \/ OthersStay("runtime") /\ RuntimeNext
  \/ OthersStay("fields") /\ FieldsNext

ServicesSpec == ServicesInit /\ [][ServicesNext]_serviceVars

-----------------------------------------------------------------------------
\* What one side of a link says is what the other understands, whatever was
\* lost on the way: messages read as they were written, a snapshot's cells come
\* back, a compressed value is the sender's, a prediction is replayed on what
\* the server confirmed, two editors merge to one result, a relation's maps stay
\* inverse, and copies of the crate share ids and tables (replication.rs,
\* runtime.rs).
PeersAgree ==
  /\ MessagesExact /\ CellsRestored /\ ValuesInStep
  /\ PredictionKept /\ MergeAgreed /\ MapInverse
  /\ RuntimeShared

=============================================================================
