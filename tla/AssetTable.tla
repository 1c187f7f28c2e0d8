----------------------------- MODULE AssetTable -----------------------------
(***************************************************************************)
(* A world's asset references (assets.rs): components name assets, the     *)
(* pump starts loads for newly named ones, worker threads run them and     *)
(* send completions back, and the pump applies the completions that are    *)
(* still wanted and binds the components that name the asset.              *)
(*                                                                         *)
(* Every entity has at most one component with one reference.  The world   *)
(* is one actor (pump_assets takes it mutably); the workers are others.    *)
(***************************************************************************)
EXTENDS Integers, FiniteSets, Sequences, SequencesExt, FiniteSetsExt, Vectors,
        DerivedCache

CONSTANTS
  Entities, Assets,
  Declared,      \* the assets declared before a component names them
  Loadable,      \* the assets whose kind has a loader
  SourceOf,      \* [Assets -> Sources]
  SizeOf,        \* [Assets -> Nat], 0 for a kind that reports none
  Sources, SourceContents,
  Corrupt,       \* a content no loader accepts
  Budgets,       \* the cache budgets a caller may set
  Nothing,       \* no asset, no payload, no binding
  MaxPumps, MaxTokens, MaxEdits   \* bounds

VARIABLES
  names,       \* [Entities -> Assets \cup {Nothing}], the component's field
  derived,     \* [Entities -> what the last binding wrote]
  touched,     \* HandleCounts.touched_assets
  entry,       \* a function from the resolved assets to their Entry
  requested, outstanding, nextToken, pumps, budget,
  jobs,        \* loads queued or running: [asset, token, read]
  completions,     \* completions sent and not yet received
  content,     \* [Sources -> SourceContents], external
  unannounced, \* sources changed with no asset_source_changed yet
  edits

assetTableVars == <<names, derived, touched, entry, requested, outstanding,
                    nextToken, pumps, budget, jobs, completions, content,
                    unannounced, edits>>

loadVars == <<requested, outstanding, nextToken, pumps, budget, jobs, completions>>
sourceVars == <<content, unannounced, edits>>

Payload == SourceContents \cup {Nothing}
Bindings == [asset : Assets, state : {"unresolved", "loading", "ready", "failed"},
             version : Nat, payload : Payload]

ASSUME AssetTableAssumption ==
  /\ IsFiniteSet(Entities) /\ IsFiniteSet(Assets)
  /\ Declared \subseteq Assets /\ Loadable \subseteq Assets
  /\ SourceOf \in [Assets -> Sources] /\ SizeOf \in [Assets -> Nat]
  /\ Nothing \notin Assets \cup SourceContents \cup Bindings

RefCount(a) == Cardinality({e \in Entities : names[e] = a})

---------------------------------------------------------------------------
(* Writes.  A gained reference to a declared asset is touched; replacing a *)
(* whole value touches what it names even if the old one named it too,     *)
(* because the new value's derived data may not be bound.                  *)

Replace(e, a) ==
  /\ names' = [names EXCEPT ![e] = a]
  /\ derived' = [derived EXCEPT ![e] = Nothing]
  /\ touched' = touched \cup ({a} \cap Declared)
  /\ UNCHANGED <<entry, loadVars, sourceVars>>

\* A get_mut write that changes the field keeps the rest of the component.
Retarget(e, a) ==
  /\ names[e] # Nothing /\ a # names[e]
  /\ names' = [names EXCEPT ![e] = a]
  /\ touched' = touched \cup ({a} \cap Declared)
  /\ UNCHANGED <<derived, entry, loadVars, sourceVars>>

RemoveComponent(e) ==
  /\ names[e] # Nothing
  /\ names' = [names EXCEPT ![e] = Nothing]
  /\ derived' = [derived EXCEPT ![e] = Nothing]
  /\ UNCHANGED <<touched, entry, loadVars, sourceVars>>

---------------------------------------------------------------------------
(* The workers and the files they read.                                    *)

WorkerReads(j) ==
  /\ j \in jobs /\ j.read = Nothing
  /\ jobs' = (jobs \ {j}) \cup {[j EXCEPT !.read = content[SourceOf[j.asset]]]}
  /\ UNCHANGED <<names, derived, touched, entry, requested, outstanding,
                 nextToken, pumps, budget, completions, sourceVars>>

WorkerSends(j) ==
  /\ j \in jobs /\ j.read # Nothing
  /\ jobs' = jobs \ {j}
  /\ completions' = Append(completions, j)
  /\ UNCHANGED <<names, derived, touched, entry, requested, outstanding,
                 nextToken, pumps, budget, sourceVars>>

EditSource(s, c) ==
  /\ edits < MaxEdits /\ c # content[s]
  /\ content' = [content EXCEPT ![s] = c]
  /\ unannounced' = unannounced \cup {s}
  /\ edits' = edits + 1
  /\ UNCHANGED <<names, derived, touched, entry, loadVars>>

---------------------------------------------------------------------------
(* reload_asset and asset_source_changed: a newer request supersedes the   *)
(* one in flight.                                                          *)

Superseded(As) ==
  [a \in DOMAIN entry |->
     IF a \in As THEN [entry[a] EXCEPT !.token = @ + 1, !.state = "unresolved"] ELSE entry[a]]

\* The bound on the tokens an entry goes through.
Reloadable(As) == \A a \in As \cap DOMAIN entry : entry[a].token < MaxTokens

Reload(a) ==
  /\ Reloadable({a})
  /\ entry' = Superseded({a})
  /\ requested' = requested \cup {a}
  /\ UNCHANGED <<names, derived, touched, outstanding, nextToken, pumps, budget,
                 jobs, completions, sourceVars>>

SourceChanged(s) ==
  LET hit == {a \in DOMAIN entry : SourceOf[a] = s}
  IN /\ Reloadable(hit)
     /\ entry' = Superseded(hit)
     /\ requested' = requested \cup hit
     /\ unannounced' = unannounced \ {s}
     /\ UNCHANGED <<names, derived, touched, outstanding, nextToken, pumps, budget,
                    jobs, completions, content, edits>>

---------------------------------------------------------------------------
(* pump_assets.                                                            *)

\* A completion is wanted as long as some load of its asset is in flight.
WantedMutant(c) == c.asset \in DOMAIN entry /\ entry[c.asset].state = "loading"
Wanted(c) == c.asset \in DOMAIN entry /\ entry[c.asset].token = c.token
             /\ entry[c.asset].state = "loading"

Ended(e, state, payload, bytes) ==
  [state |-> state, version |-> e.version + 1, token |-> e.token, payload |-> payload,
   bytes |-> bytes, lastUsed |-> e.lastUsed]

Completed(a, read) ==
  IF read = Corrupt THEN Ended(entry[a], "failed", Nothing, 0)
  ELSE Ended(entry[a], "ready", read, SizeOf[a])

\* The entries once every received completion was applied or dropped as stale:
\* of an asset one at most is wanted, for no two have the same token.
WantedFor(a) == {c \in ToSet(completions) : c.asset = a /\ Wanted(c)}
Finished == {a \in DOMAIN entry : WantedFor(a) # {}}
AfterCompletions ==
  [a \in DOMAIN entry |-> IF a \in Finished
                          THEN Completed(a, (CHOOSE c \in WantedFor(a) : TRUE).read)
                          ELSE entry[a]]

\* start_load for every asset of S, with the tokens of some enumeration of S.
NewEntry(token) == [state |-> "unresolved", version |-> 0, token |-> token,
                 payload |-> Nothing, bytes |-> 0, lastUsed |-> 0]
StartedOne(e, a) ==
  IF a \in Loadable THEN [e EXCEPT !.state = "loading"]
  ELSE Ended(e, "failed", Nothing, e.bytes)
Started(ent, S, token) ==
  [a \in DOMAIN ent \cup S |->
     IF a \notin S THEN ent[a]
     ELSE StartedOne(IF a \in DOMAIN ent THEN [ent[a] EXCEPT !.token = token[a]]
                     ELSE NewEntry(token[a]), a)]

Enumerations(S) ==
  {f \in [S -> nextToken .. (nextToken + Cardinality(S) - 1)] : IsInjective(f)}

Binding(a, e) == [asset |-> a, state |-> e.state, version |-> e.version, payload |-> e.payload]

\* bind_dependents: the components that name the asset when it is bound.
Bound(ent, As) ==
  [e \in Entities |->
     IF names[e] \in As /\ names[e] \in DOMAIN ent
     THEN Binding(names[e], ent[names[e]]) ELSE derived[e]]

\* enforce_asset_cache_budget: the unreferenced payloads, least recently
\* referenced first, until the rest fits.
Aged(ent) == [a \in DOMAIN ent |-> IF RefCount(a) > 0 THEN [ent[a] EXCEPT !.lastUsed = pumps + 1]
                                   ELSE ent[a]]
Cached(ent) == {a \in DOMAIN ent : RefCount(a) = 0 /\ ent[a].bytes > 0 /\ ent[a].state # "loading"}
Evictable(ent, E) ==
  LET bytes == [a \in DOMAIN ent |-> ent[a].bytes]
      left(F) == SumOver(bytes, Cached(ent) \ F)
  IN /\ \A a \in E, b \in Cached(ent) \ E : ent[a].lastUsed <= ent[b].lastUsed
     /\ left(E) <= budget
     /\ E # {} => \E a \in E : /\ \A b \in E : ent[b].lastUsed <= ent[a].lastUsed
                               /\ left(E \ {a}) > budget
Kept(ent, E) == [a \in DOMAIN ent \ E |-> ent[a]]

\* Touched assets somebody still names are requested when they were never
\* resolved, left to the load in flight, or bound as they are.
NewlyNamed == {a \in touched : RefCount(a) > 0}
Unresolved(ent) == {a \in NewlyNamed : a \notin DOMAIN ent \/ ent[a].state = "unresolved"}
Resolved(ent) == {a \in NewlyNamed \cap DOMAIN ent : ent[a].state \in {"ready", "failed"}}

Pump ==
  /\ pumps < MaxPumps
  /\ LET starting == (requested \cup Unresolved(AfterCompletions)) \cap Declared
     IN /\ nextToken + Cardinality(starting) <= MaxTokens
        /\ \E token \in Enumerations(starting) :
             LET started == Started(AfterCompletions, starting, token)
                 aged == Aged(started)
                 loading == starting \cap Loadable
             IN /\ derived' = Bound(started, Finished \cup Resolved(AfterCompletions)
                                             \cup (starting \ Loadable))
                /\ \E E \in SUBSET Cached(aged) :
                     Evictable(aged, E) /\ entry' = Kept(aged, E)
                /\ jobs' = jobs \cup {[asset |-> a, token |-> token[a], read |-> Nothing]
                                      : a \in loading}
                /\ outstanding' = outstanding - Len(completions) + Cardinality(loading)
                /\ nextToken' = nextToken + Cardinality(starting)
  /\ completions' = <<>> /\ touched' = {} /\ requested' = {}
  /\ pumps' = pumps + 1
  /\ UNCHANGED <<names, budget, sourceVars>>

\* evict_unreferenced_assets.
EvictUnreferenced ==
  LET E == {a \in DOMAIN entry : entry[a].state # "loading" /\ RefCount(a) = 0}
  IN /\ E # {}
     /\ entry' = Kept(entry, E)
     /\ UNCHANGED <<names, derived, touched, loadVars, sourceVars>>

SetBudget(b) ==
  /\ budget # b /\ budget' = b
  /\ UNCHANGED <<names, derived, touched, entry, requested, outstanding, nextToken,
                 pumps, jobs, completions, sourceVars>>

---------------------------------------------------------------------------
AssetTableInit ==
  /\ names = [e \in Entities |-> Nothing] /\ derived = [e \in Entities |-> Nothing]
  /\ touched = {} /\ entry = [a \in {} |-> NewEntry(0)] /\ requested = {} /\ outstanding = 0 /\ nextToken = 0
  /\ pumps = 0 /\ budget = Max(Budgets) /\ jobs = {} /\ completions = <<>>
  /\ content \in [Sources -> SourceContents \ {Corrupt}] /\ unannounced = {} /\ edits = 0

AssetTableNext ==
  \/ \E e \in Entities, a \in Assets : Replace(e, a) \/ Retarget(e, a)
  \/ \E e \in Entities : RemoveComponent(e)
  \/ \E j \in jobs : WorkerReads(j) \/ WorkerSends(j)
  \/ \E s \in Sources, c \in SourceContents : EditSource(s, c)
  \/ \E a \in Assets : Reload(a)
  \/ \E s \in Sources : SourceChanged(s)
  \/ Pump \/ EvictUnreferenced
  \/ \E b \in Budgets : SetBudget(b)

\* asset_work_pending.
WorkPending == outstanding > 0 \/ requested # {} \/ touched # {}

\* What loading the asset's source as it is now would leave in its entry.
Result(a) == IF a \notin Loadable \/ content[SourceOf[a]] = Corrupt
             THEN [state |-> "failed", payload |-> Nothing]
             ELSE [state |-> "ready", payload |-> content[SourceOf[a]]]

\* When the world says there is nothing to pump and every source change was
\* announced, each component that names a declared asset is bound to the
\* asset it names, in the state and with the content a load of the source
\* would produce now: no late completion, eviction, reload or re-targeted
\* field leaves it with stale or missing data.
BoundWhenQuiet ==
  ~WorkPending /\ unannounced = {} =>
    \A e \in Entities : names[e] \in Declared =>
      LET d == derived[e]
      IN /\ d # Nothing /\ d.asset = names[e]
         /\ [state |-> d.state, payload |-> d.payload] = Result(names[e])
         /\ names[e] \in DOMAIN entry /\ entry[names[e]].version = d.version

\* outstanding counts exactly the loads whose completion was not received.
LoadsCounted == outstanding = Cardinality(jobs) + Len(completions)

---------------------------------------------------------------------------
(* The table and the disk cache its loaders go through: the one takes what *)
(* the loaders return, and neither knows of the other's steps.             *)

ResolutionInit == AssetTableInit /\ DerivedInit

ResolutionNext ==
  \/ AssetTableNext /\ UNCHANGED derivedVars
  \/ DerivedNext /\ UNCHANGED assetTableVars

ResolutionSpec == ResolutionInit /\ [][ResolutionNext]_<<assetTableVars, derivedVars>>

\* A component's references are resolved: the world's asset table binds what
\* its components name, and derived data is what a build would give.
AssetsResolve == BoundWhenQuiet /\ LoadsCounted /\ AnswersFresh
=============================================================================
