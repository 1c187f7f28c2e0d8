-------------------------------- MODULE Runtime --------------------------------
(***************************************************************************)
(* runtime.rs, with the tables of handle_ledger.rs and component_methods.rs *)
(* it extends: the editor and every plugin link their own copy of the      *)
(* crate, and a plugin's copy is attached to the editor's before it does   *)
(* anything else.  From then on it asks the owner for component ids and    *)
(* tables.  A type has another TypeId in every copy; the same name and     *)
(* layout make it the same component.                                      *)
(*                                                                         *)
(* Plugins are loaded by different threads; users are threads that run a   *)
(* copy's code.  An atomic load, exchange or store, and what a mutex        *)
(* covers, is one step; a table is cloned and published in two.            *)
(***************************************************************************)
EXTENDS Integers, SequencesExt, FiniteSetsExt, TLC

CONSTANTS
  Owner,        \* the editor's copy
  Plugins,
  Foreign,      \* plugins built for another ABI
  Users, CopyOf, \* threads, and the copy each runs
  Types,        \* a component's name, size and alignment
  Collected     \* [copy -> Seq(types)]: what inventory found there

VARIABLES
  components, \* [copy -> Components: the type of each id and whose it is, by_type]
  attached,   \* plugins whose ATTACHED is the owner
  attaching,  \* [plugin -> how far its attach is, and the table it is making]
  tables,     \* [copy -> COLLECTORS: (id, whose function) in order, or Null]
  methods,    \* [copy -> whose methods BY_TYPE has, in order, or Null]
  calls,      \* [user -> [to, what]: a call on its way, or NoCall]
  given,      \* [user -> [type -> id]]: CID_CACHE
  tableSeen      \* [user -> the collectors it saw last]

runtimeVars == <<components, attached, attaching, tables, methods, calls, given, tableSeen>>

Copies == {Owner} \union Plugins
Null == <<"null">>
NoCall == <<>>

\* runtime()
RuntimeOf(c) == IF c \in attached THEN Owner ELSE c

-----------------------------------------------------------------------------
(* Components *)

IdIn(comps, type) == SelectInSeq(comps.entries, LAMBDA e : e.type = type)

\* own::component_id for a type as copy c knows it.
WithId(comps, c, type) ==
  LET known == <<c, type>> \in DOMAIN comps.byType
      entries == IF known \/ IdIn(comps, type) # 0 THEN comps.entries
                 ELSE Append(comps.entries, [type |-> type, by |-> c])
      id == IdIn([comps EXCEPT !.entries = entries], type)
  IN [entries |-> entries, byType |-> (<<c, type>> :> id) @@ comps.byType]

\* Every registration of c names its component.
WithCollected(comps, c) ==
  FoldLeft(LAMBDA acc, type : WithId(acc, c, type), comps, Collected[c])

EntriesOf(comps, c) ==
  [i \in DOMAIN Collected[c] |-> <<WithCollected(comps, c).byType[<<c, Collected[c][i]>>], c>>]

-----------------------------------------------------------------------------
(* Tables *)

Unlocked(host) == \A p \in Plugins : attaching[p].step = "publish" => RuntimeOf(p) # host

\* AppendTable::map_locked: built on first use.
Built(host) == IF tables[host] = Null THEN EntriesOf(components[host], host) ELSE tables[host]

WithBuilt(comps, host) == IF tables[host] = Null THEN WithCollected(comps, host) ELSE comps

-----------------------------------------------------------------------------
(* attach *)

Step(p, step, table) == attaching' = [attaching EXCEPT ![p] = [step |-> step, table |-> table]]

OwnStateUsed(c) == components[c].entries # <<>>

\* The copy does nothing while it is attached.
BeginAttach(p) ==
  /\ attaching[p].step = "begin"
  /\ \A u \in Users : CopyOf[u] = p => calls[u] = NoCall
  /\ Step(p, IF p \in Foreign \/ OwnStateUsed(p) THEN "refused" ELSE "swap", Null)
  /\ UNCHANGED <<components, attached, tables, methods, calls, given, tableSeen>>

SwapAttached(p) ==
  /\ attaching[p].step = "swap"
  /\ attached' = attached \union {p}
  /\ Step(p, "clone", Null)
  /\ UNCHANGED <<components, tables, methods, calls, given, tableSeen>>

TakesTable(p) ==
  /\ tables' = [tables EXCEPT ![Owner] = Built(Owner)]
  /\ components' = [components EXCEPT ![Owner] = WithBuilt(@, Owner)]
  /\ Step(p, "publish", Built(Owner))
  /\ UNCHANGED <<attached, methods, calls, given, tableSeen>>

CloneTableMutant(p) == attaching[p].step = "clone" /\ TakesTable(p)

\* AppendTable::extend, the write lock taken: the table as it is.
CloneTable(p) == attaching[p].step = "clone" /\ Unlocked(Owner) /\ TakesTable(p)

\* The plugin's registrations after the others, and the lock released.
PublishTable(p) ==
  /\ attaching[p].step = "publish"
  /\ components' = [components EXCEPT ![Owner] = WithCollected(@, p)]
  /\ tables' = [tables EXCEPT ![Owner] = attaching[p].table \o EntriesOf(components[Owner], p)]
  /\ Step(p, "methods", Null)
  /\ UNCHANGED <<attached, methods, calls, given, tableSeen>>

\* build_by_type, of what inventory found in this copy.
MethodsBuilt(host) == IF methods[host] = Null THEN <<host>> ELSE methods[host]

\* component_methods::extend, all of it under one lock.
ExtendMethods(p) ==
  /\ attaching[p].step = "methods"
  /\ methods' = [methods EXCEPT ![Owner] = Append(MethodsBuilt(Owner), p)]
  /\ Step(p, "done", Null)
  /\ UNCHANGED <<components, attached, tables, calls, given, tableSeen>>

-----------------------------------------------------------------------------
(* Users *)

\* A plugin's code runs before it is attached or after, not in between.
MayRun(c) == c \in Plugins => attaching[c].step \in {"begin", "done", "refused"}

BeginCall(u, what) ==
  /\ calls[u] = NoCall /\ MayRun(CopyOf[u])
  /\ what \in Types => what \notin DOMAIN given[u]
  /\ calls' = [calls EXCEPT ![u] = [to |-> RuntimeOf(CopyOf[u]), what |-> what]]
  /\ UNCHANGED <<components, attached, attaching, tables, methods, given, tableSeen>>

ComponentIdCall(u) ==
  LET host == calls[u].to
      type == calls[u].what
      comps == WithId(components[host], CopyOf[u], type)
  IN /\ type \in Types
     /\ components' = [components EXCEPT ![host] = comps]
     /\ given' = [given EXCEPT ![u] = (type :> comps.byType[<<CopyOf[u], type>>]) @@ @]
     /\ calls' = [calls EXCEPT ![u] = NoCall]
     /\ UNCHANGED <<attached, attaching, tables, methods, tableSeen>>

\* collect_handles: the table there is, or the one built under the lock.
CollectorsCall(u) ==
  LET host == calls[u].to
  IN /\ calls[u].what = "collectors"
     /\ tables[host] = Null => Unlocked(host)
     /\ tables' = [tables EXCEPT ![host] = Built(host)]
     /\ components' = [components EXCEPT ![host] = WithBuilt(@, host)]
     /\ tableSeen' = [tableSeen EXCEPT ![u] = Built(host)]
     /\ calls' = [calls EXCEPT ![u] = NoCall]
     /\ UNCHANGED <<attached, attaching, methods, given>>

\* own_methods_of_type: likewise.
MethodsCall(u) ==
  /\ calls[u].what = "methods"
  /\ methods' = [methods EXCEPT ![calls[u].to] = MethodsBuilt(calls[u].to)]
  /\ calls' = [calls EXCEPT ![u] = NoCall]
  /\ UNCHANGED <<components, attached, attaching, tables, given, tableSeen>>

-----------------------------------------------------------------------------
RuntimeInit ==
  /\ components = [c \in Copies |-> [entries |-> <<>>, byType |-> <<>>]]
  /\ attached = {}
  /\ attaching = [p \in Plugins |-> [step |-> "begin", table |-> Null]]
  /\ tables = [c \in Copies |-> Null]
  /\ methods = [c \in Copies |-> Null]
  /\ calls = [u \in Users |-> NoCall]
  /\ given = [u \in Users |-> <<>>] /\ tableSeen = [u \in Users |-> <<>>]

Attaching(p) ==
  BeginAttach(p) \/ SwapAttached(p) \/ CloneTable(p) \/ PublishTable(p) \/ ExtendMethods(p)

Calling(u) ==
  \/ \E what \in Types \union {"collectors", "methods"} : BeginCall(u, what)
  \/ calls[u] # NoCall /\ (ComponentIdCall(u) \/ CollectorsCall(u) \/ MethodsCall(u))

RuntimeNext == (\E p \in Plugins : Attaching(p)) \/ (\E u \in Users : Calling(u))

-----------------------------------------------------------------------------
\* Copies that share a runtime give a component one id, and two components two,
\* whoever asked first and whatever was asked before the attach was made or
\* refused (runtime.rs:17 "component identity is keyed by type name and layout").
IdsAgree ==
  \A u, v \in Users :
    RuntimeOf(CopyOf[u]) = RuntimeOf(CopyOf[v]) =>
      \A a \in DOMAIN given[u], b \in DOMAIN given[v] : (given[u][a] = given[v][b]) = (a = b)

\* Every plugin whose attach returned is in the owner's tables, with its
\* registrations once, after those that were there; a table only grows under
\* who read it.
TablesGrow ==
  /\ \A p \in Plugins : attaching[p].step = "done" =>
       /\ SelectSeq(methods[Owner], LAMBDA c : c = p) = <<p>>
       /\ SelectSeq(tables[Owner], LAMBDA e : e[2] = p) = EntriesOf(components[Owner], p)
  /\ \A u \in Users : tableSeen[u] # <<>> /\ tables[RuntimeOf(CopyOf[u])] # Null =>
       IsPrefix(tableSeen[u], tables[RuntimeOf(CopyOf[u])])

RuntimeShared == IdsAgree /\ TablesGrow

=============================================================================
