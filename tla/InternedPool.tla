---------------------------- MODULE InternedPool ----------------------------
(***************************************************************************)
(* Content-addressed payloads (gpu/interned_pool.rs): rows and leases that *)
(* name the same content id share one range of a VarLenPool, which lives   *)
(* while any of them does; a row or a lease without an id has a private    *)
(* range.  Every call holds the state's lock, so each is one action.  The  *)
(* tier engine is not attached: it stamps entries and moves nothing.       *)
(***************************************************************************)
EXTENDS VarLenPool

CONSTANTS
  InternRows,    \* rows of the component's table
  Ids,           \* the nonzero HandleIds
  NoId,          \* HandleId::ZERO
  Contents,      \* payloads written under an id or without one
  InternLeases,  \* InternedGpuLeases that may exist at one time
  InternCap      \* the pool's first capacity

\* An id, a row and a lease are never taken for one another.
ASSUME InternAssumption ==
  /\ InternCap \in Nat /\ NoId \notin Ids
  /\ IsFiniteSet(InternRows) /\ IsFiniteSet(InternLeases)
  /\ Ids \cap InternRows = {} /\ Ids \cap InternLeases = {}
  /\ InternRows \cap InternLeases = {}
  /\ \A data \in Contents : Len(data) \in Nat /\ data = [i \in 1 .. Len(data) |-> data[i]]

VARIABLES
  shared,        \* the underlying VarLenGpuPool
  entries,       \* InternState.entries: id -> range and refcount
  idByRow,       \* InternState.id_by_row
  privateByRow,  \* InternState.private_by_row
  gpuLease,      \* the leases: id and range
  meant          \* history: the payload of each entry's first writer, and of each private range

internVars == <<shared, entries, idByRow, privateByRow, gpuLease, meant>>

FreeLease == [live |-> FALSE, id |-> NoId, range |-> NoHandleRange]

\* Everything decref and intern change, to be passed from one to the next.
Table == [pool |-> shared, entries |-> entries, meant |-> meant]

\* A map with one owner more or less.  A payload is remembered under its
\* entry's id, or its private owner.
Remembered(m, owner, x) ==
  [o \in DOMAIN m \cup {owner} |-> IF o = owner THEN x ELSE m[o]]
Forgotten(m, owner) == [o \in DOMAIN m \ {owner} |-> m[o]]

---------------------------------------------------------------------------
\* decref_locked: the last reference frees the range with the entry.
Decref(t, id) ==
  IF id \notin DOMAIN t.entries THEN t
  ELSE IF t.entries[id].refcount > 1
    THEN [t EXCEPT !.entries[id].refcount = @ - 1]
    ELSE [pool |-> Release(t.pool, t.entries[id].range),
          entries |-> Forgotten(t.entries, id), meant |-> Forgotten(t.meant, id)]

\* A payload in a private range: write_var_row, over what the owner had there.
PrivateWrite(t, owner, prev, data) ==
  LET w == WriteVarRow(t.pool, prev, data)
  IN [table |-> [t EXCEPT !.pool = w.pool, !.meant = Remembered(@, owner, data)],
      range |-> w.handle]

\* The entry that is there is used and not counted.
InternLockedMutant(t, id, data) ==
  IF id \in DOMAIN t.entries
    THEN [table |-> t, range |-> t.entries[id].range]
    ELSE LET w == WriteVarRow(t.pool, NoHandleRange, data)
         IN [table |-> [pool |-> w.pool,
                        entries |-> Remembered(t.entries, id,
                                               [range |-> w.handle, refcount |-> 1]),
                        meant |-> Remembered(t.meant, id, data)],
             range |-> w.handle]

\* intern_locked: one more reference on the entry, whose bytes stay the first
\* writer's; or a new entry.
InternLocked(t, id, data) ==
  IF id \in DOMAIN t.entries
    THEN [table |-> [t EXCEPT !.entries[id].refcount = @ + 1],
          range |-> t.entries[id].range]
    ELSE LET w == WriteVarRow(t.pool, NoHandleRange, data)
         IN [table |-> [pool |-> w.pool,
                        entries |-> Remembered(t.entries, id,
                                               [range |-> w.handle, refcount |-> 1]),
                        meant |-> Remembered(t.meant, id, data)],
             range |-> w.handle]

Becomes(t) == shared' = t.pool /\ entries' = t.entries /\ meant' = t.meant

SetRow(row, id, private) ==
  /\ idByRow' = [idByRow EXCEPT ![row] = id]
  /\ privateByRow' = [privateByRow EXCEPT ![row] = private]

\* What the row had is given up: an interned reference, or its private range.
Vacated(row) ==
  IF idByRow[row] # NoId THEN Decref(Table, idByRow[row])
  ELSE [Table EXCEPT !.pool = Release(@, privateByRow[row]), !.meant = Forgotten(@, row)]

---------------------------------------------------------------------------
(* upsert_row, in its three cases.                                         *)

UpsertPrivate(row, data) ==
  LET t == IF idByRow[row] # NoId THEN Decref(Table, idByRow[row]) ELSE Table
      w == PrivateWrite(t, row, privateByRow[row], data)
  IN /\ Writable(t.pool, privateByRow[row], data)
     /\ Becomes(w.table) /\ SetRow(row, NoId, w.range)
     /\ UNCHANGED gpuLease

UpsertSame(row, id) == idByRow[row] = id /\ id # NoId /\ UNCHANGED internVars

UpsertInterned(row, id, data) ==
  LET t == Vacated(row)
      w == InternLocked(t, id, data)
  IN /\ idByRow[row] # id
     /\ id \in DOMAIN t.entries \/ Writable(t.pool, NoHandleRange, data)
     /\ Becomes(w.table) /\ SetRow(row, id, NoHandleRange)
     /\ UNCHANGED gpuLease

ReleaseRow(row) ==
  /\ Becomes(Vacated(row)) /\ SetRow(row, NoId, NoHandleRange)
  /\ UNCHANGED gpuLease

\* acquire_shared and the lease's drop.
AcquireShared(l, id, data) ==
  LET w == IF id = NoId THEN PrivateWrite(Table, l, NoHandleRange, data)
           ELSE InternLocked(Table, id, data)
  IN /\ ~gpuLease[l].live
     /\ id \in DOMAIN entries \/ Writable(shared, NoHandleRange, data)
     /\ Becomes(w.table)
     /\ gpuLease' = [gpuLease EXCEPT ![l] = [live |-> TRUE, id |-> id, range |-> w.range]]
     /\ UNCHANGED <<idByRow, privateByRow>>

DropLease(l) ==
  /\ gpuLease[l].live
  /\ Becomes(IF gpuLease[l].id # NoId THEN Decref(Table, gpuLease[l].id)
             ELSE [Table EXCEPT !.pool = Release(@, gpuLease[l].range),
                                !.meant = Forgotten(@, l)])
  /\ gpuLease' = [gpuLease EXCEPT ![l] = FreeLease]
  /\ UNCHANGED <<idByRow, privateByRow>>

---------------------------------------------------------------------------
InternInit ==
  /\ shared = NewPool(InternCap)
  /\ entries = [i \in {} |-> 0] /\ meant = [o \in {} |-> <<>>]
  /\ idByRow = [r \in InternRows |-> NoId]
  /\ privateByRow = [r \in InternRows |-> NoHandleRange]
  /\ gpuLease = [l \in InternLeases |-> FreeLease]

InternNext ==
  \/ \E row \in InternRows, data \in Contents :
       UpsertPrivate(row, data) \/ \E id \in Ids : UpsertInterned(row, id, data)
  \/ \E row \in InternRows : ReleaseRow(row) \/ \E id \in Ids : UpsertSame(row, id)
  \/ \E l \in InternLeases, data \in Contents, id \in Ids \cup {NoId} :
       AcquireShared(l, id, data)
  \/ \E l \in InternLeases : DropLease(l)

InternSpec == InternInit /\ [][InternNext]_internVars

---------------------------------------------------------------------------
(* Properties.                                                             *)

Naming(id) == {r \in InternRows : idByRow[r] = id}
                \cup {l \in InternLeases : gpuLease[l].live /\ gpuLease[l].id = id}

\* Who owns a range: an entry, a row without an id, a lease without one.
Owners == DOMAIN entries \cup {r \in InternRows : idByRow[r] = NoId}
            \cup {l \in InternLeases : gpuLease[l].live /\ gpuLease[l].id = NoId}

RangeOf == [o \in Owners |-> IF o \in InternRows THEN privateByRow[o]
                             ELSE IF o \in InternLeases THEN gpuLease[o].range
                             ELSE entries[o].range]

\* An entry counts exactly the rows and leases that name its id, and every one
\* of them has the entry's range.
CountsExact ==
  /\ \A id \in Ids : IF id \in DOMAIN entries
                       THEN entries[id].refcount = Cardinality(Naming(id))
                       ELSE Naming(id) = {}
  /\ \A l \in InternLeases : gpuLease[l].live /\ gpuLease[l].id # NoId
       => gpuLease[l].range = entries[gpuLease[l].id].range

\* The ranges in use and the free list share the buffer out: no unit is lost,
\* none belongs to two, through growth, alignment padding and coalescing.
RangesPartition ==
  /\ \A o, p \in DOMAIN RangeOf : o # p =>
       OwnedRows(RangeOf[o]) \cap OwnedRows(RangeOf[p]) = {}
  /\ UNION {OwnedRows(RangeOf[o]) : o \in DOMAIN RangeOf}
       = (0 .. shared.cap - 1) \ Covered(shared.free)

\* Each range still holds what its first writer meant, so what is shared is
\* never freed, written over or handed out again under its readers.
InternedExact ==
  /\ CountsExact
  /\ RangesPartition
  /\ \A o \in DOMAIN RangeOf :
       RangeOf[o].count > 0 => ReadRange(shared, RangeOf[o]) = meant[o]

=============================================================================
