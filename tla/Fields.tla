------------------------------- MODULE Fields -------------------------------
(***************************************************************************)
(* What derive(SceneStore) makes of a struct with #[gpu] fields (crate     *)
(* pulsar_scenedb_derive), and what the functions it generates do to a     *)
(* SceneGpuStore when a World inserts, changes and removes the component:  *)
(* the tables and pools a struct registers, the rows and payloads a write  *)
(* leaves there, and what a removal takes back.                            *)
(*                                                                         *)
(* A struct is a declaration; the registration, the write, the release and *)
(* the clear are generated from it one by one, and have to agree.  A type  *)
(* is a pair or a triple headed by "leaf", "heavy", "vec", "opt" or "res". *)
(* A type that makes its registration panic is a declaration its author    *)
(* must change, so it registers nothing here.  A pool's ranges are numbers *)
(* (VarLenPool has the byte ranges), and its ids are InternedPool's.       *)
(***************************************************************************)
EXTENDS Integers, FiniteSets, SequencesExt

CONSTANTS
  Structs,         \* name -> [fields, attr]: the declarations
  Companions,      \* name -> the structs whose rows are derived from it
  DerivedValue(_), \* the companion's value for an authored one
  Programs,        \* sets of structs, one of which is linked
  StructValues,    \* name -> values: a sequence with an entry for each field
  FieldRows,       \* entity indices
  PoolRoom,        \* ranges a pool has room for at first
  KeysShared       \* whether an entity may have two columns of one key

VARIABLES
  code,     \* the structs of the program, and what the macro made of each
  inserted,     \* World: row -> struct -> its value, and that of the last write as new
  gpuStore  \* SceneGpuStore: tables, buffers and pools

fieldVars == <<code, inserted, gpuStore>>

Absent == [now |-> <<>>, new |-> <<>>]
NoContentId == <<"zero", 0>>
NoDeclaredKey == ""

---------------------------------------------------------------------------
(* The declaration, as the macro reads it.                                 *)

MirrorModes == {"DirtyTracked", "Once"}
BareAttr == [mirror |-> "DirtyTracked", buffer |-> NoDeclaredKey, heavy |-> FALSE, content_id |-> 0]

\* GpuAttr::parse, and expand's use of it: an attribute that does not parse is
\* taken for a bare #[gpu].
FieldAttr(f) ==
  IF DOMAIN f.attr \subseteq DOMAIN BareAttr
       /\ ("mirror" \in DOMAIN f.attr => f.attr.mirror \in MirrorModes)
    THEN f.attr @@ BareAttr ELSE BareAttr

\* StructGpuAttr::parse and struct_gpu_attr, as lenient.
SplitLayout == [layout |-> "split", buffer |-> NoDeclaredKey]
StructAttr(n) ==
  LET a == Structs[n].attr
  IN IF DOMAIN a \subseteq DOMAIN SplitLayout /\ ("layout" \in DOMAIN a => a.layout = "packed")
       THEN a @@ SplitLayout ELSE SplitLayout

\* ty_shape::analyze and contains_heavy.
RECURSIVE ContainsHeavy(_)
ContainsHeavy(t) ==
  \/ t[1] = "heavy"
  \/ t[1] \in {"vec", "opt"} /\ ContainsHeavy(t[2])
  \/ t[1] = "res" /\ (ContainsHeavy(t[2]) \/ ContainsHeavy(t[3]))

\* expand's classification of a Vec's element: the VarLenShape.
VarLenShape(e) ==
  CASE ~ContainsHeavy(e) -> "Plain"
    [] e[1] = "heavy" -> "HeavyHandle"
    [] e[1] = "opt" /\ e[2][1] = "heavy" -> "HeavyOptionHandle"
    [] e[1] = "res" /\ e[2][1] = "heavy" /\ e[3][1] = "heavy" -> "HeavyEither"
    [] OTHER -> "Unsupported"

\* FieldInfo, with as_vec_elem_type's answer as its shape and the declared key,
\* or the one that is unique to the field.
FieldInfo(n, i, f, attr) ==
  [gpu |-> f.gpu, type |-> f.type, mirror |-> attr.mirror, heavy |-> attr.heavy,
   content_id |-> attr.content_id,
   shape |-> IF f.type[1] = "vec" THEN VarLenShape(f.type[2]) ELSE "Scalar",
   key |-> IF attr.buffer = NoDeclaredKey THEN <<n, i>> ELSE <<attr.buffer, 0>>]
FieldInfos(n) ==
  [i \in DOMAIN Structs[n].fields |-> FieldInfo(n, i, Structs[n].fields[i], FieldAttr(Structs[n].fields[i]))]

\* The generator a struct is given to: none without a #[gpu] field, one for
\* structs with a Vec, one for the others, which may be packed.
Generator(fields, gpu, layout) ==
  CASE gpu = <<>> -> "cpu"
    [] \E i \in ToSet(gpu) : fields[i].shape # "Scalar" -> "var_len"
    [] OTHER -> layout

\* What compiles: expand's errors, resolve_content_id_sibling's, and the
\* compile_error!s of generate_gpu_column_set.
Compiles(fields, gpu, generator, layout) ==
  LET modes == {fields[i].mirror : i \in ToSet(gpu)}
      heavy == {i \in ToSet(gpu) : fields[i].heavy}
  IN /\ fields # <<>>
     /\ \A i \in ToSet(gpu) :
          /\ fields[i].shape # "Unsupported"
          /\ fields[i].content_id # 0 => fields[i].shape # "Scalar" /\ fields[i].content_id \in DOMAIN fields
     /\ generator = "var_len" => layout # "packed"
     /\ generator = "packed" => Cardinality(modes) = 1 /\ heavy = {}
     /\ generator = "split" => \A i \in heavy : fields[i].mirror = "Once"

---------------------------------------------------------------------------
(* Registration.                                                           *)

\* The wrapper types that name a struct's tables, and the packed view.
Wrapper(n, i) == <<n, i, "">>
OkWrapper(n, i) == <<n, i, "ok">>
ErrWrapper(n, i) == <<n, i, "err">>
PackedView(n) == <<n, 0, "packed">>

BufferKey(f, suffix) == Append(f.key, suffix)
PackedKey(n, attr) ==
  IF attr.buffer = NoDeclaredKey THEN <<n, 0, "packed">> ELSE <<attr.buffer, 0, "">>

Column(wrapper, key, elem, mode) ==
  [call |-> "column", wrapper |-> wrapper, key |-> key, elem |-> elem, mode |-> mode]
HandleTable(wrapper, key) == Column(wrapper, key, <<"leaf", "VarLenHandle">>, "DirtyTracked")
Pool(kind, key, elem) == [call |-> kind, key |-> key, elem |-> elem]

\* register_growable_calls, of both generators: a struct with a Vec takes no
\* notice of heavy on its other fields.
RegisterField(n, i, f, generator) ==
  LET e == f.type[2]
  IN CASE f.shape = "Scalar" ->
            << Column(Wrapper(n, i), BufferKey(f, ""),
                 IF f.heavy /\ generator = "split" THEN <<"element", e>> ELSE f.type, f.mirror) >>
       [] f.shape = "HeavyEither" ->
            << Pool("plain", BufferKey(f, "tag"), <<"leaf", "u32">>),
               Pool("interned", BufferKey(f, "ok"), e[2]),
               Pool("interned", BufferKey(f, "err"), e[3]),
               HandleTable(Wrapper(n, i), BufferKey(f, "tag::handles")),
               HandleTable(OkWrapper(n, i), BufferKey(f, "ok::handles")),
               HandleTable(ErrWrapper(n, i), BufferKey(f, "err::handles")) >>
       [] OTHER ->
            << Pool(IF f.shape = "Plain" /\ f.content_id = 0 THEN "plain" ELSE "interned",
                 BufferKey(f, ""), IF f.shape = "HeavyOptionHandle" THEN e[2] ELSE e),
               HandleTable(Wrapper(n, i), BufferKey(f, "handles")) >>

\* register_gpu_columns_growable.
RegisterCalls(n, fields, gpu, generator, packedKey) ==
  IF generator = "packed"
    THEN << Column(PackedView(n), packedKey, <<"view", n, Len(gpu)>>, fields[gpu[1]].mirror) >>
    ELSE FlattenSeq([j \in DOMAIN gpu |-> RegisterField(n, gpu[j], fields[gpu[j]], generator)])

\* expand: what the generated functions are made from.
Expanded(n, fields, gpu, generator) ==
  [fields |-> fields, gpu |-> gpu, generator |-> generator,
   compiles |-> Compiles(fields, gpu, generator, StructAttr(n).layout),
   packedKey |-> PackedKey(n, StructAttr(n)),
   calls |-> RegisterCalls(n, fields, gpu, generator, PackedKey(n, StructAttr(n)))]
Expands(n) ==
  LET fields == FieldInfos(n)
      isGpu(i) == fields[i].gpu
      gpu == SelectSeq([i \in DOMAIN fields |-> i], isGpu)
  IN Expanded(n, fields, gpu, Generator(fields, gpu, StructAttr(n).layout))

\* A new buffer is zeroed: a packed record is as many zeros as it has fields.
ZeroRecord(size) == [i \in 1 .. size |-> 0]
NewBuffer(c) ==
  LET zero == IF c.elem[1] = "view" THEN ZeroRecord(c.elem[3]) ELSE 0
  IN [elem |-> c.elem, mode |-> c.mode, rows |-> [r \in FieldRows |-> zero]]

NewFieldPool(elem) ==
  [elem |-> elem, interned |-> FALSE, ranges |-> <<>>, room |-> PoolRoom, epoch |-> 0, published |-> 0,
   entries |-> <<>>, idByRow |-> [r \in FieldRows |-> NoContentId], privateByRow |-> [r \in FieldRows |-> 0]]

\* assert_share_compatible, the registry's refusal of a key of another kind,
\* and the pools' downcasts.
ShareCompatible(s, c) ==
  IF c.call = "column"
    THEN IF c.key \in DOMAIN s.buffers
           THEN s.buffers[c.key].elem = c.elem /\ s.buffers[c.key].mode = c.mode
           ELSE c.key \notin DOMAIN s.pools
    ELSE /\ c.key \notin DOMAIN s.buffers
         /\ c.key \in DOMAIN s.pools => s.pools[c.key].elem = c.elem

\* register_dirty_tracked_gpu_buffer(_heavy), register_var_len_gpu_pool and
\* register_interned_var_len_gpu_pool: the first makes it, the others adopt it.
Registered(s, c) ==
  IF c.call = "column"
    THEN [s EXCEPT !.tables = (c.wrapper :> c.key) @@ @,
                   !.buffers = @ @@ (c.key :> NewBuffer(c))]
    ELSE LET pool == (s.pools @@ (c.key :> NewFieldPool(c.elem)))[c.key]
         IN [s EXCEPT !.pools = (c.key :> [pool EXCEPT !.interned = @ \/ c.call = "interned"]) @@ @]

RegisteredAll(s, n) == FoldLeft(Registered, s, code[n].calls)
Registrable(s, calls) ==
  \A j \in DOMAIN calls :
    ShareCompatible(FoldLeft(Registered, s, SubSeq(calls, 1, j - 1)), calls[j])

---------------------------------------------------------------------------
(* Rows and ranges.                                                        *)

\* mark_gpu_row_dirty and read_dirty_tracked_row_bytes.
MarkTable(s, w, row, v) ==
  IF w \in DOMAIN s.tables THEN [s EXCEPT !.buffers[s.tables[w]].rows[row] = v] ELSE s
ShadowOf(s, w, row) ==
  IF w \in DOMAIN s.tables THEN s.buffers[s.tables[w]].rows[row] ELSE 0

\* A range is given back; range 0 is none.
GivenBack(p, range) == [p EXCEPT !.ranges = [h \in DOMAIN @ \ {range} |-> @[h]]]

\* write_var_row: the row's old range goes first, and nothing needs no range.
FreeRange(p) == Min((1 .. Cardinality(DOMAIN p.ranges) + 1) \ DOMAIN p.ranges)
RangePlacedAt(p, range, data) ==
  [pool |-> [p EXCEPT !.ranges = (range :> data) @@ @,
                      !.room = IF range > @ THEN 2 * @ ELSE @,
                      !.epoch = IF range > p.room THEN @ + 1 ELSE @],
   range |-> range]
RangePlaced(p, data) == IF data = <<>> THEN [pool |-> p, range |-> 0] ELSE RangePlacedAt(p, FreeRange(p), data)

\* decref_locked.
Unnamed(p, id) ==
  IF id \notin DOMAIN p.entries THEN p
  ELSE IF p.entries[id].refcount > 1 THEN [p EXCEPT !.entries[id].refcount = @ - 1]
  ELSE [GivenBack(p, p.entries[id].range) EXCEPT !.entries = [o \in DOMAIN @ \ {id} |-> @[o]]]

\* What the row had, shared or private.
VacatedRow(p, row) ==
  IF p.idByRow[row] = NoContentId THEN GivenBack(p, p.privateByRow[row])
  ELSE Unnamed(p, p.idByRow[row])

RowIs(w, row, id, private) ==
  [w EXCEPT !.pool.idByRow[row] = id, !.pool.privateByRow[row] = private]
PrivateRow(w, row) == RowIs(w, row, NoContentId, w.range)
NamedRow(w, row, id) ==
  RowIs([w EXCEPT !.pool.entries = (id :> [range |-> w.range, refcount |-> 1]) @@ @], row, id, 0)
SharedRow(p, row, id) ==
  RowIs([pool |-> [p EXCEPT !.entries[id].refcount = @ + 1], range |-> p.entries[id].range], row, id, 0)

\* upsert_row, of a row that has another content or none, and of any row.
Renamed(p, row, id, data) ==
  CASE id = NoContentId -> PrivateRow(RangePlaced(p, data), row)
    [] id \in DOMAIN p.entries -> SharedRow(p, row, id)
    [] OTHER -> NamedRow(RangePlaced(p, data), row, id)
Upserted(p, row, id, data) ==
  IF id # NoContentId /\ p.idByRow[row] = id THEN [pool |-> p, range |-> p.entries[id].range]
  ELSE Renamed(VacatedRow(p, row), row, id, data)

\* release_row.
ReleasedFieldRow(p, row) == RowIs([pool |-> VacatedRow(p, row)], row, NoContentId, 0).pool

---------------------------------------------------------------------------
(* The generated dispatch.                                                 *)

\* sync_var_len_pool.
SyncedPool(p) == [p EXCEPT !.published = p.epoch]

\* What a placement leaves in the pool and the handle table.
Handed(s, key, w, row, p) == MarkTable([s EXCEPT !.pools[key] = p.pool], w, row, p.range)
Synced(s, key) == [s EXCEPT !.pools[key] = SyncedPool(@)]

\* write_var_len_field_at_row.
WriteVarLen(s, key, w, row, data) ==
  IF key \notin DOMAIN s.pools THEN s
  ELSE Synced(Handed(s, key, w, row, RangePlaced(GivenBack(s.pools[key], ShadowOf(s, w, row)), data)), key)

\* write_interned_var_len_field_with_id_at_row, which leaves the registry alone.
WriteInternedWithId(s, key, w, row, id, data) ==
  IF key \notin DOMAIN s.pools \/ ~s.pools[key].interned THEN s
  ELSE Handed(s, key, w, row, Upserted(s.pools[key], row, id, data))

\* write_interned_var_len_field_at_row.
WriteInterned(s, key, w, row, id, data) ==
  IF key \notin DOMAIN s.pools \/ ~s.pools[key].interned THEN s
  ELSE Synced(Handed(s, key, w, row, Upserted(s.pools[key], row, id, data)), key)

\* ContentAddressed::content_id of the sibling, whose 0 is no identity, and
\* structural_content_id.
ContentId(f, value, chain) ==
  IF f.content_id = 0 THEN <<"chain", chain>>
  ELSE IF value[f.content_id] = 0 THEN NoContentId ELSE <<"asset", value[f.content_id]>>

\* GpuUploadSource::upload_element, and GpuRef::NULL.
UploadElement(handle) == handle + 10
NullRef == 0

\* The loops that lower a list: the references of one side of it, the tags,
\* and the references with null for None.
Side(slots, side) ==
  LET own(slot) == slot[1] = side
      refs(kept) == [j \in DOMAIN kept |-> kept[j][2]]
  IN refs(SelectSeq(slots, own))
Tags(slots) == [j \in DOMAIN slots |-> IF slots[j][1] = "ok" THEN 0 ELSE 1]
RefsOrNull(slots) == [j \in DOMAIN slots |-> IF slots[j][1] = "some" THEN slots[j][2] ELSE NullRef]

\* write_arms of a Vec field, by its shape.
WriteHeavy(s, key, f, w, row, value, refs) ==
  WriteInternedWithId(s, key, w, row, ContentId(f, value, refs), refs)
WriteEither(s, n, i, f, row, value) ==
  LET tagged == WriteVarLen(s, BufferKey(f, "tag"), Wrapper(n, i), row, Tags(value[i]))
      oks == WriteHeavy(tagged, BufferKey(f, "ok"), f, OkWrapper(n, i), row, value, Side(value[i], "ok"))
  IN WriteHeavy(oks, BufferKey(f, "err"), f, ErrWrapper(n, i), row, value, Side(value[i], "err"))
WriteChain(s, n, i, f, row, value) ==
  CASE f.shape = "HeavyEither" -> WriteEither(s, n, i, f, row, value)
    [] f.shape = "HeavyHandle" -> WriteHeavy(s, BufferKey(f, ""), f, Wrapper(n, i), row, value, value[i])
    [] f.shape = "HeavyOptionHandle" ->
         WriteHeavy(s, BufferKey(f, ""), f, Wrapper(n, i), row, value, RefsOrNull(value[i]))
    [] f.shape = "Plain" /\ f.content_id # 0 ->
         WriteInterned(s, BufferKey(f, ""), Wrapper(n, i), row, ContentId(f, value, value[i]), value[i])
    [] OTHER -> WriteVarLen(s, BufferKey(f, ""), Wrapper(n, i), row, value[i])

\* write_gpu_columns_at_row, and the other fields of a struct with a Vec: a
\* Once field is written by a first insert only.
Uploaded(f, n, v) == IF f.heavy /\ code[n].generator = "split" THEN UploadElement(v) ELSE v
WriteScalar(s, n, i, f, row, value, isNewInsert) ==
  IF f.mirror = "Once" /\ ~isNewInsert THEN s
  ELSE MarkTable(s, Wrapper(n, i), row, Uploaded(f, n, value[i]))

\* packed_write_body.
PackedMode(n) == code[n].fields[code[n].gpu[1]].mirror
PackedRecord(n, value) == [j \in DOMAIN code[n].gpu |-> value[code[n].gpu[j]]]
WritePacked(s, n, row, value, isNewInsert) ==
  IF PackedMode(n) = "Once" /\ ~isNewInsert THEN s
  ELSE MarkTable(s, PackedView(n), row, PackedRecord(n, value))

WriteField(s, n, i, f, row, value, isNewInsert) ==
  IF f.shape = "Scalar" THEN WriteScalar(s, n, i, f, row, value, isNewInsert)
  ELSE WriteChain(s, n, i, f, row, value)
WriteFields(s, n, row, value, isNewInsert) ==
  LET write(t, i) == WriteField(t, n, i, code[n].fields[i], row, value, isNewInsert)
  IN IF code[n].generator = "packed" THEN WritePacked(s, n, row, value, isNewInsert)
     ELSE FoldLeft(write, s, code[n].gpu)

\* The dispatch function registers the struct if its first table is not there.
FirstTable(n) == IF code[n].generator = "packed" THEN PackedView(n) ELSE Wrapper(n, code[n].gpu[1])
Ready(s, n) == IF FirstTable(n) \in DOMAIN s.tables THEN s ELSE RegisteredAll(s, n)
Dispatch(s, n, row, value, isNewInsert) ==
  IF code[n].generator = "cpu" THEN s ELSE WriteFields(Ready(s, n), n, row, value, isNewInsert)

\* group_by_component: a component's own registration and its derived rows',
\* which write_derived_row forwards to their struct's.
DerivedOf == [n \in DOMAIN Companions |-> Companions[n]]
WithDerived(n) == DerivedOf[n] \cup {n}
ValueIn(m, n, value) == IF m = n THEN value ELSE DerivedValue(value)
DispatchAll(s, n, row, value, isNewInsert) ==
  LET dispatch(t, m) == Dispatch(t, m, row, ValueIn(m, n, value), isNewInsert)
  IN FoldLeft(dispatch, s, <<n>> \o SetToSeq(DerivedOf[n]))

---------------------------------------------------------------------------
(* The generated release and clear.                                        *)

\* free_var_len_field_at_row and free_interned_var_len_field_at_row.
FreeVarLen(s, key, w, row) ==
  IF key \notin DOMAIN s.pools \/ w \notin DOMAIN s.tables THEN s
  ELSE MarkTable([s EXCEPT !.pools[key] = GivenBack(@, ShadowOf(s, w, row))], w, row, 0)
FreeInterned(s, key, w, row) ==
  IF key \notin DOMAIN s.pools \/ ~s.pools[key].interned THEN s
  ELSE MarkTable([s EXCEPT !.pools[key] = ReleasedFieldRow(@, row)], w, row, 0)

\* release_arms with the error side left out.
ReleaseEitherMutant(s, n, i, f, row) ==
  FreeInterned(FreeVarLen(s, BufferKey(f, "tag"), Wrapper(n, i), row), BufferKey(f, "ok"), OkWrapper(n, i), row)

\* release_arms.
ReleaseEither(s, n, i, f, row) ==
  LET tagged == FreeVarLen(s, BufferKey(f, "tag"), Wrapper(n, i), row)
      oks == FreeInterned(tagged, BufferKey(f, "ok"), OkWrapper(n, i), row)
  IN FreeInterned(oks, BufferKey(f, "err"), ErrWrapper(n, i), row)
ReleaseChain(s, n, i, f, row) ==
  CASE f.shape = "Scalar" -> s
    [] f.shape = "HeavyEither" -> ReleaseEither(s, n, i, f, row)
    [] f.shape = "Plain" /\ f.content_id = 0 -> FreeVarLen(s, BufferKey(f, ""), Wrapper(n, i), row)
    [] OTHER -> FreeInterned(s, BufferKey(f, ""), Wrapper(n, i), row)

\* The clear: a packed record, or each column that is not heavy.  A struct with
\* a Vec registers none.
ClearFields(s, n, row) ==
  LET clear(t, i) == IF code[n].fields[i].heavy THEN t ELSE MarkTable(t, Wrapper(n, i), row, 0)
  IN CASE code[n].generator = "packed" -> MarkTable(s, PackedView(n), row, ZeroRecord(Len(code[n].gpu)))
       [] code[n].generator = "split" -> FoldLeft(clear, s, code[n].gpu)
       [] OTHER -> s

\* remove_core's two loops, and clear_derived_row.
TakenBack(s, n, row) ==
  LET release(m, t, i) == ReleaseChain(t, m, i, code[m].fields[i], row)
      take(t, m) == LET of(u, i) == release(m, u, i) IN ClearFields(FoldLeft(of, t, code[m].gpu), m, row)
  IN FoldLeft(take, s, <<n>> \o SetToSeq(DerivedOf[n]))

---------------------------------------------------------------------------
(* The World's calls.                                                      *)

\* The values a component can be given.
FieldValues == [n \in DOMAIN StructValues |-> StructValues[n]]

FieldsInit ==
  /\ \E program \in Programs :
       code = [n \in {m \in program : Expands(m).compiles} |-> Expands(n)]
  /\ inserted = [row \in FieldRows |-> [n \in DOMAIN code |-> Absent]]
  /\ gpuStore = [tables |-> <<>>, buffers |-> <<>>, pools |-> <<>>]

Holds(row, n) == inserted[row][n] # Absent

\* The keys whose rows or row ids a struct's write touches.
RowKeys(n) ==
  {call.key : call \in {c \in UNION {ToSet(code[m].calls) : m \in WithDerived(n)} : c.call # "plain"}}
Alone(row, n) == \A m \in DOMAIN code \ {n} : Holds(row, m) => RowKeys(m) \cap RowKeys(n) = {}

\* The structs a write of n reaches can register, each after those before it.
CanDispatch(n) ==
  \A m \in WithDerived(n) :
    code[m].generator # "cpu" /\ FirstTable(m) \notin DOMAIN gpuStore.tables =>
      Registrable(gpuStore, code[m].calls)

\* The value of the last write as new matters to a Once field only.
AsNew(n, value) ==
  IF \E m \in WithDerived(n) : \E i \in ToSet(code[m].gpu) : code[m].fields[i].mirror = "Once"
    THEN value ELSE <<>>

\* push_new_value's dispatch and that of a guard's drop, both as new, and
\* insert_core's in-place branch.
FieldWrite(row, n, value, isNewInsert) ==
  /\ ~Holds(row, n) => isNewInsert /\ (KeysShared \/ Alone(row, n))
  /\ CanDispatch(n)
  /\ inserted' = [inserted EXCEPT ![row][n] =
                [now |-> value, new |-> IF isNewInsert THEN AsNew(n, value) ELSE @.new]]
  /\ gpuStore' = DispatchAll(gpuStore, n, row, value, isNewInsert)
  /\ UNCHANGED code

\* remove_core, and despawn_inner for each component of the entity.
FieldRemove(row, n) ==
  /\ Holds(row, n)
  /\ inserted' = [inserted EXCEPT ![row][n] = Absent]
  /\ gpuStore' = TakenBack(gpuStore, n, row)
  /\ UNCHANGED code

FieldDespawn(row) ==
  LET take(s, n) == TakenBack(s, n, row)
  IN /\ inserted' = [inserted EXCEPT ![row] = [n \in DOMAIN code |-> Absent]]
     /\ gpuStore' = FoldLeft(take, gpuStore, SetToSeq({n \in DOMAIN code : Holds(row, n)}))
     /\ UNCHANGED code

\* A caller's own register_gpu_columns_growable.
FieldRegister(n) ==
  /\ code[n].generator # "cpu" /\ Registrable(gpuStore, code[n].calls)
  /\ gpuStore' = RegisteredAll(gpuStore, n)
  /\ UNCHANGED <<code, inserted>>

FieldsNext ==
  \/ \E n \in DOMAIN code :
       \/ FieldRegister(n)
       \/ \E row \in FieldRows :
            \/ FieldRemove(row, n)
            \/ \E value \in FieldValues[n], isNewInsert \in BOOLEAN :
                 FieldWrite(row, n, value, isNewInsert)
  \/ \E row \in FieldRows : FieldDespawn(row)

FieldsSpec == FieldsInit /\ [][FieldsNext]_fieldVars

---------------------------------------------------------------------------
(* Properties, from what a reader of the buffers is told.                  *)

\* Whose rows of struct m the entity has: its own, or one derived from another.
Origins(row, m) == {n \in DOMAIN code : Holds(row, n) /\ m \in WithDerived(n)}
OnGpu == {m \in DOMAIN code : code[m].generator # "cpu"}
VecFields(m) == {i \in ToSet(code[m].gpu) : code[m].fields[i].shape # "Scalar"}

\* A handle table's row and the payload its handle is of.
Payload(row, w, key) ==
  LET range == ShadowOf(gpuStore, w, row)
  IN IF range = 0 THEN <<>>
     ELSE IF range \in DOMAIN gpuStore.pools[key].ranges THEN gpuStore.pools[key].ranges[range]
     ELSE <<"dangling">>

\* A reader of the three streams takes the next of the side each tag names.
EitherReads(data, tags, oks, errs) ==
  LET before(j, t) == Cardinality({k \in 1 .. j : tags[k] = t})
  IN /\ Len(tags) = Len(data) /\ Len(oks) + Len(errs) = Len(data)
     /\ \A j \in DOMAIN data :
          data[j] = IF tags[j] = 0 THEN <<"ok", oks[before(j, 0)]>> ELSE <<"err", errs[before(j, 1)]>>
OptionReads(data, read) ==
  /\ Len(read) = Len(data)
  /\ \A j \in DOMAIN data : data[j] = IF read[j] = NullRef THEN <<"none", 0>> ELSE <<"some", read[j]>>

ChainReads(row, n, i, f, data) ==
  CASE f.shape = "HeavyEither" ->
         EitherReads(data, Payload(row, Wrapper(n, i), BufferKey(f, "tag")),
           Payload(row, OkWrapper(n, i), BufferKey(f, "ok")),
           Payload(row, ErrWrapper(n, i), BufferKey(f, "err")))
    [] f.shape = "HeavyOptionHandle" -> OptionReads(data, Payload(row, Wrapper(n, i), BufferKey(f, "")))
    [] OTHER -> Payload(row, Wrapper(n, i), BufferKey(f, "")) = data

\* Every Vec field of an entity's component reads back through its handle
\* table as the list the component has, whatever others have come and gone.
ChainsReadBack ==
  \A row \in FieldRows, m \in OnGpu : \A n \in Origins(row, m) : \A i \in VecFields(m) :
    ChainReads(row, m, i, code[m].fields[i], ValueIn(m, n, inserted[row][n].now)[i])

\* Every other field shows the value its mode promises.
PromisedValue(row, m, n, mode) ==
  ValueIn(m, n, IF mode = "Once" THEN inserted[row][n].new ELSE inserted[row][n].now)
ScalarShown(row, m, i, f, n) ==
  gpuStore.buffers[BufferKey(f, "")].rows[row] = Uploaded(f, m, PromisedValue(row, m, n, f.mirror)[i])

RowsShown ==
  \A row \in FieldRows, m \in OnGpu : \A n \in Origins(row, m) :
    IF code[m].generator = "packed"
      THEN gpuStore.buffers[code[m].packedKey].rows[row] = PackedRecord(m, PromisedValue(row, m, n, PackedMode(m)))
      ELSE \A i \in ToSet(code[m].gpu) \ VecFields(m) : ScalarShown(row, m, i, code[m].fields[i], n)

\* Nothing shows where no component is, but a heavy column, and the columns a
\* struct with a Vec has beside it.  A shared column may show another struct's.
RowsBlank ==
  \A row \in FieldRows, m \in OnGpu :
    (FirstTable(m) \in DOMAIN gpuStore.tables
       /\ \A n \in DOMAIN code : Holds(row, n) => RowKeys(n) \cap RowKeys(m) = {}) =>
         CASE code[m].generator = "packed" ->
                gpuStore.buffers[code[m].packedKey].rows[row] = ZeroRecord(Len(code[m].gpu))
           [] code[m].generator = "split" ->
                \A i \in ToSet(code[m].gpu) :
                  code[m].fields[i].heavy \/ gpuStore.buffers[BufferKey(code[m].fields[i], "")].rows[row] = 0
           [] OTHER ->
                \A call \in ToSet(code[m].calls) :
                  call.elem = <<"leaf", "VarLenHandle">> => gpuStore.buffers[call.key].rows[row] = 0

\* A payload is in a pool while a handle names it, and an id counts its rows.
RangesNamed ==
  \A key \in DOMAIN gpuStore.pools :
    LET p == gpuStore.pools[key]
        suffixed == IF key[3] = "" THEN "handles" ELSE IF key[3] = "tag" THEN "tag::handles"
                    ELSE IF key[3] = "ok" THEN "ok::handles" ELSE "err::handles"
        table == <<key[1], key[2], suffixed>>
    IN /\ DOMAIN p.ranges = {gpuStore.buffers[table].rows[row] : row \in FieldRows} \ {0}
       /\ \A id \in DOMAIN p.entries :
            p.entries[id].refcount = Cardinality({row \in FieldRows : p.idByRow[row] = id})

\* The registry has the buffer of every pool without a Heavy element, which is
\* what a renderer is given for its key.
PlainPoolsPublished ==
  \A key \in DOMAIN gpuStore.pools :
    LET p == gpuStore.pools[key]
    IN p.elem[1] # "heavy" => p.published = p.epoch

\* What the macro generates for a struct agrees with itself: what registration
\* makes, writes find, reads get back as the component has it, and removal
\* takes back, for every shape of field, every mix of structs and every order
\* of first uses (pulsar_scenedb_derive, gpu/world_mirror.rs).
FieldsExact ==
  ChainsReadBack /\ RowsShown /\ RowsBlank /\ RangesNamed /\ PlainPoolsPublished

=============================================================================
