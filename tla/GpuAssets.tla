----------------------------- MODULE GpuAssets -----------------------------
(***************************************************************************)
(* The resource stores of gpu/assets.rs: the geometry arenas (byte ranges  *)
(* over the first-fit suballocator), the four append-only row tables       *)
(* (meshes, cluster nodes, meshlets, materials), each with a CPU copy that *)
(* a lost device is refilled from, and the bindless texture slots.         *)
(*                                                                         *)
(* The three groups share no state; a specification takes the groups it    *)
(* wants.  Rows carry only the fields their validation reads.              *)
(***************************************************************************)
EXTENDS RangeList, Sequences, SequencesExt

CONSTANTS
  ArenaSize,       \* bytes of each arena
  ArenaAlign,      \* the arenas' alignment (4 bytes in the code)
  Blobs,           \* contents an arena may be asked to hold, with BlobLen
  BlobLen,         \* [Blobs -> Nat]
  NaN,             \* the float no comparison holds of
  ClusterRows, MeshletRows, MaterialRows,  \* the rows callers may offer
  TableCap,        \* [Tables -> Nat], rows a table holds
  Images,          \* the textures callers own
  MaxTextureSlots  \* max_slots of the texture store

VARIABLES
  vacant,      \* [Arenas -> free spans]
  bytes,       \* [Arenas -> [0..ArenaSize-1 -> Blobs \cup {NaN}]], the buffer
  loaded,      \* the ranges callers were handed: [arena, off, blob]
  rows,        \* [Tables -> sequence], the CPU-authoritative entries
  gpuRows,     \* [Tables -> sequence], the buffer's written prefix
  handed,      \* the (table, offset, batch) callers were handed
  intact,      \* the tables whose buffer kept its contents
  textures,    \* [slots below nextSlot -> Images \cup {NoImage}]
  freeSlots,   \* the recycled slots, last in first out
  nextSlot,
  shown        \* what callers believe their slots show: [slot |-> image]

arenaVars == <<vacant, bytes, loaded>>
tableVars == <<rows, gpuRows, handed, intact>>
textureVars == <<textures, freeSlots, nextSlot, shown>>
assetVars == <<arenaVars, tableVars, textureVars>>

Arenas == {"vertex", "index"}
Tables == {"mesh", "cluster", "meshlet", "material"}
NoImage == NaN

ASSUME AssetAssumption ==
  /\ ArenaSize \in Nat /\ ArenaAlign \in Nat \ {0} /\ MaxTextureSlots \in Nat
  /\ BlobLen \in [Blobs -> Nat]
  /\ NaN \notin Blobs \cup Images
  /\ TableCap \in [Tables -> Nat] /\ TableCap["cluster"] >= 1

---------------------------------------------------------------------------
(* GeometryArena: first fit at the arena's alignment, the bytes written    *)
(* once; an arena that cannot hold a range says so and changes nothing.    *)

Upload(a, b) ==
  /\ Fitting(vacant[a], BlobLen[b], ArenaAlign) # {}
  /\ LET at == AllocOffset(vacant[a], BlobLen[b], ArenaAlign)
     IN /\ vacant' = [vacant EXCEPT ![a] = AfterAlloc(@, BlobLen[b], ArenaAlign)]
        /\ bytes' = [bytes EXCEPT ![a] =
             [i \in DOMAIN @ |-> IF i \in at .. (at + BlobLen[b] - 1) THEN b ELSE @[i]]]
        /\ loaded' = loaded \cup {[arena |-> a, off |-> at, blob |-> b]}

Unload(r) ==
  /\ r \in loaded
  /\ vacant' = [vacant EXCEPT ![r.arena] = AfterFree(@, r.off, BlobLen[r.blob])]
  /\ loaded' = loaded \ {r}
  /\ UNCHANGED bytes

ArenaInit ==
  /\ vacant = [a \in Arenas |-> NewRange(ArenaSize)]
  /\ bytes = [a \in Arenas |-> [i \in 0 .. (ArenaSize - 1) |-> NaN]]
  /\ loaded = {}

ArenaNext == \/ \E a \in Arenas, b \in Blobs : Upload(a, b)
             \/ \E r \in loaded : Unload(r)

---------------------------------------------------------------------------
(* The row tables.  Every comparison of a NaN is false, and the checks are *)
(* written so that a NaN is rejected.                                      *)

Less(x, y) == x # NaN /\ y # NaN /\ x < y
AtMost(x, y) == x # NaN /\ y # NaN /\ x <= y
InUnit(x) == AtMost(0, x) /\ AtMost(x, 1)

\* Exactly one of an LOD chain and a cluster table.
MeshValid(r) == (r.lods # 0) # (r.table # 0)
ClusterValidMutant(r) == ~(r.self # NaN /\ r.parent # NaN /\ r.self >= r.parent) /\ r.padding = 0
ClusterValid(r) == Less(r.self, r.parent) /\ r.padding = 0
MeshletValid(r) == Less(0, r.radius) /\ r.reserved = 0
                   /\ r.countsHigh = 0 /\ r.vertices # 0 /\ r.triangles # 0
MaterialValid(r) == InUnit(r.metallic) /\ InUnit(r.roughness) /\ InUnit(r.cutoff)
                    /\ r.reserved = 0 /\ r.flagsHigh = 0

Valid(t, r) == CASE t = "mesh" -> MeshValid(r)
                 [] t = "cluster" -> ClusterValid(r)
                 [] t = "meshlet" -> MeshletValid(r)
                 [] t = "material" -> MaterialValid(r)

\* The first cluster node is reserved, so that no table starts at offset 0.
Sentinel == [self |-> 0, parent |-> 0, padding |-> 0]
Seeded(t) == IF t = "cluster" THEN <<Sentinel>> ELSE <<>>

\* register (one row) and append (a batch): every row valid before any offset
\* is taken, then the capacity; the batch is written behind the rows there are.
Appendable(t, batch) ==
  /\ \A i \in DOMAIN batch : Valid(t, batch[i])
  /\ Len(rows[t]) + Len(batch) <= TableCap[t]

AppendRows(t, batch) ==
  /\ Appendable(t, batch)
  /\ rows' = [rows EXCEPT ![t] = @ \o batch]
  /\ gpuRows' = [gpuRows EXCEPT ![t] =
       IF t \in intact THEN @ \o batch ELSE @]
  /\ handed' = handed \cup {[table |-> t, off |-> Len(rows[t]), batch |-> batch]}
  /\ UNCHANGED intact

RegisterMesh(lods, table) ==
  AppendRows("mesh", <<[lods |-> lods, table |-> table]>>)
RegisterMaterial(r) == AppendRows("material", <<r>>)
AppendClusters(batch) == AppendRows("cluster", batch)
AppendMeshlets(batch) == AppendRows("meshlet", batch)

\* External: the device is lost and a buffer comes back empty.
LoseDevice == /\ intact' = {} /\ gpuRows' = [t \in Tables |-> <<>>]
              /\ UNCHANGED <<rows, handed>>

\* rebuild: the whole CPU copy in one write, in index order; an empty table
\* has nothing to write.
Rebuild(t) ==
  /\ rows[t] # <<>>
  /\ gpuRows' = [gpuRows EXCEPT ![t] = rows[t]]
  /\ intact' = intact \cup {t}
  /\ UNCHANGED <<rows, handed>>

\* A mesh names a cluster table it was handed, or none.
TableOffsets == {0} \cup {h.off : h \in {g \in handed : g.table = "cluster"}}
Batches(R) == {<<r>> : r \in R} \cup {<<r, s>> : r, s \in R}

TableInit ==
  /\ rows = [t \in Tables |-> Seeded(t)]
  /\ gpuRows = [t \in Tables |-> Seeded(t)]
  /\ handed = {} /\ intact = Tables

TableNext ==
  \/ \E lods \in 0..1, table \in TableOffsets : RegisterMesh(lods, table)
  \/ \E r \in MaterialRows : RegisterMaterial(r)
  \/ \E batch \in Batches(ClusterRows) : AppendClusters(batch)
  \/ \E batch \in Batches(MeshletRows) : AppendMeshlets(batch)
  \/ LoseDevice
  \/ \E t \in Tables : Rebuild(t)

---------------------------------------------------------------------------
(* TextureStore: a recycled slot first, the last freed of them, else the   *)
(* next index.  `whole` says that the mips match their descriptor.         *)

SlotAvailable == freeSlots # <<>> \/ nextSlot < MaxTextureSlots
AllocatedSlot == IF freeSlots # <<>> THEN Last(freeSlots) ELSE nextSlot

Seat(image) ==
  LET slot == AllocatedSlot
  IN /\ SlotAvailable
     /\ freeSlots' = IF freeSlots # <<>> THEN Front(freeSlots) ELSE freeSlots
     /\ nextSlot' = IF freeSlots # <<>> THEN nextSlot ELSE nextSlot + 1
     /\ textures' = [s \in DOMAIN textures \cup {slot} |->
                       IF s = slot THEN image ELSE textures[s]]
     /\ shown' = [s \in DOMAIN shown \cup {slot} |->
                    IF s = slot THEN image ELSE shown[s]]

RegisterTexture(image) == Seat(image)
RegisterMips(image, whole) == whole /\ Seat(image)
RegisterShared(image) == image \in {shown[s] : s \in DOMAIN shown} /\ Seat(image)

Unregister(slot) ==
  /\ slot < nextSlot /\ textures[slot] # NoImage
  /\ textures' = [textures EXCEPT ![slot] = NoImage]
  /\ freeSlots' = Append(freeSlots, slot)
  /\ shown' = [s \in DOMAIN shown \ {slot} |-> shown[s]]
  /\ UNCHANGED nextSlot

TextureInit == textures = <<>> /\ freeSlots = <<>> /\ nextSlot = 0 /\ shown = <<>>

TextureNext ==
  \/ \E i \in Images : RegisterTexture(i) \/ RegisterShared(i)
  \/ \E i \in Images, whole \in BOOLEAN : RegisterMips(i, whole)
  \/ \E s \in 0 .. MaxTextureSlots : Unregister(s)

---------------------------------------------------------------------------
AssetInit == ArenaInit /\ TableInit /\ TextureInit

AssetNext ==
  \/ ArenaNext /\ UNCHANGED <<tableVars, textureVars>>
  \/ TableNext /\ UNCHANGED <<arenaVars, textureVars>>
  \/ TextureNext /\ UNCHANGED <<arenaVars, tableVars>>

AssetSpec == AssetInit /\ [][AssetNext]_assetVars

\* Free spans and handed-out ranges never overlap and leave no byte out, and
\* every range still holds what was uploaded to it.
ArenaExact ==
  \A a \in Arenas :
    LET mine == {r \in loaded : r.arena = a}
        At(r) == r.off .. (r.off + BlobLen[r.blob] - 1)
    IN /\ \A r \in mine : \A i \in At(r) : bytes[a][i] = r.blob
       /\ \A r, s \in mine : r # s => At(r) \cap At(s) = {}
       /\ Covered(vacant[a]) = (0 .. (ArenaSize - 1)) \ UNION {At(r) : r \in mine}

\* No row with a NaN or an inverted error pair is stored; a rejected batch
\* took no offset; every offset a caller holds still names its rows, in the
\* CPU copy and in a buffer that was not lost or was rebuilt; and a cluster
\* table's offset never looks like "no table" to the mesh registry.
TablesExact ==
  /\ \A i \in DOMAIN rows["cluster"] :
       i > 1 => rows["cluster"][i].self # NaN /\ rows["cluster"][i].parent # NaN
                /\ rows["cluster"][i].self < rows["cluster"][i].parent
  /\ \A i \in DOMAIN rows["material"] : rows["material"][i].metallic # NaN
  /\ \A t \in Tables :
       /\ Len(rows[t]) <= TableCap[t]
       /\ t \in intact => gpuRows[t] = rows[t]
  /\ \A h \in handed : SubSeq(rows[h.table], h.off + 1, h.off + Len(h.batch)) = h.batch
  /\ \A h \in handed : h.table = "cluster" => MeshValid([lods |-> 0, table |-> h.off])

\* A slot is either somebody's or on the free list, once, and shows its
\* owner's image; the table stays dense and within the bindless ceiling.
TexturesExact ==
  /\ nextSlot <= MaxTextureSlots /\ DOMAIN textures = 0 .. (nextSlot - 1)
  /\ ToSet(freeSlots) = {s \in DOMAIN textures : textures[s] = NoImage}
  /\ Cardinality(ToSet(freeSlots)) = Len(freeSlots)
  /\ \A s \in DOMAIN shown : s < nextSlot /\ textures[s] = shown[s]

\* Every handle a store of this module gave out names what it was given for,
\* through unloads, recycled slots, rejected batches and lost devices.
AssetsExact == ArenaExact /\ TablesExact /\ TexturesExact
=============================================================================
