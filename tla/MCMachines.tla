------------------------------ MODULE MCMachines ------------------------------
(***************************************************************************)
(* The components that keep their own state behind their own lock, for     *)
(* TLC: one run explores each of them.  The machine is chosen at the start *)
(* and the others stay in their initial states, so the states of the run   *)
(* are the sum of the machines', not their product.                        *)
(***************************************************************************)
EXTENDS SlotAllocator, Replication, Leases, InternedPool, Grid, GpuAssets,
        AssetTable, WorldMirror, BufferRegistry

CONSTANTS t1, t2, t3   \* threads of the slot allocator

VARIABLE machine       \* the machine that runs

Threads3 == {t1, t2, t3}

\* Replication: every client sees the one replicated field.
AlwaysSent == [k \in Components |-> "Always"]
OwnedByPeer == [i \in Indices |-> "p1"]

\* InternedPool: payloads that fit the alignment, and that need padding.
Payloads == {<<1>>, <<2, 2, 3>>}

\* GpuAssets: for each table, rows its validation accepts and rejects.
OfferedClusters ==
  {[self |-> 0, parent |-> 1, padding |-> 0],
   [self |-> NaN, parent |-> 1, padding |-> 0],
   [self |-> 1, parent |-> 1, padding |-> 0]}
OfferedMeshlets ==
  {[radius |-> r, reserved |-> 0, countsHigh |-> 0, vertices |-> 1, triangles |-> 1]
     : r \in {1, NaN}}
OfferedMaterials ==
  {[metallic |-> m, roughness |-> 0, cutoff |-> 0, reserved |-> 0, flagsHigh |-> 0]
     : m \in {1, NaN}}
BlobLengths == "b1" :> 1 @@ "b2" :> 2
TableCapacities == "mesh" :> 2 @@ "cluster" :> 3 @@ "meshlet" :> 2 @@ "material" :> 1

\* AssetTable: both assets come from one source, and their payloads are counted.
OneSource == [a \in Assets |-> "src"]
OneByte == [a \in Assets |-> 1]

-----------------------------------------------------------------------------
Machines == {"slots", "replicas", "leases", "interned", "grid", "arenas", "tables",
             "textures", "assets", "derived", "mirror", "registry"}

allVars == <<machine, slotVars, replicaVars, leaseVars, internVars, gridVars, assetVars,
             assetTableVars, derivedVars, worldMirrorVars, registryVars>>

\* The machines' variables, but for those of m.
OthersStay(m) ==
  /\ machine = m /\ UNCHANGED machine
  /\ m # "slots" => UNCHANGED slotVars
  /\ m # "replicas" => UNCHANGED replicaVars
  /\ m # "leases" => UNCHANGED leaseVars
  /\ m # "interned" => UNCHANGED internVars
  /\ m # "grid" => UNCHANGED gridVars
  /\ m # "arenas" => UNCHANGED arenaVars
  /\ m # "tables" => UNCHANGED tableVars
  /\ m # "textures" => UNCHANGED textureVars
  /\ m # "assets" => UNCHANGED assetTableVars
  /\ m # "derived" => UNCHANGED derivedVars
  /\ m # "mirror" => UNCHANGED worldMirrorVars
  /\ m # "registry" => UNCHANGED registryVars

MachinesInit ==
  /\ machine \in Machines
  /\ Init /\ ReplicaInit /\ LeaseInit /\ InternInit /\ GridInit /\ AssetInit
  /\ AssetTableInit /\ DerivedInit
  /\ MirrorInit /\ RegistryInit
  /\ machine # "mirror" => mode = "Once"
  /\ machine # "registry" => kind = "tracked"
  /\ machine # "grid" => observer = CHOOSE p \in Positions : TRUE

MachinesNext ==
  \/ OthersStay("slots") /\ Next
  \/ OthersStay("replicas") /\ ReplicaNext
  \/ OthersStay("leases") /\ LeaseNext
  \/ OthersStay("interned") /\ InternNext
  \/ OthersStay("grid") /\ GridNext
  \/ OthersStay("arenas") /\ ArenaNext
  \/ OthersStay("tables") /\ TableNext
  \/ OthersStay("textures") /\ TextureNext
  \/ OthersStay("assets") /\ AssetTableNext
  \/ OthersStay("derived") /\ DerivedNext
  \/ OthersStay("mirror") /\ MirrorNext
  \/ OthersStay("registry") /\ RegistryNext

MachinesSpec == MachinesInit /\ [][MachinesNext]_allVars

=============================================================================
