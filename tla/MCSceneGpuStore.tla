-------------------------- MODULE MCSceneGpuStore --------------------------
(***************************************************************************)
(* SceneGpuStore for TLC.  One cell of two rows that is evicted,           *)
(* registered again, or replaced by another, so regions and slots are      *)
(* recycled; or two cells of one row that compete for two regions.         *)
(***************************************************************************)
EXTENDS SceneGpuStore, TLC

CONSTANTS c1, c2, v0, v1

OneCell   == {c1}
TwoCells  == {c1, c2}
OneValue  == {v0}
TwoValues == {v0, v1}

=============================================================================
