------------------------------- MODULE MCWorld -------------------------------
(***************************************************************************)
(* Two slots, a component that holds a handle and one that peers send.      *)
(***************************************************************************)
EXTENDS World

CONSTANTS mesh, pos, a

MCComponents == {mesh, pos}
OnlyMesh == {mesh}
OnlyPos == {pos}
OneHandle == {a}

\* A peer's entity in the last slot: those before it are placeholders until they
\* are spawned in.
PeerOfTwo == {[index |-> 2, generation |-> 0]}
PeerOfThree == {[index |-> 3, generation |-> 0]}
BothSlots == [index : {1, 2}, generation : {0}]

==============================================================================
