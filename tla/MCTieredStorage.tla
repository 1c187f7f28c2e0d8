--------------------------- MODULE MCTieredStorage ---------------------------
EXTENDS TieredStorage

CONSTANTS a, b, e1, e2

EntitySymmetry == Permutations(PoolOwners)

OneRow == {1}
LongOnly == {<<a, b, a>>}
TwoRanks == {[offset |-> 0, len |-> 2, rank |-> 0], [offset |-> 2, len |-> 2, rank |-> 1]}
Atomic == {}
=============================================================================
