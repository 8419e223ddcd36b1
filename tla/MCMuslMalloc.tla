---------------------------- MODULE MCMuslMalloc ----------------------------
EXTENDS MuslMalloc, TLC

MCShapes == {<<0, 0>>, <<2, 0>>, <<2, 1>>}

Symmetry == Permutations(Threads) \union Permutations(Metas)
=============================================================================
