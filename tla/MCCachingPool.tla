--------------------------- MODULE MCCachingPool ---------------------------
EXTENDS CachingPool

\* Ids are told apart only by the blocks they name.
IdSymmetry == Permutations(Ids)
=============================================================================
