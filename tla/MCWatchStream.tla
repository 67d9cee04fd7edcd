--------------------------- MODULE MCWatchStream ---------------------------
EXTENDS WatchStream, TLC
Symmetry == Permutations(Keys)
=============================================================================
