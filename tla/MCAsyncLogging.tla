--------------------------- MODULE MCAsyncLogging ---------------------------
(* AsyncLogging with its LogFile, for TLC.                                 *)
EXTENDS LogFile

Symmetry == Permutations(Msg \ Huge)
=============================================================================
