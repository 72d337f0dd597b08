--------------------------- MODULE MCMsContainer ---------------------------
(* Small instances of MsContainer for TLC.                                   *)
EXTENDS MsContainer, TLC

ThreadSymmetry == Permutations(Threads)
=============================================================================
