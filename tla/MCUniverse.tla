----------------------------- MODULE MCUniverse -----------------------------
(* Small instances of Universe for TLC.                                      *)
EXTENDS Universe, TLC

Symmetry == Permutations(Threads)

\* the requests on systems and their states
SystemRequests == AllOps \ {"measure_state", "compile_macro", "create_kernel",
                            "delete_kernel"}
=============================================================================
