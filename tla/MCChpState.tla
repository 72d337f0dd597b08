----------------------------- MODULE MCChpState -----------------------------
(* Small instances of ChpState for TLC.                                      *)
EXTENDS ChpState
=============================================================================
