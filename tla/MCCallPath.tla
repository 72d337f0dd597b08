----------------------------- MODULE MCCallPath -----------------------------
(* Instances of CallPath for TLC.                                            *)
EXTENDS CallPath

TwoWorkers == 1 .. 2

\* a range, and an empty one
OneRange == {<<0, 2>>, <<1, 1>>}

\* With three significant bits 3 + 12 is rounded up to 16, and a sample of 14 is
\* past both weights.
TwoLists == {<<0, 2>>, <<3, 12>>}
=============================================================================
