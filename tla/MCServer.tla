------------------------------ MODULE MCServer ------------------------------
(* Small instances of Server for TLC.                                        *)
EXTENDS Server

BothSignals == <<"SIGINT", "SIGTERM">>
OneWorker   == 1 .. 1
TwoWorkers  == 1 .. 2
=============================================================================
