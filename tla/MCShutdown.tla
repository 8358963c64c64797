----------------------------- MODULE MCShutdown ------------------------------
(***************************************************************************)
(* Small instances of Shutdown for TLC.                                    *)
(***************************************************************************)
EXTENDS Shutdown

CONSTANTS w1, w2, r1, r2

TwoWorkers  == {w1, w2}
TwoRequests == {r1, r2}
=============================================================================
