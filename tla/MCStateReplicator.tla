-------------------------- MODULE MCStateReplicator --------------------------
(***************************************************************************)
(* Small instances of StateReplicator for TLC.                             *)
(***************************************************************************)
EXTENDS StateReplicator

CONSTANTS p1, p2

TwoPods == {p1, p2}
OnePod  == {p1}
=============================================================================
