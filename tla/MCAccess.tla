------------------------------ MODULE MCAccess -------------------------------
(***************************************************************************)
(* Small instances of Access for TLC.                                      *)
(***************************************************************************)
EXTENDS Access

CONSTANTS p1, p2, m, r1, r2

TwoPods     == {p1, p2}
OneIssuer   == {p1}
TwoReplicas == {r1, r2}
=============================================================================
