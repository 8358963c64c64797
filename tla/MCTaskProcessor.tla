--------------------------- MODULE MCTaskProcessor ---------------------------
(***************************************************************************)
(* Small instances of TaskProcessor for TLC.                               *)
(***************************************************************************)
EXTENDS TaskProcessor

CONSTANTS p1, p2

TwoPods == {p1, p2}
=============================================================================
