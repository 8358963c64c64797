---------------------------- MODULE MCOutboxRelay ----------------------------
(***************************************************************************)
(* A small instance of OutboxRelay for TLC.                                *)
(***************************************************************************)
EXTENDS OutboxRelay

CONSTANTS p1, p2

TwoPods     == {p1, p2}
ThreeEvents == 1 .. 3
LastTooBig  == {3}
=============================================================================
