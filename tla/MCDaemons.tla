------------------------------ MODULE MCDaemons ------------------------------
(* Instances of Daemons.                                                   *)
EXTENDS Daemons

CONSTANTS c1, c2

MCClis == {c1, c2}
=============================================================================
