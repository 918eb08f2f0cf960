----------------------------- MODULE MCTransfer -----------------------------
(* Instances of Transfer: one note more than can be in doubt at a time.    *)
EXTENDS Transfer

CONSTANTS n1, n2, c1

MCNotes == {n1, n2}
MCClis == {c1}
=============================================================================
