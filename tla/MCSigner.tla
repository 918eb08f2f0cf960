------------------------------ MODULE MCSigner ------------------------------
(* Instances of Signer.                                                    *)
EXTENDS Signer

CONSTANTS s1, s2

MCSeeds == {s1, s2}
=============================================================================
