--------------------------- MODULE MCZcashNotes ---------------------------
(* An instance of ZcashNotes: two accounts, three transactions.            *)
EXTENDS ZcashNotes, TLC

CONSTANTS a1, a2

MCAccounts == {a1, a2}
MCSymmetry == Permutations(MCAccounts)
=============================================================================
