---------------------------- MODULE MCZcashSync ----------------------------
(* An instance of ZcashSync: two accounts with one stored birthday, on a   *)
(* chain of a few chunks of two blocks.                                    *)
EXTENDS ZcashSync

CONSTANTS a1, a2

MCAccounts == {a1, a2}
MCSameBirthday == [a \in Accounts |-> 2]
=============================================================================
