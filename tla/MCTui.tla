------------------------------- MODULE MCTui -------------------------------
(* Instances of Tui.                                                       *)
EXTENDS Tui, TLC

CONSTANTS t1, t2, p1, p2, q1, w1, w2

MCTuis == {t1, t2}
MCFresh == {p1, p2}
MCWritten == {q1}
MCPasswords == {w1, w2}
MCSymmetry == Permutations(MCTuis) \cup Permutations(MCFresh)
              \cup Permutations(MCPasswords)
=============================================================================
