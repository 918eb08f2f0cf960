----------------------------- MODULE MCKeypunk -----------------------------
(* Instance of Keypunk: two connections, two processes, two artifacts that *)
(* parse and one that does not, two paths, two seeds and two passwords.    *)
EXTENDS Keypunk, TLC

CONSTANTS c1, c2, a1, a2, junk, s1, s2, p1, p2

MCClients == {c1, c2}
MCArtifacts == {a1, a2, junk}
MCParsable == {a1, a2}
MCSeeds == {s1, s2}
MCPasswords == {p1, p2}
MCSymmetry == Permutations(MCClients) \cup Permutations(MCParsable)
                \cup Permutations(MCSeeds) \cup Permutations(MCPasswords)
=============================================================================
