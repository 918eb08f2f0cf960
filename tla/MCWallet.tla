------------------------------ MODULE MCWallet ------------------------------
(* Instances of Wallet: two protocols with two derived keys each.          *)
EXTENDS Wallet, TLC

CONSTANTS s1, s2, h1, t1, t2

MCProtocols == {Zcash, Ethereum}
MCOneSeed == {s1}
MCSeeds == {s1, s2}
MCHeights == {h1}
MCTuis == {t1, t2}
MCSymmetry == Permutations(MCSeeds)
MCTuiSymmetry == Permutations(MCTuis)
=============================================================================
