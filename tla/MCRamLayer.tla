----------------------------- MODULE MCRamLayer -----------------------------
(* Small instances of RamLayer for TLC.                                    *)
EXTENDS RamLayer, TLC

TwoIntervals == {"1m", "1h"}
TwoTtls == [i \in TwoIntervals |-> IF i = "1m" THEN 0 ELSE 1]
SymbolSymmetry == Permutations(Symbols)
=============================================================================
