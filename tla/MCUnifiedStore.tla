--------------------------- MODULE MCUnifiedStore ---------------------------
(* Small instances of UnifiedStore for TLC.                                *)
EXTENDS UnifiedStore, TLC

Bars(S) == [t \in S |-> "v"]

TwoValues == {"v", "w"}
RivalBatches == {[t \in {1} |-> v] : v \in TwoValues} \cup {Bars({2}), Bars({1, 2})}

MCTimes == {1, 2}
MCValues == {"v"}
OneBatch == {Bars({1})}
OneBarBatches == {Bars({1}), Bars({2})}

(* One put already leaves more than one bar to trim.                       *)
LongBatch == {Bars({1, 2})}
LongOrShort == {Bars({2}), Bars({1, 2})}

(* Backlog 2 already calls for batches bigger than the backlog.            *)
MCTiers == {<<2, 3>>}

KeySymmetry == Permutations(Keys)
=============================================================================
