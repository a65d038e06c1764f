---------------------------- MODULE MCFxcmStatus ----------------------------
(* Small instances of FxcmStatus for TLC.                                  *)
EXTENDS FxcmStatus

MCLabels == {"market", "price"}
MCValues == [l \in MCLabels |-> IF l = "market" THEN {"open", "closed"} ELSE {"ok"}]
=============================================================================
