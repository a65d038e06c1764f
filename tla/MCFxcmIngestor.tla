--------------------------- MODULE MCFxcmIngestor ---------------------------
(* Small instances of FxcmIngestor for TLC.                                *)
EXTENDS FxcmIngestor, TLC

GateLabelsOnly == {"market", "price"}
MarketOnly == [l \in GateLabelsOnly |->
                 IF l = "market" THEN {"open", "closed"} ELSE {}]
=============================================================================
