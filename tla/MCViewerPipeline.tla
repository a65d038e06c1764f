------------------------- MODULE MCViewerPipeline -------------------------
(* What the versions of the producer's state have of two symbols.          *)
EXTENDS ViewerPipeline

Row(a, b) == "a" :> a @@ "b" :> b
Contents == <<Row("eventful", "none"), Row("plain", "eventful"), Row("plain", "none")>>
===========================================================================
