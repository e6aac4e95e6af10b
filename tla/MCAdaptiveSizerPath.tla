------------------------- MODULE MCAdaptiveSizerPath -------------------------
(* Instance of AdaptiveSizerPath for TLC.                                  *)
EXTENDS AdaptiveSizerPath
=============================================================================
