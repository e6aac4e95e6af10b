--------------------------- MODULE MCChunkDownload ---------------------------
(* Instances of ChunkDownload for TLC.                                     *)
EXTENDS ChunkDownload
=============================================================================
