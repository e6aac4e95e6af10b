---------------------------- MODULE MCChunkUpload ----------------------------
(* Instances of ChunkUpload for TLC.                                       *)
EXTENDS ChunkUpload
=============================================================================
