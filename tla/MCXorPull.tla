----------------------------- MODULE MCXorPull -----------------------------
(* Instance of XorPull for TLC.                                            *)
EXTENDS XorPull

\* A record that takes two fragments of one byte, and one that takes one.
MCRecordLens == <<2, 1>>
=============================================================================
