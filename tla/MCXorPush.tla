----------------------------- MODULE MCXorPush -----------------------------
(* Instance of XorPush for TLC: records of one to three bytes.             *)
EXTENDS XorPush
=============================================================================
