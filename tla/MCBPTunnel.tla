----------------------------- MODULE MCBPTunnel -----------------------------
(* Instance of BPTunnel for TLC.                                           *)
EXTENDS BPTunnel

\* One caller that only writes, and one target that only sends.
MCLoads == {<<2, 0>>, <<0, 2>>}
=============================================================================
