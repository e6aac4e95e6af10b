---------------------------- MODULE MCSSHCarrier ----------------------------
(* Instance of SSHCarrier for TLC.                                         *)
EXTENDS SSHCarrier
=============================================================================
