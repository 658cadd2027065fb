---------------------------- MODULE MCBidiClient ----------------------------
(* Instances of BidiClient for TLC. *)
EXTENDS BidiClient

CONSTANTS l1, l2
=============================================================================
