---------------------------- MODULE MCLinkLayer ----------------------------
(***************************************************************************)
(* Bounds for TLC.  The counter wraps at 8 instead of 2^32.                *)
(***************************************************************************)
EXTENDS LinkLayer

McNumMod == 8
=============================================================================
