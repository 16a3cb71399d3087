----------------------------- MODULE MCNntpPool -----------------------------
(***************************************************************************)
(* Instances of NntpPool for TLC.                                          *)
(***************************************************************************)
EXTENDS NntpPool
=============================================================================
