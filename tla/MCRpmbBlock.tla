---------------------------- MODULE MCRpmbBlock -----------------------------
(* TLC instances of RpmbBlock. *)
EXTENDS RpmbBlock
CONSTANTS uboot, optee, r1, r2
==============================================================================
