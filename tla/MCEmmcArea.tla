----------------------------- MODULE MCEmmcArea -----------------------------
(* TLC instances of EmmcArea. *)
EXTENDS EmmcArea
=============================================================================
