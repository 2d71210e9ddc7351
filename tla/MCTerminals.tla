---------------------------- MODULE MCTerminals ----------------------------
(* Bounded instances of Terminals for TLC.                                 *)
EXTENDS Terminals, TLC
=============================================================================
