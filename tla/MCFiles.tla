------------------------------ MODULE MCFiles ------------------------------
(* Bounded instances of Snapshots, the file tools included, for TLC.        *)
EXTENDS Snapshots, TLC
=============================================================================
