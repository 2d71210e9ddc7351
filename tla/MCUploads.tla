----------------------------- MODULE MCUploads -----------------------------
(* Bounded instances of Uploads for TLC.                                    *)
EXTENDS Uploads, TLC

CONSTANTS new, over

\* One upload fits into a chunk, the other one need not.
Sizes == new :> 1 @@ over :> 2
=============================================================================
