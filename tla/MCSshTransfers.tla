--------------------------- MODULE MCSshTransfers ---------------------------
(* A bounded instance of SshTransfers for TLC.                             *)
EXTENDS SshTransfers
=============================================================================
