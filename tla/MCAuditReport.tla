---------------------------- MODULE MCAuditReport ----------------------------
(* Bounded instances of AuditReport for TLC.                                *)
EXTENDS AuditReport, TLC
=============================================================================
