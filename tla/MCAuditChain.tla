---------------------------- MODULE MCAuditChain ----------------------------
(* AuditChain, with rows inserted around the service.  The run checks      *)
(* liveness too, so it uses no symmetry.                                   *)
EXTENDS AuditChain
=============================================================================
