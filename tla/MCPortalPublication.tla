------------------------- MODULE MCPortalPublication -------------------------
(* PortalPublication with two website instances.                           *)
EXTENDS PortalPublication

CONSTANTS i1, i2
=============================================================================
