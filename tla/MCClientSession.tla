-------------------------- MODULE MCClientSession --------------------------
(* ClientSession with one thread beside the user interface's: liveness is  *)
(* checked with the rest, and no symmetry is sound for it.                 *)
EXTENDS ClientSession
=============================================================================
