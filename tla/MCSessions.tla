----------------------------- MODULE MCSessions -----------------------------
EXTENDS Sessions, TLC

(* Requests and roles are interchangeable.                                 *)
Symmetry == Permutations(Requests) \cup Permutations(Roles)
=============================================================================
