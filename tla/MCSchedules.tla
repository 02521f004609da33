---------------------------- MODULE MCSchedules ----------------------------
EXTENDS Schedules, TLC

(* Processes are interchangeable.                                          *)
Symmetry == Permutations(Procs)
=============================================================================
