----------------------------- MODULE MCJobQueue -----------------------------
(* JobQueue with one API process and two workers of one pool.              *)
EXTENDS JobQueueProofs, TLC

CONSTANTS p1, w1, w2, j1, j2

OneProcess == (w1 :> p1) @@ (w2 :> p1)
OnePool == (w1 :> {j1, j2}) @@ (w2 :> {j1, j2})
=============================================================================
