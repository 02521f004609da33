------------------------- MODULE MCPropertyRegistry -------------------------
EXTENDS PropertyRegistry, TLC

(* Sessions, users, properties, TDs and connections are interchangeable.   *)
Symmetry == Permutations(Requests) \cup Permutations(Users)
            \cup Permutations(Props) \cup Permutations(TDs) \cup Permutations(Conns)
=============================================================================
