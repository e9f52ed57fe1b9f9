------------------------------ MODULE MC_Volume ------------------------------
(***************************************************************************)
(* Volume for TLC: processes and names are interchangeable.               *)
(***************************************************************************)
EXTENDS Volume, TLC

CONSTANTS p1, p2, a, b

MCSymmetry == Permutations({p1, p2}) \cup Permutations({a, b})

=============================================================================
