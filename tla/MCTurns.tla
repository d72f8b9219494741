------------------------------ MODULE MCTurns -------------------------------
(* Small instances of Turns for TLC. *)
EXTENDS Turns, TLC

CONSTANTS t1, t2, f1, f2, a1, a2, m1, m2

\* The ids are interchangeable: no action or property tells one from another.
Symmetry ==
    Permutations(Texts) \cup Permutations(Files)
        \cup Permutations(Agents) \cup Permutations(Readers)
=============================================================================
