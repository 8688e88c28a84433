---------------------------- MODULE MCSetupLibrary ----------------------------
(* A project whose scan finds a skill, a Setup with another one, and a       *)
(* captured skill that is for the same target as the one that was found.     *)
EXTENDS SetupLibrary, TLC

CONSTANTS q1, q2, q3, a, b, c, x, y, p, j, old, new

MCTarget == (a :> x) @@ (b :> y) @@ (c :> y)
MCDiscovered == (p :> {b})
MCCaptured == (j :> c)
MCSelections == {{a}, {b}}

\* Nothing tells requests apart.
Symmetry == Permutations(Requests)
===============================================================================
