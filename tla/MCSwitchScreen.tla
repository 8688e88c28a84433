---------------------------- MODULE MCSwitchScreen ----------------------------
(* One checkout, two revisions, a few operations.                            *)
EXTENDS SwitchScreen, TLC

CONSTANTS r1, r2, c1, c2

Symmetry == Permutations(Slots) \cup Permutations(Revisions)
==============================================================================
