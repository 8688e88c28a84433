---------------------------- MODULE MCSetupApply -----------------------------
(* Two targets and two skills.  From one revision to the other, one target   *)
(* changes its skill and the other one is taken away or added.               *)
EXTENDS SetupApply

CONSTANTS p1, p2, s1, s2, r1, r2

MCDesired ==
    [r \in Revisions |-> IF r = r1 THEN [p \in Paths |-> s1]
                         ELSE [p \in Paths |-> IF p = p1 THEN s2 ELSE NoSkill]]
==============================================================================
