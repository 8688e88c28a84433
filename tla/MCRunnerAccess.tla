--------------------------- MODULE MCRunnerAccess ---------------------------
(* One device with one checkout, reached through two server processes: a     *)
(* plan and an apply compete for the checkout.                               *)
EXTENDS RunnerAccess

CONSTANTS plan, apply, checkout, s1, s2, c1

MCKind == [j \in Jobs |-> IF j = plan THEN "planSetup" ELSE "applyPlan"]

MCInstanceOf == [j \in Jobs |-> checkout]

MCJobTtl == [j \in Jobs |-> LeaseTtl]
=============================================================================
