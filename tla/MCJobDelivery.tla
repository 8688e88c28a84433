---------------------------- MODULE MCJobDelivery ----------------------------
(* An apply, which changes a checkout and can be cancelled with a receipt,   *)
(* and a snapshot, which uploads before its result is queued, in one         *)
(* mailbox; or, by itself, an evaluation, which must not be started twice,   *)
(* or a rollback, which cannot be done twice.                                *)
EXTENDS JobDelivery

CONSTANTS apply, snapshot, evaluate, rollback, checkout

MCKind == [j \in Jobs |->
    CASE j = apply -> "applyPlan"
      [] j = evaluate -> "evaluateSetups"
      [] j = rollback -> "rollbackOperation"
      [] OTHER -> "snapshotSkill"]

MCInstanceOf == [j \in Jobs |-> IF j \in {apply, rollback} THEN checkout ELSE NoInstance]

\* interactiveJobTtlMs (30 s), and jobTtlMs, which is leaseTtlMs (5 min).
MCJobTtl == [j \in Jobs |-> IF j \in {apply, rollback} THEN 1 ELSE LeaseTtl]

\* What is asked for, to bound the instance: nobody is obliged to ask.
SomeComeAlone ==
    \A k \in {evaluate, rollback} :
        state[k] # "absent" => \A j \in Jobs \ {k} : state[j] = "absent"
==============================================================================
