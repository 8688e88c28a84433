-------------------------- MODULE SetupApplyProofs ---------------------------
(* Applying and rolling back a Setup is safe for any checkout, skills,       *)
(* revisions, faults and edits: half-written content can always be undone,   *)
(* the journal row leads back to the disk as it was, the person's content    *)
(* stays, the records match the disk, and a rollback gives the disk back.    *)
EXTENDS SetupApply, TLAPS

\* The phases in which an operation writes to the checkout.
Writing == op # Idle /\ op.phase \in {"remove", "add"}
Restoring == op # Idle /\ op.phase = "restore"

\* Half-written content is never left behind without a journal row to undo it,
\* whichever step failed, was cancelled or was cut off.
TornIsRecoverable ==
    \A p \in Paths : disk[p] = Torn => recovery # NoRecovery /\ p \in DOMAIN recovery

\* An operation that writes has a journal row that names all it may touch, and
\* has left nothing half-written; one that restores has still to restore all
\* that is half-written, unless a target failed.
JournalFirst ==
    /\ op # Idle /\ op.phase = "plan" => recovery = NoRecovery /\ op.todo = {}
    /\ Writing => /\ op.kind \in {"apply", "rollback"}
                  /\ recovery # NoRecovery
                  /\ op.todo \cup ToAdd \subseteq DOMAIN recovery
                  /\ \A p \in Paths : disk[p] # Torn
    /\ Restoring => /\ recovery # NoRecovery
                    /\ op.todo \subseteq DOMAIN recovery
                    /\ \A p \in Paths : disk[p] = Torn /\ ~op.failed => p \in op.todo

\* Below any bound there is a last operation that was not rolled back, if there
\* is one at all.
LastExists ==
    \A n \in Nat : (\E k \in Live : k <= n) =>
        \E i \in Live : i <= n /\ \A k \in Live : k <= n => k <= i

\* A rollback that writes puts back what the operation it undoes recorded.
RollbackTargets ==
    Writing /\ op.kind = "rollback" => Live # {} /\ op.want = history[Latest].targets

\* What an operation writes to held nothing of the person's when it was planned.
LeadsBack ==
    /\ before.edits <= edits
    /\ RecoveryLeadsBack
    /\ recovery # NoRecovery /\ edits = before.edits =>
           \A p \in DOMAIN recovery : disk[p] # Foreign

\* While the person changes nothing: the records match the disk, or the row
\* leads back to it, or the rest of the operation leads to what is wanted.
RecordsLeadToDisk ==
    edits = 0 =>
        /\ \A p \in Paths : tracked[p] # NoSkill =>
               IF recovery # NoRecovery /\ p \in DOMAIN recovery THEN recovery[p] = tracked[p]
               ELSE disk[p] = tracked[p]
        /\ Restoring /\ ~op.failed =>
               \A p \in DOMAIN recovery \ op.todo : disk[p] = recovery[p]
        /\ Writing => \A p \in Paths : op.want[p] # NoSkill =>
               p \in ToAdd \/ (p \notin DOMAIN recovery /\ disk[p] = op.want[p])
        /\ Writing /\ op.phase = "add" =>
               \A p \in ToAdd \ op.todo : disk[p] = op.want[p]


ApplyInv == TypeOK /\ JournalFirst /\ TornIsRecoverable /\ LastExists /\ RollbackTargets

------------------------------------------------------------------------------
\* The operation that latest_operation finds is live and the last such one.
LEMMA LatestIsLive ==
    ASSUME TypeOK, LastExists, Live # {}
    PROVE  Latest \in Live /\ \A k \in Live : k <= Latest
<1>1. Len(history) \in Nat /\ \A k \in Live : k \in Nat /\ k <= Len(history)
    BY DEF TypeOK, Live
<1>2. \E i \in Live : \A k \in Live : k <= i
    BY <1>1 DEF LastExists
<1> QED BY <1>2 DEF Latest

\* What the plan finds of a target that it does not refuse.
LEMMA ActionIsSound ==
    ASSUME TypeOK, NEW p \in Paths, NEW w \in Skills \cup {NoSkill}
    PROVE  /\ Action(p, w) \in Actions
           /\ Action(p, w) = "add" => disk[p] = NoSkill /\ w # NoSkill
           /\ Action(p, w) \in {"remove", "replace"} => disk[p] \in {NoSkill, tracked[p]}
           /\ Action(p, w) = "keep" => disk[p] = w
           /\ Action(p, w) \in {"none", "remove"} => w = NoSkill
           /\ Action(p, w) = "none" => tracked[p] = NoSkill
BY DesiredAssumption DEF TypeOK, Records, Actions, Action

\* A journal row is a row, and names the targets that are written to.
LEMMA RecoveryPlanIsRow ==
    ASSUME TypeOK, NEW act
    PROVE  /\ Written(act) \in SUBSET Paths
           /\ DOMAIN RecoveryPlan(act) = Written(act)
           /\ RecoveryPlan(act) \in [Written(act) -> Skills \cup {NoSkill}]
           /\ RecoveryPlan(act) # NoRecovery
<1>1. Written(act) \in SUBSET Paths
    BY DEF Written
<1>2. RecoveryPlan(act) \in [Written(act) -> Skills \cup {NoSkill}]
    BY <1>1 DEF RecoveryPlan, TypeOK, Records
<1> QED BY <1>1, <1>2, NoRecoveryAssumption DEF RecoveryPlan

\* What is wanted when a plan is made.
Wanted == IF op.kind = "apply" THEN Desired[op.revision] ELSE history[Latest].targets

LEMMA WantedIsRecords ==
    ASSUME TypeOK, LastExists, op # Idle, op.kind \in {"apply", "rollback"},
           op.kind = "rollback" => Live # {}
    PROVE  Wanted \in Records
<1>1. CASE op.kind = "apply"
    BY <1>1, DesiredAssumption DEF Wanted, TypeOK, Records
<1>2. CASE op.kind = "rollback"
    <2>1. Latest \in DOMAIN history
        BY <1>2, LatestIsLive DEF Live
    <2>2. history[Latest] \in Applies
        BY <2>1 DEF TypeOK
    <2> QED BY <1>2, <2>2 DEF Wanted, Applies
<1> QED BY <1>1, <1>2

\* The plan that is not refused.
Planned ==
    /\ op # Idle /\ op.phase = "plan" /\ op.kind \in {"apply", "rollback"}
    /\ op.kind = "rollback" => Live # {}
    /\ \A p \in Paths : Action(p, Wanted[p]) # "conflict"
    /\ recovery' = RecoveryPlan([p \in Paths |-> Action(p, Wanted[p])])
    /\ before' = [disk |-> disk, edits |-> edits]
    /\ op' = [op EXCEPT !.phase = "remove", !.want = Wanted,
                        !.act = [p \in Paths |-> Action(p, Wanted[p])],
                        !.todo = {p \in Paths : Action(p, Wanted[p]) \in {"remove", "replace"}
                                                /\ Exists(p)}]
    /\ UNCHANGED <<disk, Database, faults, edits>>

\* The plan that is refused.
Refused == op' = Idle /\ UNCHANGED <<disk, Database, recovery, before, faults, edits>>

LEMMA PlanCases ==
    ASSUME Plan PROVE Planned \/ Refused
<1> DEFINE act == [p \in Paths |-> Action(p, Wanted[p])]
<1>1. CASE (op.kind = "rollback" /\ Live = {}) \/ \E p \in Paths : act[p] = "conflict"
    BY <1>1 DEF Plan, End, Refused, Wanted
<1>2. CASE ~((op.kind = "rollback" /\ Live = {}) \/ \E p \in Paths : act[p] = "conflict")
    <2>1. \A p \in Paths : Action(p, Wanted[p]) # "conflict"
        BY <1>2
    <2> QED BY <1>2, <2>1 DEF Plan, Planned, Wanted
<1> QED BY <1>1, <1>2

------------------------------------------------------------------------------
LEMMA TypePreserved ==
    ASSUME ApplyInv, [Next]_vars PROVE TypeOK'
<1> USE DEF ApplyInv, Database
<1>1. ASSUME NEW k \in {"apply", "assign", "rollback", "recover"},
             NEW r \in Revisions \cup {NoRevision}, Begin(k, r),
             k \in {"apply", "assign"} => r \in Revisions
      PROVE  TypeOK'
    <2>1. op'.todo \in SUBSET Paths
        BY <1>1 DEF TypeOK, Begin
    <2>2. op' \in Operations
        BY <1>1, <2>1 DEF Begin, Operations, Records, Actions
    <2> QED BY <1>1, <2>2 DEF Begin, TypeOK
<1>2. CASE Planned
    <2> DEFINE act == [p \in Paths |-> Action(p, Wanted[p])]
    <2>1. Wanted \in Records
        BY <1>2, WantedIsRecords DEF Planned
    <2>2. act \in [Paths -> Actions]
        BY <2>1, ActionIsSound DEF Records
    <2>3. op' \in Operations
        BY <1>2, <2>1, <2>2 DEF Planned, TypeOK, Operations
    <2>4. \E S \in SUBSET Paths : recovery' \in [S -> Skills \cup {NoSkill}]
        BY <1>2, RecoveryPlanIsRow DEF Planned
    <2>5. before' \in Marks
        BY <1>2 DEF Planned, Marks, TypeOK, JournalFirst, TornIsRecoverable, Contents
    <2>6. op'.kind = op.kind /\ op'.revision = op.revision
        BY <1>2 DEF Planned, TypeOK, Operations
    <2> QED BY <1>2, <2>3, <2>4, <2>5, <2>6 DEF Planned, TypeOK
<1>3. CASE Refused
    BY <1>3 DEF Refused, TypeOK
<1>4. CASE Finish
    BY <1>4 DEF Finish, End, TypeOK, Operations
<1>5. CASE StartAdding
    <2>1. op' \in Operations
        BY <1>5 DEF StartAdding, TypeOK, Operations, ToAdd
    <2> QED BY <1>5, <2>1 DEF StartAdding, TypeOK, Operations
<1>6. ASSUME NEW p \in Paths, Remove(p) PROVE TypeOK'
    <2>1. op' \in Operations
        BY <1>6 DEF Remove, TypeOK, Operations
    <2> QED BY <1>6, <2>1 DEF Remove, TypeOK, Operations, Contents
<1>7. ASSUME NEW p \in Paths, Add(p) PROVE TypeOK'
    <2>1. op' \in Operations /\ op.want[p] \in Contents
        BY <1>7 DEF Add, TypeOK, Operations, Records, Contents
    <2> QED BY <1>7, <2>1 DEF Add, TypeOK, Operations
<1>8. ASSUME op # Idle, Restore, Writing, UNCHANGED <<tracked, assigned, applied, history, recovery, before>>,
             disk' \in [Paths -> Contents \cup {Torn}], faults' \in Nat, edits' \in Nat
      PROVE  TypeOK'
    <2>1. DOMAIN recovery \in SUBSET Paths
        BY <1>8 DEF JournalFirst, TypeOK
    <2>2. op' \in Operations
        BY <1>8, <2>1 DEF Restore, TypeOK, Operations
    <2> QED BY <1>8, <2>2 DEF Restore, TypeOK, Operations
<1>9. ASSUME NEW p \in Paths, AddFindsTargetTaken(p) PROVE TypeOK'
    BY <1>8, <1>9 DEF AddFindsTargetTaken, Writing, TypeOK
<1>10. CASE Cancel
    BY <1>8, <1>10 DEF Cancel, Writing, TypeOK
<1>11. CASE CommitApply
    <2>1. op.want \in Records /\ op.revision \in Revisions
        BY <1>11 DEF CommitApply, TypeOK, Operations
    <2>2. Snapshot(op.want, op.act) \in Records
        BY <2>1 DEF Snapshot, Records, TypeOK
    <2>3. {p \in Paths : tracked[p] # NoSkill} \in SUBSET Paths
        OBVIOUS
    <2>4. [targets |-> Snapshot(op.want, op.act), managed |-> {p \in Paths : tracked[p] # NoSkill},
           revision |-> applied, rolledBack |-> FALSE, before |-> before] \in Applies
        BY <2>2, <2>3 DEF Applies, TypeOK
    <2>5. history' \in Seq(Applies)
        BY <1>11, <2>4 DEF CommitApply, TypeOK
    <2> QED BY <1>11, <2>1, <2>5 DEF CommitApply, CommittedRecovery, End, TypeOK
<1>12. CASE CommitRollback
    <2> DEFINE undone == history[Latest]
    <2>1. Latest \in DOMAIN history
        BY <1>12, LatestIsLive DEF CommitRollback, RollbackTargets, Writing, Live
    <2>2. undone \in Applies
        BY <2>1 DEF TypeOK
    <2>3. [undone EXCEPT !.rolledBack = TRUE] \in Applies
        BY <2>2 DEF Applies
    <2>4. history' = [history EXCEPT ![Latest] = [undone EXCEPT !.rolledBack = TRUE]]
        BY <1>12 DEF CommitRollback
    <2>5. history' \in Seq(Applies)
        BY <2>1, <2>3, <2>4 DEF TypeOK
    <2>6. tracked' \in Records
        BY <1>12, <2>2 DEF CommitRollback, Applies, Records
    <2>7. assigned' = undone.revision /\ applied' = undone.revision
        BY <1>12 DEF CommitRollback
    <2> QED BY <1>12, <2>2, <2>5, <2>6, <2>7 DEF CommitRollback, CommittedRecovery, End, Applies, TypeOK
<1>13. ASSUME NEW p \in Paths, RestoreTarget(p) PROVE TypeOK'
    <2>1. recovery # NoRecovery /\ p \in DOMAIN recovery
        BY <1>13 DEF RestoreTarget, JournalFirst, Restoring
    <2>2. recovery[p] \in Contents
        BY <2>1 DEF TypeOK, Contents
    <2>3. op' \in Operations
        BY <1>13 DEF RestoreTarget, TypeOK, Operations
    <2> QED BY <1>13, <2>2, <2>3 DEF RestoreTarget, TypeOK, Operations
<1>14. CASE Restored
    <2>1. op # Idle => op \in Operations
        BY DEF TypeOK
    <2>2. op' # Idle => op' \in Operations /\ op'.kind = op.kind /\ op'.revision = op.revision
        BY <1>14, <2>1 DEF Restored, End, Operations
    <2>3. op' # Idle => op # Idle
        BY <1>14 DEF Restored, End
    <2> QED BY <1>14, <2>2, <2>3 DEF Restored, RestoredRecovery, TypeOK
<1>15. \A p \in Paths : CutOff(p) \subseteq Contents \cup {Torn}
    BY DEF CutOff, TypeOK, Contents
<1>16. ASSUME NEW p \in Paths, FileFails(p) PROVE TypeOK'
    <2>1. disk' \in [Paths -> Contents \cup {Torn}]
        BY <1>15, <1>16 DEF FileFails, TypeOK
    <2>2. faults' \in Nat
        BY <1>16 DEF FileFails, TypeOK
    <2>3. CASE op.phase \in {"remove", "add"} /\ Restore
        BY <1>8, <1>16, <2>1, <2>2, <2>3 DEF FileFails, Writing, TypeOK
    <2>4. CASE op.phase = "restore" /\ op' = [op EXCEPT !.failed = TRUE, !.todo = @ \ {p}]
        <3>1. op' \in Operations
            BY <1>16, <2>4 DEF FileFails, TypeOK, Operations
        <3> QED BY <1>16, <2>1, <2>2, <2>4, <3>1 DEF FileFails, TypeOK, Operations
    <2> QED BY <1>16, <2>3, <2>4 DEF FileFails
<1>17. CASE CommitFails
    BY <1>8, <1>17 DEF CommitFails, Writing, TypeOK
<1>18. CASE Crash
    <2>1. op.todo \subseteq Paths
        BY <1>18 DEF Crash, TypeOK, Operations
    <2>2. disk' \in [Paths -> Contents \cup {Torn}]
        BY <1>15, <1>18, <2>1 DEF Crash, TypeOK
    <2> QED BY <1>18, <2>2 DEF Crash, End, TypeOK
<1>19. ASSUME NEW p \in Paths, Edit(p) PROVE TypeOK'
    BY <1>19 DEF Edit, TypeOK
<1>20. CASE UNCHANGED vars
    BY <1>20 DEF vars, TypeOK
<1>21. CASE BeginAny
    BY <1>1, <1>21 DEF BeginAny
<1>22. CASE Operate
    BY <1>2, <1>3, <1>4, <1>5, <1>6, <1>7, <1>9, <1>10, <1>11, <1>12, <1>13, <1>14, <1>22, PlanCases
       DEF Operate
<1>23. CASE Fault
    BY <1>16, <1>17, <1>18, <1>23 DEF Fault
<1> QED BY <1>19, <1>20, <1>21, <1>22, <1>23 DEF Next, Person

------------------------------------------------------------------------------
\* What the two invariants of the journal say once an operation ended.
LEMMA EndedIsJournalled ==
    ASSUME op' = Idle,
           \A p \in Paths : disk'[p] = Torn => recovery' # NoRecovery /\ p \in DOMAIN recovery'
    PROVE  JournalFirst' /\ TornIsRecoverable'
BY DEF JournalFirst, Writing, Restoring, TornIsRecoverable

\* A failure turns to restoring: what it left is named by the row.
LEMMA RestoreIsJournalled ==
    ASSUME ApplyInv, Writing, Restore, recovery' = recovery,
           \A p \in Paths : disk'[p] = Torn => p \in DOMAIN recovery
    PROVE  JournalFirst' /\ TornIsRecoverable'
<1>1. op \in Operations /\ recovery # NoRecovery
    BY DEF ApplyInv, TypeOK, JournalFirst, Writing
<1>2. op'.phase = "restore" /\ op'.todo = DOMAIN recovery
    BY <1>1 DEF Restore, Operations
<1> QED BY <1>1, <1>2 DEF JournalFirst, Writing, Restoring, TornIsRecoverable

\* What a cut off file operation leaves is on a target that the row names.
LEMMA CutOffIsJournalled ==
    ASSUME ApplyInv, op # Idle, NEW q \in op.todo, NEW c \in CutOff(q),
           disk' = [disk EXCEPT ![q] = c]
    PROVE  /\ recovery # NoRecovery
           /\ q \in DOMAIN recovery
           /\ \A p \in Paths : disk'[p] = Torn => p \in DOMAIN recovery
<1>1. op \in Operations
    BY DEF ApplyInv, TypeOK
<1>2. recovery # NoRecovery /\ q \in DOMAIN recovery
    BY <1>1 DEF ApplyInv, JournalFirst, Writing, Restoring, Operations
<1> QED BY <1>2 DEF ApplyInv, TypeOK, TornIsRecoverable

LEMMA JournalPreserved ==
    ASSUME ApplyInv, [Next]_vars PROVE JournalFirst' /\ TornIsRecoverable'
<1> USE DEF ApplyInv, Database
<1>0. op # Idle => op \in Operations
    BY DEF TypeOK
<1>1. ASSUME NEW k, NEW r, Begin(k, r) PROVE JournalFirst' /\ TornIsRecoverable'
    BY <1>1 DEF Begin, JournalFirst, Writing, Restoring, TornIsRecoverable
<1>2. CASE Planned
    <2> DEFINE act == [p \in Paths |-> Action(p, Wanted[p])]
    <2>1. op'.phase = "remove" /\ op'.kind = op.kind /\ op'.act = act
          /\ op'.todo = {p \in Paths : act[p] \in {"remove", "replace"} /\ Exists(p)}
        BY <1>0, <1>2 DEF Planned, Operations
    <2>2. recovery' # NoRecovery /\ DOMAIN recovery' = Written(act)
        BY <1>2, RecoveryPlanIsRow DEF Planned
    <2>3. op'.todo \cup ToAdd' \subseteq Written(act)
        BY <2>1 DEF Written, ToAdd
    <2>4. \A p \in Paths : disk'[p] # Torn
        BY <1>2 DEF Planned, JournalFirst, TornIsRecoverable
    <2> QED BY <1>2, <2>1, <2>2, <2>3, <2>4
            DEF Planned, JournalFirst, Writing, Restoring, TornIsRecoverable
<1>3. CASE Refused
    BY <1>3, EndedIsJournalled DEF Refused, TornIsRecoverable
<1>4. CASE Finish
    BY <1>4, EndedIsJournalled DEF Finish, End, TornIsRecoverable
<1>5. CASE StartAdding
    <2>1. op'.phase = "add" /\ op'.todo = ToAdd /\ op'.kind = op.kind /\ op'.act = op.act
        BY <1>0, <1>5 DEF StartAdding, Operations
    <2>2. ToAdd' = ToAdd
        BY <2>1 DEF ToAdd
    <2> QED BY <1>5, <2>1, <2>2
            DEF StartAdding, JournalFirst, Writing, Restoring, TornIsRecoverable
<1>6. ASSUME NEW p \in Paths, Remove(p) \/ Add(p) PROVE JournalFirst' /\ TornIsRecoverable'
    <2>1. op # Idle /\ Writing /\ UNCHANGED recovery /\ op' = [op EXCEPT !.todo = @ \ {p}]
        BY <1>6 DEF Remove, Add, Writing
    <2>2. /\ op'.phase = op.phase /\ op'.kind = op.kind /\ op'.act = op.act
          /\ op'.todo = op.todo \ {p}
        BY <1>0, <2>1 DEF Operations
    <2>3. disk' = [disk EXCEPT ![p] = NoSkill] \/ disk' = [disk EXCEPT ![p] = op.want[p]]
        BY <1>6 DEF Remove, Add
    <2>4. op.want[p] # Torn /\ NoSkill # Torn
        BY <1>0, <2>1, DesiredAssumption DEF Operations, Records
    <2>5. \A q \in Paths : disk'[q] # Torn
        BY <2>1, <2>3, <2>4 DEF JournalFirst, TypeOK
    <2>6. ToAdd' = ToAdd
        BY <2>2 DEF ToAdd
    <2> QED BY <2>1, <2>2, <2>5, <2>6 DEF JournalFirst, Writing, Restoring, TornIsRecoverable
<1>7. ASSUME NEW p \in Paths, AddFindsTargetTaken(p) PROVE JournalFirst' /\ TornIsRecoverable'
    BY <1>7, RestoreIsJournalled DEF AddFindsTargetTaken, Writing, JournalFirst
<1>8. CASE Cancel
    BY <1>8, RestoreIsJournalled DEF Cancel, Writing, JournalFirst
<1>9. CASE CommitApply
    BY <1>9, EndedIsJournalled DEF CommitApply, End, JournalFirst, Writing
<1>10. CASE CommitRollback
    BY <1>10, EndedIsJournalled DEF CommitRollback, End, JournalFirst, Writing
<1>11. ASSUME NEW p \in Paths, RestoreTarget(p) PROVE JournalFirst' /\ TornIsRecoverable'
    <2>1. op # Idle /\ Restoring /\ UNCHANGED recovery
        BY <1>11 DEF RestoreTarget, Restoring
    <2>2. op'.phase = "restore" /\ op'.failed = op.failed /\ op'.todo = op.todo \ {p}
        BY <1>0, <1>11 DEF RestoreTarget, Operations
    <2>3. recovery[p] # Torn
        BY <1>11, <2>1, DesiredAssumption DEF RestoreTarget, JournalFirst, TypeOK
    <2>4. \A q \in Paths : disk'[q] = Torn => q # p /\ disk[q] = Torn
        BY <1>11, <2>3 DEF RestoreTarget, TypeOK
    <2> QED BY <2>1, <2>2, <2>4 DEF JournalFirst, Writing, Restoring, TornIsRecoverable
<1>12. CASE Restored
    <2>1. CASE op.failed
        BY <1>12, <2>1, EndedIsJournalled
           DEF Restored, RestoredRecovery, End, TornIsRecoverable
    <2>2. CASE ~op.failed
        <3>1. recovery' = NoRecovery /\ UNCHANGED disk
            BY <1>12, <2>2 DEF Restored, RestoredRecovery
        <3>2. \A q \in Paths : disk'[q] # Torn
            BY <1>12, <2>2, <3>1 DEF Restored, JournalFirst, Restoring
        <3>3. CASE op.resume
            <4>1. op' = [op EXCEPT !.phase = "plan"]
                BY <1>12, <2>2, <3>3 DEF Restored
            <4>2. op'.phase = "plan" /\ op'.todo = {}
                BY <1>0, <1>12, <4>1 DEF Restored, Operations
            <4> QED BY <3>1, <3>2, <4>2 DEF JournalFirst, Writing, Restoring, TornIsRecoverable
        <3>4. CASE ~op.resume
            BY <1>12, <3>2, <3>4, EndedIsJournalled DEF Restored, End
        <3> QED BY <3>3, <3>4
    <2> QED BY <2>1, <2>2
<1>13. ASSUME NEW p \in Paths, FileFails(p) PROVE JournalFirst' /\ TornIsRecoverable'
    <2>1. op # Idle /\ p \in op.todo /\ UNCHANGED recovery
        BY <1>13 DEF FileFails
    <2>2. PICK c \in CutOff(p) : disk' = [disk EXCEPT ![p] = c]
        BY <1>13 DEF FileFails
    <2>3. /\ recovery # NoRecovery
          /\ \A q \in Paths : disk'[q] = Torn => q \in DOMAIN recovery
        BY <2>1, <2>2, CutOffIsJournalled
    <2>4. CASE op.phase \in {"remove", "add"} /\ Restore
        BY <2>1, <2>3, <2>4, RestoreIsJournalled DEF Writing
    <2>5. CASE op.phase = "restore" /\ op' = [op EXCEPT !.failed = TRUE, !.todo = @ \ {p}]
        <3>1. op'.phase = "restore" /\ op'.failed = TRUE /\ op'.todo = op.todo \ {p}
            BY <1>0, <2>1, <2>5 DEF Operations
        <3> QED BY <2>1, <2>3, <2>5, <3>1
                DEF JournalFirst, Writing, Restoring, TornIsRecoverable
    <2> QED BY <1>13, <2>4, <2>5 DEF FileFails
<1>14. CASE CommitFails
    BY <1>14, RestoreIsJournalled DEF CommitFails, Writing, JournalFirst
<1>15. CASE Crash
    <2>1. op # Idle /\ op' = Idle /\ UNCHANGED recovery
        BY <1>15 DEF Crash, End
    <2>2. CASE disk' = disk
        BY <2>1, <2>2, EndedIsJournalled DEF TornIsRecoverable
    <2>3. CASE \E q \in op.todo : \E c \in CutOff(q) : disk' = [disk EXCEPT ![q] = c]
        BY <2>1, <2>3, CutOffIsJournalled, EndedIsJournalled
    <2> QED BY <1>15, <2>2, <2>3 DEF Crash
<1>16. ASSUME NEW p \in Paths, Edit(p) PROVE JournalFirst' /\ TornIsRecoverable'
    <2>1. PICK c \in Contents : disk' = [disk EXCEPT ![p] = c]
        BY <1>16 DEF Edit
    <2>2. \A q \in Paths : disk'[q] = Torn => disk[q] = Torn
        BY <2>1, DesiredAssumption DEF TypeOK, Contents
    <2>3. ToAdd' = ToAdd
        BY <1>16 DEF Edit, ToAdd
    <2> QED BY <1>16, <2>2, <2>3 DEF Edit, JournalFirst, Writing, Restoring, TornIsRecoverable
<1>17. CASE UNCHANGED vars
    BY <1>17 DEF vars, JournalFirst, Writing, Restoring, ToAdd, TornIsRecoverable
<1>18. CASE BeginAny
    BY <1>1, <1>18 DEF BeginAny
<1>19. CASE Operate
    BY <1>2, <1>3, <1>4, <1>5, <1>6, <1>7, <1>8, <1>9, <1>10, <1>11, <1>12, <1>19, PlanCases
       DEF Operate
<1>20. CASE Fault
    BY <1>13, <1>14, <1>15, <1>20 DEF Fault
<1> QED BY <1>16, <1>17, <1>18, <1>19, <1>20 DEF Next, Person

------------------------------------------------------------------------------
\* The history changes when an operation commits, and then only.
LEMMA HistoryChanges ==
    ASSUME [Next]_vars PROVE CommitApply \/ CommitRollback \/ UNCHANGED history
BY PlanCases
   DEF Next, BeginAny, Begin, Operate, Refused, Planned, Finish, StartAdding, Remove, Add,
       AddFindsTargetTaken, Cancel, RestoreTarget, Restored, Fault, FileFails, CommitFails, Crash,
       Person, Edit, vars, Database

LEMMA LastPreserved ==
    ASSUME ApplyInv, [Next]_vars PROVE LastExists'
<1> USE DEF ApplyInv
<1>0. history \in Seq(Applies) /\ Live \subseteq 1 .. Len(history) /\ Len(history) \in Nat
    BY DEF TypeOK, Live
<1>1. CASE CommitApply
    <2> DEFINE n1 == Len(history) + 1
    <2>1. PICK h : history' = Append(history, h) /\ ~h.rolledBack
        BY <1>1 DEF CommitApply
    <2>2. /\ DOMAIN history' = 1 .. n1
          /\ history'[n1] = h
          /\ \A i \in 1 .. Len(history) : history'[i] = history[i]
        BY <1>0, <2>1
    <2>3. Live' = Live \cup {n1}
        BY <1>0, <2>1, <2>2 DEF Live
    <2>4. SUFFICES ASSUME NEW n \in Nat, NEW k \in Live', k <= n
                   PROVE  \E i \in Live' : i <= n /\ \A l \in Live' : l <= n => l <= i
        BY DEF LastExists
    <2>5. CASE n1 <= n
        BY <1>0, <2>3, <2>5
    <2>6. CASE ~(n1 <= n)
        <3>1. k \in Live
            BY <2>3, <2>4, <2>6
        <3>2. PICK i \in Live : i <= n /\ \A l \in Live : l <= n => l <= i
            BY <2>4, <3>1 DEF LastExists
        <3> QED BY <2>3, <2>6, <3>2
    <2> QED BY <2>5, <2>6
<1>2. CASE CommitRollback
    <2>1. Latest \in Live /\ \A l \in Live : l <= Latest
        BY <1>2, LatestIsLive DEF CommitRollback, RollbackTargets, Writing
    <2>2. history' = [history EXCEPT ![Latest].rolledBack = TRUE]
        BY <1>2 DEF CommitRollback
    <2>3. history[Latest] \in Applies
        BY <2>1 DEF Live, TypeOK
    <2>4. /\ DOMAIN history' = DOMAIN history
          /\ \A i \in DOMAIN history : i # Latest => history'[i] = history[i]
          /\ history'[Latest].rolledBack
        BY <1>0, <2>1, <2>2, <2>3 DEF Applies, Live
    <2>5. Live' = Live \ {Latest}
        BY <2>1, <2>4 DEF Live
    <2>6. SUFFICES ASSUME NEW n \in Nat, NEW k \in Live', k <= n
                   PROVE  \E i \in Live' : i <= n /\ \A l \in Live' : l <= n => l <= i
        BY DEF LastExists
    <2>7. CASE n < Latest
        <3>1. PICK i \in Live : i <= n /\ \A l \in Live : l <= n => l <= i
            BY <2>5, <2>6 DEF LastExists
        <3> QED BY <1>0, <2>1, <2>5, <2>7, <3>1
    <2>8. CASE ~(n < Latest)
        <3>1. Latest - 1 \in Nat /\ k <= Latest - 1
            BY <1>0, <2>1, <2>5, <2>6
        <3>2. PICK i \in Live : i <= Latest - 1 /\ \A l \in Live : l <= Latest - 1 => l <= i
            BY <2>5, <2>6, <3>1 DEF LastExists
        <3> QED BY <1>0, <2>1, <2>5, <2>8, <3>1, <3>2
    <2> QED BY <2>7, <2>8
<1>3. CASE UNCHANGED history
    <2>1. Live' = Live
        BY <1>3 DEF Live
    <2> QED BY <2>1 DEF LastExists
<1> QED BY <1>1, <1>2, <1>3, HistoryChanges

LEMMA RollbackTargetsPreserved ==
    ASSUME ApplyInv, [Next]_vars PROVE RollbackTargets'
<1> USE DEF ApplyInv, Database
<1>0. op # Idle => op \in Operations
    BY DEF TypeOK
<1>1. ASSUME op' = Idle PROVE RollbackTargets'
    BY <1>1 DEF RollbackTargets, Writing
<1>2. ASSUME op' # Idle, op'.phase \in {"plan", "restore"} PROVE RollbackTargets'
    BY <1>2 DEF RollbackTargets, Writing
<1>3. ASSUME UNCHANGED history, Writing, op'.kind = op.kind, op'.want = op.want
      PROVE  RollbackTargets'
    BY <1>3 DEF RollbackTargets, Writing, Live, Latest
<1>4. ASSUME NEW k, NEW r, Begin(k, r) PROVE RollbackTargets'
    BY <1>2, <1>4 DEF Begin, RollbackTargets, Writing
<1>5. CASE Planned
    <2>1. op'.kind = op.kind /\ op'.want = Wanted
        BY <1>0, <1>5 DEF Planned, Operations
    <2>2. Live' = Live /\ Latest' = Latest /\ history' = history
        BY <1>5 DEF Planned, Live, Latest
    <2> QED BY <1>5, <2>1, <2>2 DEF Planned, RollbackTargets, Wanted
<1>6. ASSUME op # Idle, Restore PROVE RollbackTargets'
    <2>1. op'.phase = "restore"
        BY <1>0, <1>6 DEF Restore, Operations
    <2> QED BY <2>1 DEF RollbackTargets, Writing
<1>7. CASE StartAdding
    <2>1. op'.kind = op.kind /\ op'.want = op.want
        BY <1>0, <1>7 DEF StartAdding, Operations
    <2> QED BY <1>3, <1>7, <2>1 DEF StartAdding, Writing
<1>8. ASSUME NEW p \in Paths, Remove(p) \/ Add(p) PROVE RollbackTargets'
    <2>1. op # Idle /\ op' = [op EXCEPT !.todo = @ \ {p}]
        BY <1>8 DEF Remove, Add
    <2>2. op'.kind = op.kind /\ op'.want = op.want
        BY <1>0, <2>1 DEF Operations
    <2> QED BY <1>3, <1>8, <2>2 DEF Remove, Add, Writing
<1>9. ASSUME NEW p \in Paths, RestoreTarget(p) PROVE RollbackTargets'
    <2>1. op'.phase = "restore"
        BY <1>0, <1>9 DEF RestoreTarget, Operations
    <2> QED BY <2>1 DEF RollbackTargets, Writing
<1>10. CASE Restored
    <2>1. op' # Idle => op'.phase = "plan"
        BY <1>0, <1>10 DEF Restored, End, Operations
    <2> QED BY <1>1, <1>2, <2>1
<1>11. ASSUME NEW p \in Paths, FileFails(p) PROVE RollbackTargets'
    <2>1. CASE op.phase = "restore" /\ op' = [op EXCEPT !.failed = TRUE, !.todo = @ \ {p}]
        <3>1. op'.phase = "restore"
            BY <1>0, <1>11, <2>1 DEF FileFails, Operations
        <3> QED BY <3>1 DEF RollbackTargets, Writing
    <2> QED BY <1>6, <1>11, <2>1 DEF FileFails
<1>12. CASE UNCHANGED vars
    BY <1>12 DEF vars, RollbackTargets, Writing, Live, Latest
<1>13. ASSUME NEW p \in Paths, Edit(p) PROVE RollbackTargets'
    BY <1>13 DEF Edit, RollbackTargets, Writing, Live, Latest
<1>14. CASE BeginAny
    BY <1>4, <1>14 DEF BeginAny
<1>15. CASE Operate
    <2>1. CASE Cancel
        BY <1>6, <2>1 DEF Cancel
    <2>2. ASSUME NEW p \in Paths, AddFindsTargetTaken(p) PROVE RollbackTargets'
        BY <1>6, <2>2 DEF AddFindsTargetTaken
    <2>3. CASE Refused \/ Finish \/ CommitApply \/ CommitRollback
        BY <1>1, <2>3 DEF Refused, Finish, CommitApply, CommitRollback, End
    <2> QED BY <1>5, <1>7, <1>8, <1>9, <1>10, <1>15, <2>1, <2>2, <2>3, PlanCases DEF Operate
<1>16. CASE Fault
    <2>1. CASE CommitFails \/ Crash
        BY <1>1, <1>6, <2>1 DEF CommitFails, Crash, End
    <2> QED BY <1>11, <1>16, <2>1 DEF Fault
<1> QED BY <1>12, <1>13, <1>14, <1>15, <1>16 DEF Next, Person

LEMMA InitApplyInv ==
    ASSUME Init PROVE ApplyInv
<1>1. Live = {}
    BY DEF Init, Live
<1>2. TypeOK
    BY DesiredAssumption DEF Init, TypeOK, Records, Marks, Contents
<1>3. \A p \in Paths : disk[p] # Torn
    BY DesiredAssumption DEF Init, Contents
<1> QED BY <1>1, <1>2, <1>3
        DEF Init, ApplyInv, JournalFirst, Writing, Restoring, TornIsRecoverable, LastExists,
            RollbackTargets

\* Applying and rolling back keep the type invariant, a journal row that names
\* all an operation may touch before it touches anything, and a latest apply.
THEOREM ApplySafe == Spec => []ApplyInv
<1>1. ApplyInv /\ [Next]_vars => ApplyInv'
    BY TypePreserved, JournalPreserved, LastPreserved, RollbackTargetsPreserved DEF ApplyInv
<1> QED BY <1>1, InitApplyInv, PTL DEF Spec

\* The state keeps its types.
THEOREM ApplyTypeCorrect == Spec => []TypeOK
BY ApplySafe, PTL DEF ApplyInv

\* Half-written content always has a journal row to undo it, whatever failed.
THEOREM TornCanBeUndone == Spec => []TornIsRecoverable
BY ApplySafe, PTL DEF ApplyInv

------------------------------------------------------------------------------
\* A write to a target of the row, while the person changes nothing, leaves
\* nothing of the person's there and everything else alone.
LEMMA TargetWritten ==
    ASSUME ApplyInv, LeadsBack, UNCHANGED <<recovery, before, edits>>,
           recovery # NoRecovery, NEW q \in DOMAIN recovery, NEW c, c # Foreign,
           disk' = [disk EXCEPT ![q] = c]
    PROVE  LeadsBack'
BY DEF LeadsBack, RecoveryLeadsBack, ApplyInv, TypeOK

\* A step that leaves disk and row alone.
LEMMA NothingWritten ==
    ASSUME LeadsBack, UNCHANGED <<disk, before, edits>>, recovery' \in {recovery, NoRecovery}
    PROVE  LeadsBack'
BY DEF LeadsBack, RecoveryLeadsBack

\* What a file operation of ours writes, whole or cut off, is not the person's,
\* and it writes to a target of the row.
LEMMA WritesAreOurs ==
    ASSUME ApplyInv, op # Idle, NEW q \in op.todo
    PROVE  /\ recovery # NoRecovery
           /\ q \in DOMAIN recovery /\ q \in Paths
           /\ op.want[q] # Foreign /\ recovery[q] # Foreign /\ NoSkill # Foreign /\ Torn # Foreign
<1>1. op \in Operations
    BY DEF ApplyInv, TypeOK
<1>2. recovery # NoRecovery /\ q \in DOMAIN recovery /\ q \in Paths
    BY <1>1 DEF ApplyInv, JournalFirst, Writing, Restoring, Operations
<1> QED BY <1>1, <1>2, DesiredAssumption DEF ApplyInv, TypeOK, Operations, Records

\* The row that a plan writes names what is there, and nothing of the person's.
LEMMA RowIsWhatIsThere ==
    ASSUME ApplyInv, Planned
    PROVE  /\ recovery = NoRecovery /\ recovery' # NoRecovery
           /\ \A p \in DOMAIN recovery' : p \in Paths /\ recovery'[p] = disk[p] /\ disk[p] # Foreign
<1> DEFINE act == [p \in Paths |-> Action(p, Wanted[p])]
<1>1. Wanted \in Records
    BY WantedIsRecords DEF ApplyInv, Planned
<1>2. /\ DOMAIN recovery' = Written(act) /\ Written(act) \subseteq Paths
      /\ recovery' # NoRecovery
    BY RecoveryPlanIsRow DEF ApplyInv, Planned
<1>3. recovery = NoRecovery
    BY DEF Planned, ApplyInv, JournalFirst
<1>4. ASSUME NEW p \in Written(act)
      PROVE  recovery'[p] = disk[p] /\ disk[p] # Foreign
    <2>1. /\ act[p] \in {"add", "remove", "replace"}
          /\ recovery'[p] = IF act[p] = "add" \/ ~Exists(p) THEN NoSkill ELSE tracked[p]
        BY <1>2 DEF Planned, RecoveryPlan, Written
    <2>2. Wanted[p] \in Skills \cup {NoSkill} /\ act[p] = Action(p, Wanted[p])
        BY <1>1, <1>2 DEF Records
    <2>3. /\ act[p] = "add" => disk[p] = NoSkill
          /\ act[p] \in {"remove", "replace"} => disk[p] \in {NoSkill, tracked[p]}
        BY <1>2, <2>2, ActionIsSound DEF ApplyInv
    <2>4. tracked[p] # Foreign /\ NoSkill # Foreign
        BY <1>2, DesiredAssumption DEF ApplyInv, TypeOK, Records
    <2> QED BY <2>1, <2>3, <2>4 DEF Exists
<1> QED BY <1>2, <1>3, <1>4

\* The operation's steps other than a plan, and its failures.
LEMMA LeadsBackPreserved ==
    ASSUME ApplyInv, LeadsBack, [Next]_vars PROVE LeadsBack'
<1> USE DEF Database
<1>1. CASE Planned
    <2>1. \A p \in DOMAIN recovery' : p \in Paths /\ recovery'[p] = disk[p] /\ disk[p] # Foreign
        BY <1>1, RowIsWhatIsThere
    <2>2. before'.disk = disk /\ before'.edits = edits /\ edits' = edits /\ disk' = disk
        BY <1>1 DEF Planned
    <2>3. edits \in Nat
        BY DEF ApplyInv, TypeOK
    <2> QED BY <2>1, <2>2, <2>3 DEF LeadsBack, RecoveryLeadsBack
<1>2. ASSUME NEW p \in Paths, Remove(p) \/ Add(p) \/ RestoreTarget(p) PROVE LeadsBack'
    <2>1. op # Idle /\ p \in op.todo /\ UNCHANGED <<recovery, before, edits>>
        BY <1>2 DEF Remove, Add, RestoreTarget
    <2>2. \/ disk' = [disk EXCEPT ![p] = NoSkill]
          \/ disk' = [disk EXCEPT ![p] = op.want[p]]
          \/ disk' = [disk EXCEPT ![p] = recovery[p]]
        BY <1>2 DEF Remove, Add, RestoreTarget
    <2> QED BY <2>1, <2>2, WritesAreOurs, TargetWritten
<1>3. ASSUME op # Idle, UNCHANGED <<recovery, before, edits>>,
             NEW p \in op.todo, NEW c \in CutOff(p), disk' = [disk EXCEPT ![p] = c]
      PROVE  LeadsBack'
    <2>1. CASE c = disk[p]
        BY <1>3, <2>1, NothingWritten DEF ApplyInv, TypeOK
    <2>2. CASE c \in {NoSkill, Torn}
        BY <1>3, <2>2, WritesAreOurs, TargetWritten
    <2> QED BY <1>3, <2>1, <2>2 DEF CutOff
<1>4. ASSUME NEW p \in Paths, FileFails(p) PROVE LeadsBack'
    BY <1>3, <1>4 DEF FileFails
<1>5. CASE Crash
    BY <1>3, <1>5, NothingWritten DEF Crash
<1>6. ASSUME NEW p \in Paths, Edit(p) PROVE LeadsBack'
    <2>1. edits' = edits + 1 /\ UNCHANGED <<recovery, before>>
        BY <1>6 DEF Edit
    <2>2. edits \in Nat /\ before.edits \in Nat
        BY DEF ApplyInv, TypeOK, Marks
    <2> QED BY <2>1, <2>2 DEF LeadsBack, RecoveryLeadsBack
<1>7. CASE BeginAny
    BY <1>7, NothingWritten DEF BeginAny, Begin
<1>8. CASE Operate
    <2>1. CASE Refused \/ Finish \/ StartAdding \/ Cancel
        BY <2>1, NothingWritten DEF Refused, Finish, StartAdding, Cancel
    <2>2. CASE CommitApply \/ CommitRollback \/ Restored
        BY <2>2, NothingWritten
           DEF CommitApply, CommitRollback, Restored, CommittedRecovery, RestoredRecovery
    <2>3. ASSUME NEW p \in Paths, AddFindsTargetTaken(p) PROVE LeadsBack'
        BY <2>3, NothingWritten DEF AddFindsTargetTaken
    <2> QED BY <1>1, <1>2, <1>8, <2>1, <2>2, <2>3, PlanCases DEF Operate
<1>9. CASE CommitFails
    BY <1>9, NothingWritten DEF CommitFails
<1>10. CASE UNCHANGED vars
    BY <1>10, NothingWritten DEF vars
<1> QED BY <1>4, <1>5, <1>6, <1>7, <1>8, <1>9, <1>10 DEF Next, Fault, Person

\* The journal row leads back to the disk as it was, whatever step failed.
THEOREM RowLeadsBack == Spec => []RecoveryLeadsBack
<1>1. Init => LeadsBack
    BY DEF Init, LeadsBack, RecoveryLeadsBack
<1>2. ApplyInv /\ LeadsBack /\ [Next]_vars => LeadsBack'
    BY LeadsBackPreserved
<1>3. LeadsBack => RecoveryLeadsBack
    BY DEF LeadsBack
<1> QED BY <1>1, <1>2, <1>3, ApplySafe, PTL DEF Spec

------------------------------------------------------------------------------
\* Who changes what is on disk: an operation, on a target it has still to do,
\* or the person.
LEMMA DiskChanges ==
    ASSUME [Next]_vars
    PROVE  \/ UNCHANGED disk
           \/ /\ op # Idle /\ UNCHANGED edits
              /\ \E q \in op.todo : \E c : disk' = [disk EXCEPT ![q] = c]
           \/ edits' = edits + 1
<1> USE DEF Database
<1>1. CASE BeginAny
    BY <1>1 DEF BeginAny, Begin
<1>2. CASE Operate
    BY <1>2, PlanCases
       DEF Operate, Refused, Planned, Finish, StartAdding, Remove, Add, AddFindsTargetTaken,
           Cancel, CommitApply, CommitRollback, RestoreTarget, Restored
<1>3. CASE Fault
    BY <1>3 DEF Fault, CommitFails, Crash, FileFails
<1>4. CASE Person
    BY <1>4 DEF Person, Edit
<1>5. CASE UNCHANGED vars
    BY <1>5 DEF vars
<1> QED BY <1>1, <1>2, <1>3, <1>4, <1>5 DEF Next

LEMMA ContentKeptByStep ==
    ASSUME ApplyInv, LeadsBack, [Next]_vars, edits' = before.edits,
           NEW p \in Paths, disk[p] = Foreign
    PROVE  disk'[p] = Foreign
<1>1. edits \in Nat /\ before.edits \in Nat /\ before.edits <= edits
    BY DEF ApplyInv, TypeOK, Marks, LeadsBack
<1>2. CASE UNCHANGED disk
    BY <1>2
<1>3. ASSUME op # Idle, UNCHANGED edits, NEW q \in op.todo, NEW c,
             disk' = [disk EXCEPT ![q] = c]
      PROVE  disk'[p] = Foreign
    <2>1. recovery # NoRecovery /\ q \in DOMAIN recovery
        BY <1>3, WritesAreOurs
    <2>2. disk[q] # Foreign
        BY <1>3, <2>1 DEF LeadsBack
    <2> QED BY <1>3, <2>2 DEF ApplyInv, TypeOK
<1>4. edits' # edits + 1
    BY <1>1
<1> QED BY <1>2, <1>3, <1>4, DiskChanges

\* No step of an operation takes the person's content that its plan saw.
THEOREM PersonsContentStays == Spec => PlannedContentKept
<1>1. Init => LeadsBack
    BY DEF Init, LeadsBack, RecoveryLeadsBack
<1>2. ApplyInv /\ LeadsBack /\ [Next]_vars => LeadsBack'
    BY LeadsBackPreserved
<1>3. ApplyInv /\ LeadsBack /\ [Next]_vars =>
          [edits' = before.edits => \A p \in Paths : disk[p] = Foreign => disk'[p] = Foreign]_vars
    BY ContentKeptByStep
<1> QED BY <1>1, <1>2, <1>3, ApplySafe, PTL DEF Spec, PlannedContentKept

------------------------------------------------------------------------------
\* Records and disk, target by target (the conjuncts of RecordsLeadToDisk).
RecordLeads(p) ==
    tracked[p] # NoSkill =>
        IF recovery # NoRecovery /\ p \in DOMAIN recovery THEN recovery[p] = tracked[p]
        ELSE disk[p] = tracked[p]

LEMMA RecordsPreserved ==
    ASSUME ApplyInv, RecordsLeadToDisk, [Next]_vars, edits' = 0
    PROVE  RecordsLeadToDisk'
<1> USE DEF Database
<1>0. /\ edits \in Nat
      /\ op # Idle => op \in Operations
      /\ disk \in [Paths -> Contents \cup {Torn}]
      /\ tracked \in Records
    BY DEF ApplyInv, TypeOK
<1>1. ASSUME UNCHANGED <<edits, disk, tracked, recovery>>, op' = Idle PROVE RecordsLeadToDisk'
    BY <1>1 DEF RecordsLeadToDisk, Writing, Restoring
<1>2. ASSUME UNCHANGED <<edits, disk, tracked, recovery>>, Restore, Writing PROVE RecordsLeadToDisk'
    <2>1. op'.phase = "restore" /\ op'.todo = DOMAIN recovery
        BY <1>0, <1>2 DEF Restore, Writing, Operations
    <2> QED BY <1>2, <2>1 DEF RecordsLeadToDisk, Writing, Restoring
<1>3. ASSUME NEW k, NEW r, Begin(k, r) PROVE RecordsLeadToDisk'
    BY <1>3 DEF Begin, RecordsLeadToDisk, Writing, Restoring
<1>4. CASE Planned
    <2> DEFINE act == [p \in Paths |-> Action(p, Wanted[p])]
    <2>1. Wanted \in Records
        BY <1>4, WantedIsRecords DEF ApplyInv, Planned
    <2>2. DOMAIN recovery' = Written(act) /\ Written(act) \subseteq Paths
        BY <1>4, RecoveryPlanIsRow DEF ApplyInv, Planned
    <2>3. op'.phase = "remove" /\ op'.want = Wanted /\ op'.act = act
        BY <1>0, <1>4 DEF Planned, Operations
    <2>4. recovery = NoRecovery /\ edits = 0 /\ UNCHANGED <<disk, tracked, edits>>
        BY <1>4 DEF Planned, ApplyInv, JournalFirst
    <2>5. \A p \in Paths : tracked[p] # NoSkill => disk[p] = tracked[p]
        BY <2>4 DEF RecordsLeadToDisk
    <2>6. ASSUME NEW p \in Written(act), tracked[p] # NoSkill PROVE recovery'[p] = tracked[p]
        <3>1. recovery'[p] = IF act[p] = "add" \/ ~Exists(p) THEN NoSkill ELSE tracked[p]
            BY <1>4, <2>2 DEF Planned, RecoveryPlan
        <3>2. Exists(p)
            BY <2>2, <2>5, <2>6 DEF Exists
        <3>3. act[p] # "add"
            BY <2>1, <2>2, <3>2, ActionIsSound DEF ApplyInv, Records, Exists
        <3> QED BY <3>1, <3>2, <3>3
    <2>7. ASSUME NEW p \in Paths, Wanted[p] # NoSkill, p \notin ToAdd'
          PROVE  p \notin Written(act) /\ disk[p] = Wanted[p]
        <3>1. act[p] \notin {"add", "replace"}
            BY <2>3, <2>7 DEF ToAdd
        <3>2. act[p] = Action(p, Wanted[p]) /\ Wanted[p] \in Skills \cup {NoSkill}
            BY <2>1 DEF Records
        <3>3. act[p] \notin {"none", "remove", "conflict"} /\ act[p] \in Actions
            BY <1>4, <2>7, <3>2, ActionIsSound DEF ApplyInv, Planned
        <3>4. act[p] = "keep"
            BY <3>1, <3>3 DEF Actions
        <3> QED BY <3>2, <3>4, ActionIsSound DEF ApplyInv, Written
    <2>8. \A p \in Paths : tracked'[p] # NoSkill =>
              IF p \in DOMAIN recovery' THEN recovery'[p] = tracked'[p] ELSE disk'[p] = tracked'[p]
        BY <2>2, <2>4, <2>5, <2>6
    <2>9. recovery' # NoRecovery
        BY <1>4, RecoveryPlanIsRow DEF ApplyInv, Planned
    <2> QED BY <2>2, <2>3, <2>4, <2>7, <2>8, <2>9 DEF RecordsLeadToDisk, Writing, Restoring
<1>5. CASE StartAdding
    <2>1. /\ op'.phase = "add" /\ op'.todo = ToAdd /\ op'.act = op.act /\ op'.want = op.want
        BY <1>0, <1>5 DEF StartAdding, Operations
    <2>2. ToAdd' = ToAdd
        BY <2>1 DEF ToAdd
    <2> QED BY <1>5, <2>1, <2>2 DEF StartAdding, RecordsLeadToDisk, Writing, Restoring
<1>6. ASSUME NEW p \in Paths, Remove(p) PROVE RecordsLeadToDisk'
    <2>1. /\ op # Idle /\ op.phase = "remove" /\ p \in DOMAIN recovery /\ recovery # NoRecovery
        BY <1>6, WritesAreOurs DEF ApplyInv, Remove
    <2>2. op'.phase = "remove" /\ op'.act = op.act /\ op'.want = op.want
        BY <1>0, <1>6 DEF Remove, Operations
    <2>3. ToAdd' = ToAdd /\ UNCHANGED <<tracked, recovery, edits>>
        BY <1>6, <2>2 DEF ToAdd, Remove
    <2>4. \A q \in Paths : q # p => disk'[q] = disk[q]
        BY <1>0, <1>6 DEF Remove
    <2> QED BY <2>1, <2>2, <2>3, <2>4 DEF RecordsLeadToDisk, Writing, Restoring
<1>7. ASSUME NEW p \in Paths, Add(p) PROVE RecordsLeadToDisk'
    <2>1. /\ op # Idle /\ op.phase = "add" /\ p \in DOMAIN recovery /\ recovery # NoRecovery
        BY <1>7, WritesAreOurs DEF ApplyInv, Add
    <2>2. op'.phase = "add" /\ op'.act = op.act /\ op'.want = op.want /\ op'.todo = op.todo \ {p}
        BY <1>0, <1>7 DEF Add, Operations
    <2>3. ToAdd' = ToAdd /\ UNCHANGED <<tracked, recovery, edits>>
        BY <1>7, <2>2 DEF ToAdd, Add
    <2>4. disk'[p] = op.want[p] /\ \A q \in Paths : q # p => disk'[q] = disk[q]
        BY <1>0, <1>7 DEF Add
    <2>5. ToAdd \subseteq Paths
        BY DEF ToAdd
    <2> QED BY <2>1, <2>2, <2>3, <2>4, <2>5 DEF RecordsLeadToDisk, Writing, Restoring
<1>8. CASE CommitApply
    <2>1. recovery # NoRecovery /\ op' = Idle /\ recovery' = NoRecovery /\ tracked' = op.want
        BY <1>8 DEF ApplyInv, JournalFirst, Writing, CommitApply, CommittedRecovery, End
    <2>2. \A p \in Paths : op.want[p] # NoSkill => disk'[p] = op.want[p]
        BY <1>8 DEF CommitApply, RecordsLeadToDisk, Writing
    <2> QED BY <2>1, <2>2 DEF RecordsLeadToDisk, Writing, Restoring
<1>9. CASE CommitRollback
    <2>1. op' = Idle /\ recovery' = NoRecovery
        BY <1>9 DEF CommitRollback, CommittedRecovery, End
    <2>2. op.want = history[Latest].targets
        BY <1>9 DEF ApplyInv, RollbackTargets, Writing, CommitRollback
    <2>3. \A p \in Paths : tracked'[p] # NoSkill => tracked'[p] = op.want[p]
        BY <1>9, <2>2 DEF CommitRollback
    <2>4. \A p \in Paths : op.want[p] # NoSkill => disk'[p] = op.want[p]
        BY <1>9 DEF CommitRollback, RecordsLeadToDisk, Writing
    <2> QED BY <2>1, <2>3, <2>4 DEF RecordsLeadToDisk, Writing, Restoring
<1>10. ASSUME NEW p \in Paths, RestoreTarget(p) PROVE RecordsLeadToDisk'
    <2>1. /\ op # Idle /\ op.phase = "restore" /\ p \in DOMAIN recovery /\ recovery # NoRecovery
          /\ DOMAIN recovery \subseteq Paths
        BY <1>10, WritesAreOurs DEF ApplyInv, TypeOK, RestoreTarget
    <2>2. op'.phase = "restore" /\ op'.failed = op.failed /\ op'.todo = op.todo \ {p}
        BY <1>0, <1>10 DEF RestoreTarget, Operations
    <2>3. UNCHANGED <<tracked, recovery, edits>>
        BY <1>10 DEF RestoreTarget
    <2>4. disk'[p] = recovery[p] /\ \A q \in Paths : q # p => disk'[q] = disk[q]
        BY <1>0, <1>10 DEF RestoreTarget
    <2> QED BY <2>1, <2>2, <2>3, <2>4 DEF RecordsLeadToDisk, Writing, Restoring
<1>11. CASE Restored
    <2>1. recovery # NoRecovery /\ DOMAIN recovery \subseteq Paths
        BY <1>11 DEF ApplyInv, JournalFirst, Restoring, Restored, TypeOK
    <2>2. UNCHANGED <<disk, tracked, edits>>
        BY <1>11 DEF Restored
    <2>3. op' # Idle => op'.phase = "plan"
        BY <1>0, <1>11 DEF Restored, End, Operations
    <2>4. \A p \in Paths : (RecordLeads(p))'
        <3>1. CASE op.failed
            BY <1>11, <2>2, <3>1
               DEF Restored, RestoredRecovery, RecordsLeadToDisk, RecordLeads
        <3>2. CASE ~op.failed
            BY <1>11, <2>1, <2>2, <3>2
               DEF Restored, RestoredRecovery, Restoring, RecordsLeadToDisk, RecordLeads
        <3> QED BY <3>1, <3>2
    <2> QED BY <2>3, <2>4 DEF RecordsLeadToDisk, RecordLeads, Writing, Restoring
<1>12. ASSUME op # Idle, UNCHANGED <<tracked, recovery, edits>>,
              NEW p \in op.todo, NEW c, disk' = [disk EXCEPT ![p] = c]
       PROVE  \A q \in Paths : (RecordLeads(q))'
    <2>1. p \in DOMAIN recovery /\ recovery # NoRecovery
        BY <1>12, WritesAreOurs
    <2>2. \A q \in Paths : q # p => disk'[q] = disk[q]
        BY <1>0, <1>12
    <2> QED BY <1>12, <2>1, <2>2 DEF RecordsLeadToDisk, RecordLeads
<1>13. ASSUME NEW p \in Paths, FileFails(p) PROVE RecordsLeadToDisk'
    <2>1. op # Idle /\ p \in op.todo /\ UNCHANGED <<tracked, recovery, edits>>
        BY <1>13 DEF FileFails
    <2>2. \A q \in Paths : (RecordLeads(q))'
        BY <1>12, <1>13, <2>1 DEF FileFails
    <2>3. CASE op.phase \in {"remove", "add"} /\ Restore
        <3>1. op'.phase = "restore" /\ op'.todo = DOMAIN recovery
            BY <1>0, <2>1, <2>3 DEF Restore, Operations
        <3> QED BY <2>1, <2>2, <3>1 DEF RecordsLeadToDisk, RecordLeads, Writing, Restoring
    <2>4. CASE op.phase = "restore" /\ op' = [op EXCEPT !.failed = TRUE, !.todo = @ \ {p}]
        <3>1. op'.phase = "restore" /\ op'.failed = TRUE
            BY <1>0, <2>1, <2>4 DEF Operations
        <3> QED BY <2>2, <3>1 DEF RecordsLeadToDisk, RecordLeads, Writing, Restoring
    <2> QED BY <1>13, <2>3, <2>4 DEF FileFails
<1>14. CASE Crash
    <2>1. op # Idle /\ op' = Idle /\ UNCHANGED <<tracked, recovery, edits>>
        BY <1>14 DEF Crash, End
    <2>2. CASE disk' = disk
        BY <1>1, <2>1, <2>2
    <2>3. CASE \E q \in op.todo : \E c \in CutOff(q) : disk' = [disk EXCEPT ![q] = c]
        <3>1. \A q \in Paths : (RecordLeads(q))'
            BY <1>12, <2>1, <2>3
        <3> QED BY <2>1, <3>1 DEF RecordsLeadToDisk, RecordLeads, Writing, Restoring
    <2> QED BY <1>14, <2>2, <2>3 DEF Crash
<1>15. CASE BeginAny
    BY <1>3, <1>15 DEF BeginAny
<1>16. CASE Operate
    <2>1. CASE Refused \/ Finish
        BY <1>1, <2>1 DEF Refused, Finish, End
    <2>2. CASE Cancel
        BY <1>2, <2>2 DEF Cancel, Writing
    <2>3. ASSUME NEW p \in Paths, AddFindsTargetTaken(p) PROVE RecordsLeadToDisk'
        BY <1>2, <2>3 DEF AddFindsTargetTaken, Writing
    <2> QED BY <1>4, <1>5, <1>6, <1>7, <1>8, <1>9, <1>10, <1>11, <1>16, <2>1, <2>2, <2>3, PlanCases
            DEF Operate
<1>17. CASE Fault
    <2>1. CASE CommitFails
        BY <1>2, <2>1 DEF CommitFails, Writing
    <2> QED BY <1>13, <1>14, <1>17, <2>1 DEF Fault
<1>18. CASE Person
    BY <1>0, <1>18 DEF Person, Edit
<1>19. CASE UNCHANGED vars
    BY <1>19 DEF vars, RecordsLeadToDisk, Writing, Restoring, ToAdd
<1> QED BY <1>15, <1>16, <1>17, <1>18, <1>19 DEF Next

\* An operation takes effect in the records and on disk, or in neither.
THEOREM RecordsFollowTheDisk == Spec => []RecordsMatchDisk
<1>1. Init => RecordsLeadToDisk
    BY DEF Init, RecordsLeadToDisk, Writing, Restoring
<1>2. ApplyInv /\ RecordsLeadToDisk /\ [Next]_vars => RecordsLeadToDisk'
    <2>1. ASSUME ApplyInv, RecordsLeadToDisk, [Next]_vars, edits' # 0 PROVE RecordsLeadToDisk'
        BY <2>1 DEF RecordsLeadToDisk
    <2> QED BY <2>1, RecordsPreserved
<1>3. RecordsLeadToDisk => RecordsMatchDisk
    BY DEF RecordsLeadToDisk, RecordsMatchDisk
<1> QED BY <1>1, <1>2, <1>3, ApplySafe, PTL DEF Spec

------------------------------------------------------------------------------
\* What an operation that writes has found of each target, when it was planned, and
\* decided for it; its row names what it writes to.
PlannedWell ==
    Writing =>
        /\ op.phase = "add" => op.todo \subseteq ToAdd
        /\ \A p \in Paths :
              p \in DOMAIN recovery <=> \/ op.act[p] \in {"add", "replace"}
                                        \/ op.act[p] = "remove" /\ before.disk[p] # NoSkill
        /\ \A p \in Paths :
              LET act == op.act[p]
                  found == before.disk[p]
              IN  /\ act \in {"none", "keep", "add", "remove", "replace"}
                  /\ act \in {"none", "remove"} <=> op.want[p] = NoSkill
                  /\ act = "none" => tracked[p] = NoSkill
                  /\ act = "keep" => found = op.want[p] /\ tracked[p] \in {NoSkill, found}
                  /\ act = "add" => found = NoSkill
                  /\ act \in {"remove", "replace"} => tracked[p] # NoSkill /\ found \in {NoSkill, tracked[p]}

\* How far an operation is with the targets it has to do no more, while the person
\* changes nothing.
DoneSoFar ==
    edits = before.edits =>
        /\ Writing => \A p \in Paths :
              /\ op.phase = "remove" /\ op.act[p] \in {"remove", "replace"} /\ p \notin op.todo =>
                    disk[p] = NoSkill
              /\ op.phase = "add" /\ op.act[p] = "remove" => disk[p] = NoSkill
              /\ op.phase = "add" /\ p \in ToAdd \ op.todo => disk[p] = op.want[p]
        /\ Restoring /\ ~op.failed => \A p \in DOMAIN recovery \ op.todo : disk[p] = recovery[p]

\* The disk that an operation in progress is restored to, or the one that is there.
Mark == IF recovery = NoRecovery THEN [disk |-> disk, edits |-> edits] ELSE before

\* What a row of the history says of the disk before its apply.
Sound(h) ==
    \A p \in Paths :
        /\ h.targets[p] # NoSkill => \/ h.before.disk[p] = h.targets[p]
                                     \/ p \in h.managed /\ h.before.disk[p] = NoSkill
        /\ h.targets[p] = NoSkill => p \notin h.managed

\* With these records on top of that apply, what it made appear is gone when it is undone;
\* and while the person changes nothing, the disk of the mark is the one that it left.
Over(h, records, mark) ==
    /\ \A p \in Paths :
          h.targets[p] = NoSkill /\ records[p] # NoSkill => h.before.disk[p] = NoSkill
    /\ mark.edits = h.before.edits =>
          \A p \in Paths : mark.disk[p] = IF records[p] # NoSkill THEN records[p]
                                          ELSE IF p \in h.managed THEN NoSkill
                                          ELSE h.before.disk[p]

OnTopOf(k, j) == j < k /\ \A m \in Live : ~ (j < m /\ m < k)

\* The applies that were not rolled back are a stack: each one was planned over what the
\* one below it had left.
StackInv ==
    /\ \A i \in DOMAIN history : Sound(history[i]) /\ history[i].before.edits <= Mark.edits
    /\ \A i, k \in DOMAIN history : i < k => history[i].before.edits <= history[k].before.edits
    /\ \A j, k \in Live : OnTopOf(k, j) =>
           Over(history[j], RecordsBefore(history[k]), history[k].before)
    /\ \A i \in Live : (\A k \in Live : k <= i) => Over(history[i], tracked, Mark)

------------------------------------------------------------------------------
LEMMA ActionDecides ==
    ASSUME TypeOK, NEW p \in Paths, NEW w \in Skills \cup {NoSkill}, Action(p, w) # "conflict"
    PROVE  /\ Action(p, w) \in {"none", "keep", "add", "remove", "replace"}
           /\ Action(p, w) \in {"none", "remove"} <=> w = NoSkill
           /\ Action(p, w) = "none" => tracked[p] = NoSkill
           /\ Action(p, w) = "keep" => disk[p] = w /\ tracked[p] \in {NoSkill, disk[p]}
           /\ Action(p, w) = "add" => disk[p] = NoSkill
           /\ Action(p, w) \in {"remove", "replace"} => tracked[p] # NoSkill /\ disk[p] \in {NoSkill, tracked[p]}
BY DesiredAssumption DEF TypeOK, Records, Action

\* A plan finds what it decides on, and has done nothing yet.
LEMMA PlannedIsPlanned ==
    ASSUME ApplyInv, Planned
    PROVE  PlannedWell' /\ DoneSoFar'
<1> DEFINE act == [p \in Paths |-> Action(p, Wanted[p])]
<1>0. op \in Operations /\ TypeOK
    BY DEF Planned, ApplyInv, TypeOK
<1>1. Wanted \in Records
    BY WantedIsRecords DEF ApplyInv, Planned
<1>2. /\ op'.phase = "remove" /\ op'.want = Wanted /\ op'.act = act
      /\ op'.todo = {p \in Paths : act[p] \in {"remove", "replace"} /\ Exists(p)}
      /\ before'.disk = disk /\ UNCHANGED <<disk, tracked>>
    BY <1>0 DEF Planned, Operations, Database
<1>3. DOMAIN recovery' = Written(act)
    BY RecoveryPlanIsRow DEF ApplyInv, Planned
<1>4. ASSUME NEW p \in Paths
      PROVE  /\ act[p] = Action(p, Wanted[p]) /\ Wanted[p] \in Skills \cup {NoSkill}
             /\ act[p] # "conflict"
    BY <1>1 DEF Records, Planned
<1>5. PlannedWell'
    <2>1. \A p \in Paths :
              p \in DOMAIN recovery' <=> \/ act[p] \in {"add", "replace"}
                                         \/ act[p] = "remove" /\ disk[p] # NoSkill
        BY <1>3 DEF Written, Exists
    <2> HIDE DEF act
    <2>2. ASSUME NEW p \in Paths
          PROVE  /\ act[p] \in {"none", "keep", "add", "remove", "replace"}
                 /\ act[p] \in {"none", "remove"} <=> Wanted[p] = NoSkill
                 /\ act[p] = "none" => tracked[p] = NoSkill
                 /\ act[p] = "keep" => disk[p] = Wanted[p] /\ tracked[p] \in {NoSkill, disk[p]}
                 /\ act[p] = "add" => disk[p] = NoSkill
                 /\ act[p] \in {"remove", "replace"} =>
                        tracked[p] # NoSkill /\ disk[p] \in {NoSkill, tracked[p]}
        BY <1>0, <1>4, ActionDecides
    <2> QED BY <1>2, <2>1, <2>2 DEF PlannedWell, Writing
<1>6. DoneSoFar'
    BY <1>2 DEF DoneSoFar, Writing, Restoring, Exists
<1> QED BY <1>5, <1>6

\* The other steps of an operation.
LEMMA FilesPreserved ==
    ASSUME ApplyInv, LeadsBack, PlannedWell, DoneSoFar, [Next]_vars
    PROVE  PlannedWell' /\ DoneSoFar'
<1> USE DEF Database
<1>0. /\ edits \in Nat /\ before.edits \in Nat /\ before.edits <= edits
      /\ op # Idle => op \in Operations
      /\ disk \in [Paths -> Contents \cup {Torn}]
    BY DEF ApplyInv, TypeOK, Marks, LeadsBack
<1>1. ASSUME op' = Idle PROVE PlannedWell' /\ DoneSoFar'
    BY <1>1 DEF PlannedWell, DoneSoFar, Writing, Restoring
<1>2. ASSUME Restore, Writing, UNCHANGED recovery PROVE PlannedWell' /\ DoneSoFar'
    <2>1. op'.phase = "restore" /\ op'.todo = DOMAIN recovery
        BY <1>0, <1>2 DEF Restore, Writing, Operations
    <2> QED BY <1>2, <2>1 DEF PlannedWell, DoneSoFar, Writing, Restoring
<1>3. ASSUME NEW k, NEW r, Begin(k, r) PROVE PlannedWell' /\ DoneSoFar'
    <2>1. /\ op'.phase \in {"plan", "restore"}
          /\ op'.phase = "restore" => op'.todo = DOMAIN recovery
          /\ recovery' = recovery
        BY <1>3 DEF Begin
    <2> QED BY <2>1 DEF PlannedWell, DoneSoFar, Writing, Restoring
<1>4. CASE StartAdding
    <2>1. /\ op # Idle /\ op.phase = "remove" /\ op.todo = {} /\ op \in Operations
          /\ op' = [op EXCEPT !.phase = "add", !.todo = ToAdd]
          /\ UNCHANGED <<disk, tracked, recovery, before, edits>>
        BY <1>0, <1>4 DEF StartAdding
    <2>2. op'.phase = "add" /\ op'.todo = ToAdd /\ op'.act = op.act /\ op'.want = op.want
        BY <2>1 DEF Operations
    <2>3. ToAdd' = ToAdd
        BY <2>2 DEF ToAdd
    <2>4. PlannedWell'
        BY <2>1, <2>2, <2>3 DEF PlannedWell, Writing
    <2>5. DoneSoFar'
        BY <2>1, <2>2, <2>3 DEF DoneSoFar, Writing, Restoring
    <2> QED BY <2>4, <2>5
<1>5. ASSUME NEW p \in Paths, Remove(p) PROVE PlannedWell' /\ DoneSoFar'
    <2>1. /\ op # Idle /\ op.phase = "remove" /\ op \in Operations
          /\ op' = [op EXCEPT !.todo = @ \ {p}]
          /\ UNCHANGED <<tracked, recovery, before, edits>>
        BY <1>0, <1>5 DEF Remove
    <2>2. op'.phase = "remove" /\ op'.todo = op.todo \ {p} /\ op'.act = op.act /\ op'.want = op.want
        BY <2>1 DEF Operations
    <2>3. disk'[p] = NoSkill /\ \A q \in Paths : q # p => disk'[q] = disk[q]
        BY <1>0, <1>5 DEF Remove
    <2>4. PlannedWell'
        BY <2>1, <2>2 DEF PlannedWell, Writing
    <2>5. DoneSoFar'
        BY <2>1, <2>2, <2>3 DEF DoneSoFar, Writing, Restoring
    <2> QED BY <2>4, <2>5
<1>6. ASSUME NEW p \in Paths, Add(p) PROVE PlannedWell' /\ DoneSoFar'
    <2>1. /\ op # Idle /\ op.phase = "add" /\ op \in Operations /\ p \in op.todo
          /\ op' = [op EXCEPT !.todo = @ \ {p}]
          /\ UNCHANGED <<tracked, recovery, before, edits>>
        BY <1>0, <1>6 DEF Add
    <2>2. op'.phase = "add" /\ op'.todo = op.todo \ {p} /\ op'.act = op.act /\ op'.want = op.want
        BY <2>1 DEF Operations
    <2>3. disk'[p] = op.want[p] /\ \A q \in Paths : q # p => disk'[q] = disk[q]
        BY <1>0, <1>6 DEF Add
    <2>4. ToAdd' = ToAdd /\ p \in ToAdd /\ op.act[p] # "remove"
        BY <2>1, <2>2 DEF ToAdd, PlannedWell, Writing
    <2>5. PlannedWell'
        BY <2>1, <2>2, <2>4 DEF PlannedWell, Writing
    <2>6. DoneSoFar'
        BY <2>1, <2>2, <2>3, <2>4 DEF DoneSoFar, Writing, Restoring, ToAdd
    <2> QED BY <2>5, <2>6
<1>7. ASSUME NEW p \in Paths, RestoreTarget(p) PROVE PlannedWell' /\ DoneSoFar'
    <2>1. /\ op # Idle /\ op.phase = "restore" /\ op \in Operations /\ p \in op.todo
          /\ op' = [op EXCEPT !.todo = @ \ {p}]
          /\ UNCHANGED <<tracked, recovery, before, edits>>
        BY <1>0, <1>7 DEF RestoreTarget
    <2>2. op'.phase = "restore" /\ op'.todo = op.todo \ {p} /\ op'.failed = op.failed
        BY <2>1 DEF Operations
    <2>3. disk'[p] = recovery[p] /\ \A q \in Paths : q # p => disk'[q] = disk[q]
        BY <1>0, <1>7 DEF RestoreTarget
    <2>4. DOMAIN recovery \subseteq Paths
        BY <2>1, WritesAreOurs DEF ApplyInv, TypeOK
    <2> QED BY <2>1, <2>2, <2>3, <2>4 DEF PlannedWell, DoneSoFar, Writing, Restoring
<1>8. CASE Restored
    <2>1. op' # Idle => op'.phase = "plan"
        BY <1>0, <1>8 DEF Restored, End, Operations
    <2> QED BY <2>1 DEF PlannedWell, DoneSoFar, Writing, Restoring
<1>9. ASSUME NEW p \in Paths, FileFails(p) PROVE PlannedWell' /\ DoneSoFar'
    <2>1. CASE op.phase \in {"remove", "add"} /\ Restore
        BY <1>2, <1>9, <2>1 DEF FileFails, Writing
    <2>2. CASE op.phase = "restore" /\ op' = [op EXCEPT !.failed = TRUE, !.todo = @ \ {p}]
        <3>1. op'.phase = "restore" /\ op'.failed = TRUE
            BY <1>0, <1>9, <2>2 DEF FileFails, Operations
        <3> QED BY <3>1 DEF PlannedWell, DoneSoFar, Writing, Restoring
    <2> QED BY <1>9, <2>1, <2>2 DEF FileFails
<1>10. ASSUME NEW p \in Paths, Edit(p) PROVE PlannedWell' /\ DoneSoFar'
    <2>1. edits' = edits + 1 /\ UNCHANGED <<tracked, recovery, op, before>>
        BY <1>10 DEF Edit
    <2>2. edits' # before'.edits
        BY <1>0, <2>1
    <2>3. PlannedWell'
        BY <2>1 DEF PlannedWell, Writing, ToAdd
    <2> QED BY <2>2, <2>3 DEF DoneSoFar
<1>11. CASE Operate
    <2>1. CASE Refused \/ Finish \/ CommitApply \/ CommitRollback
        BY <1>1, <2>1 DEF Refused, Finish, CommitApply, CommitRollback, End
    <2>2. CASE Cancel
        BY <1>2, <2>2 DEF Cancel, Writing
    <2>3. ASSUME NEW p \in Paths, AddFindsTargetTaken(p) PROVE PlannedWell' /\ DoneSoFar'
        BY <1>2, <2>3 DEF AddFindsTargetTaken, Writing
    <2> QED BY <1>4, <1>5, <1>6, <1>7, <1>8, <1>11, <2>1, <2>2, <2>3, PlanCases, PlannedIsPlanned
            DEF Operate
<1>12. CASE Fault
    <2>1. CASE CommitFails
        BY <1>2, <2>1 DEF CommitFails, Writing
    <2>2. CASE Crash
        BY <1>1, <2>2 DEF Crash, End
    <2> QED BY <1>9, <1>12, <2>1, <2>2 DEF Fault
<1>13. CASE UNCHANGED vars
    BY <1>13 DEF vars, PlannedWell, DoneSoFar, Writing, Restoring, ToAdd
<1>14. CASE BeginAny
    BY <1>3, <1>14 DEF BeginAny
<1> QED BY <1>10, <1>11, <1>12, <1>13, <1>14 DEF Next, Person

\* Outside the commits the mark only moves when the person changes something, and no
\* record changes.
LEMMA MarkMoves ==
    ASSUME ApplyInv, LeadsBack, DoneSoFar, [Next]_vars, ~CommitApply, ~CommitRollback
    PROVE  /\ history' = history /\ tracked' = tracked
           /\ Mark.edits <= Mark'.edits
           /\ Mark'.edits = Mark.edits => Mark'.disk = Mark.disk
<1> USE DEF Database
<1>0. /\ edits \in Nat /\ before.edits \in Nat /\ before.edits <= edits
      /\ op # Idle => op \in Operations
      /\ disk \in [Paths -> Contents \cup {Torn}]
      /\ before.disk \in [Paths -> Contents]
    BY DEF ApplyInv, TypeOK, Marks, LeadsBack
<1>1. ASSUME recovery = NoRecovery
      PROVE  op = Idle \/ (op.phase = "plan" /\ op.todo = {})
    BY <1>0, <1>1 DEF ApplyInv, JournalFirst, Writing, Restoring, Operations
<1>2. ASSUME UNCHANGED <<tracked, history, recovery, before>>,
             recovery = NoRecovery => disk' = disk, edits' = edits
      PROVE  /\ history' = history /\ tracked' = tracked
             /\ Mark.edits <= Mark'.edits
             /\ Mark'.edits = Mark.edits => Mark'.disk = Mark.disk
    BY <1>0, <1>2 DEF Mark
<1>3. ASSUME NEW p \in Paths, Edit(p)
      PROVE  /\ history' = history /\ tracked' = tracked
             /\ Mark.edits <= Mark'.edits
             /\ Mark'.edits = Mark.edits => Mark'.disk = Mark.disk
    BY <1>0, <1>3 DEF Edit, Mark
<1>4. ASSUME Planned
      PROVE  /\ history' = history /\ tracked' = tracked
             /\ Mark.edits <= Mark'.edits
             /\ Mark'.edits = Mark.edits => Mark'.disk = Mark.disk
    <2>1. recovery = NoRecovery
        BY <1>4 DEF Planned, ApplyInv, JournalFirst
    <2>2. recovery' # NoRecovery
        BY <1>4, RecoveryPlanIsRow DEF Planned, ApplyInv
    <2> QED BY <1>0, <1>4, <2>1, <2>2 DEF Planned, Mark
<1>5. ASSUME Restored
      PROVE  /\ history' = history /\ tracked' = tracked
             /\ Mark.edits <= Mark'.edits
             /\ Mark'.edits = Mark.edits => Mark'.disk = Mark.disk
    <2>1. UNCHANGED <<tracked, history, disk, before, edits>>
        BY <1>5 DEF Restored
    <2>2. Restoring /\ recovery # NoRecovery /\ op.todo = {}
        BY <1>5 DEF Restored, Restoring, ApplyInv, JournalFirst
    <2>3. CASE op.failed
        BY <1>2, <1>5, <2>1, <2>3 DEF Restored, RestoredRecovery
    <2>4. CASE ~op.failed
        <3>1. recovery' = NoRecovery
            BY <1>5, <2>4 DEF Restored, RestoredRecovery
        <3>2. ASSUME edits = before.edits PROVE disk = before.disk
            <4>1. \A p \in Paths : disk[p] = before.disk[p]
                BY <2>2, <2>4, <3>2 DEF DoneSoFar, LeadsBack, RecoveryLeadsBack
            <4> QED BY <1>0, <4>1
        <3> QED BY <1>0, <2>1, <2>2, <3>1, <3>2 DEF Mark
    <2> QED BY <2>3, <2>4
<1>6. CASE BeginAny
    BY <1>2, <1>6 DEF BeginAny, Begin
<1>7. CASE Operate
    <2>1. CASE Refused
        BY <1>2, <2>1 DEF Refused
    <2>2. CASE Finish
        BY <1>2, <2>2 DEF Finish
    <2>3. CASE StartAdding \/ Cancel
        BY <1>2, <2>3 DEF StartAdding, Cancel
    <2>4. ASSUME NEW p \in Paths, Remove(p) \/ Add(p) \/ AddFindsTargetTaken(p) \/ RestoreTarget(p)
          PROVE  /\ UNCHANGED <<tracked, history, recovery, before, edits>>
                 /\ recovery # NoRecovery
        BY <1>1, <2>4 DEF Remove, Add, AddFindsTargetTaken, RestoreTarget
    <2> QED BY <1>2, <1>4, <1>5, <1>7, <2>1, <2>2, <2>3, <2>4, PlanCases DEF Operate
<1>8. CASE Fault
    <2>1. CASE CommitFails
        BY <1>2, <2>1 DEF CommitFails
    <2>2. CASE Crash
        <3>1. UNCHANGED <<tracked, history, recovery, before, edits>>
            BY <2>2 DEF Crash
        <3>2. recovery = NoRecovery => disk' = disk
            BY <1>1, <2>2 DEF Crash
        <3> QED BY <1>2, <3>1, <3>2
    <2>3. ASSUME NEW p \in Paths, FileFails(p)
          PROVE  /\ UNCHANGED <<tracked, history, recovery, before, edits>>
                 /\ recovery # NoRecovery
        BY <1>1, <2>3 DEF FileFails
    <2> QED BY <1>2, <1>8, <2>1, <2>2, <2>3 DEF Fault
<1>9. CASE UNCHANGED vars
    BY <1>2, <1>9 DEF vars
<1> QED BY <1>3, <1>6, <1>7, <1>8, <1>9 DEF Next, Person

\* What stays on top of an apply when only the mark moves.
LEMMA OverKept ==
    ASSUME NEW h, NEW r, NEW m, NEW n, h.before.edits \in Nat, m.edits \in Nat, n.edits \in Nat,
           Over(h, r, m), h.before.edits <= m.edits, m.edits <= n.edits,
           n.edits = m.edits => n.disk = m.disk
    PROVE  Over(h, r, n)
BY DEF Over

LEMMA MarkIsNumbered ==
    ASSUME TypeOK PROVE Mark.edits \in Nat
BY DEF TypeOK, Mark, Marks

LEMMA AppliesAreApplies ==
    ASSUME TypeOK PROVE \A i \in DOMAIN history : history[i] \in Applies
BY DEF TypeOK

LEMMA StackKept ==
    ASSUME ApplyInv, LeadsBack, DoneSoFar, StackInv, [Next]_vars, ~CommitApply, ~CommitRollback
    PROVE  StackInv'
<1> DEFINE m == Mark
           n == Mark'
<1>1. /\ history' = history /\ tracked' = tracked
      /\ m.edits <= n.edits
      /\ n.edits = m.edits => n.disk = m.disk
    BY MarkMoves
<1>2. m.edits \in Nat /\ n.edits \in Nat
    BY TypePreserved, MarkIsNumbered DEF ApplyInv, TypeOK, Mark, Marks
<1>3. \A i \in DOMAIN history : history[i].before.edits \in Nat
    BY AppliesAreApplies DEF ApplyInv, Applies, Marks
<1>4. Live' = Live
    BY <1>1 DEF Live
<1>5. \A i \in Live : (\A k \in Live : k <= i) => Over(history[i], tracked, m)
    BY DEF StackInv
<1>6. \A i \in DOMAIN history : history[i].before.edits <= m.edits
    BY DEF StackInv
<1> HIDE DEF m, n
<1>7. \A i \in DOMAIN history : history[i].before.edits <= n.edits
    BY <1>1, <1>2, <1>3, <1>6
<1>8. ASSUME NEW i \in Live, \A k \in Live : k <= i PROVE Over(history[i], tracked, n)
    <2>1. i \in DOMAIN history
        BY DEF Live
    <2>2. Over(history[i], tracked, m)
        BY <1>5, <1>8
    <2> QED BY <1>1, <1>2, <1>3, <1>6, <2>1, <2>2, OverKept
<1>9. \A j, k \in Live : OnTopOf(k, j) =>
           Over(history[j], RecordsBefore(history[k]), history[k].before)
    BY DEF StackInv
<1>10. \A j, k : OnTopOf(k, j)' <=> OnTopOf(k, j)
    BY <1>4 DEF OnTopOf
<1>11. \A i \in DOMAIN history : Sound(history[i])
    BY DEF StackInv
<1>12. \A i, k \in DOMAIN history : i < k => history[i].before.edits <= history[k].before.edits
    BY DEF StackInv
<1> QED BY <1>1, <1>4, <1>7, <1>8, <1>9, <1>10, <1>11, <1>12 DEF StackInv, n

\* What an operation that may commit has made of a target.
LEMMA Outcome ==
    ASSUME ApplyInv, LeadsBack, PlannedWell, DoneSoFar, Writing, op.phase = "add", op.todo = {},
           edits = before.edits, NEW p \in Paths
    PROVE  disk[p] = IF op.want[p] # NoSkill THEN op.want[p]
                     ELSE IF op.act[p] = "remove" THEN NoSkill ELSE before.disk[p]
<1>1. op \in Operations /\ recovery # NoRecovery
    BY DEF ApplyInv, TypeOK, JournalFirst, Writing
<1>2. op.act[p] \in {"none", "keep", "add", "remove", "replace"}
    BY DEF PlannedWell
<1>3. CASE op.act[p] \in {"add", "replace"}
    BY <1>3 DEF PlannedWell, DoneSoFar, ToAdd
<1>4. CASE op.act[p] = "remove"
    BY <1>4 DEF PlannedWell, DoneSoFar
<1>5. CASE op.act[p] \in {"none", "keep"}
    <2>1. p \notin DOMAIN recovery
        BY <1>5 DEF PlannedWell
    <2>2. disk[p] = before.disk[p]
        BY <1>1, <2>1 DEF LeadsBack, RecoveryLeadsBack
    <2> QED BY <1>5, <2>2 DEF PlannedWell
<1> QED BY <1>2, <1>3, <1>4, <1>5

\* The row that an apply adds to the history.
NewRow == [targets |-> Snapshot(op.want, op.act),
           managed |-> {p \in Paths : tracked[p] # NoSkill},
           revision |-> applied, rolledBack |-> FALSE, before |-> before]

LEMMA NewRowIsSound ==
    ASSUME ApplyInv, LeadsBack, PlannedWell, DoneSoFar, Writing, op.phase = "add", op.todo = {}
    PROVE  /\ Sound(NewRow)
           /\ RecordsBefore(NewRow) = tracked
           /\ Over(NewRow, op.want, [disk |-> disk, edits |-> edits])
<1>0. tracked \in [Paths -> Skills \cup {NoSkill}]
    BY DEF ApplyInv, TypeOK, Records
<1>1. /\ NewRow.before = before
      /\ \A p \in Paths : p \in NewRow.managed <=> tracked[p] # NoSkill
      /\ \A p \in Paths : NewRow.targets[p] = IF tracked[p] = NoSkill /\ op.act[p] = "keep"
                                              THEN op.want[p] ELSE tracked[p]
    BY DEF NewRow, Snapshot
<1>2. \A p \in Paths :
          /\ op.act[p] \in {"none", "keep", "add", "remove", "replace"}
          /\ op.act[p] \in {"none", "remove"} <=> op.want[p] = NoSkill
          /\ op.act[p] = "none" => tracked[p] = NoSkill
          /\ op.act[p] = "keep" => /\ before.disk[p] = op.want[p]
                                   /\ tracked[p] \in {NoSkill, before.disk[p]}
          /\ op.act[p] = "add" => before.disk[p] = NoSkill
          /\ op.act[p] \in {"remove", "replace"} =>
                 tracked[p] # NoSkill /\ before.disk[p] \in {NoSkill, tracked[p]}
    BY DEF PlannedWell
<1>3. Sound(NewRow)
    BY <1>1, <1>2 DEF Sound
<1>4. RecordsBefore(NewRow) = tracked
    BY <1>0, <1>1 DEF RecordsBefore
<1>5. ASSUME NEW p \in Paths, NewRow.targets[p] = NoSkill, op.want[p] # NoSkill
      PROVE  NewRow.before.disk[p] = NoSkill
    BY <1>1, <1>2, <1>5
<1>6. ASSUME edits = before.edits, NEW p \in Paths
      PROVE  disk[p] = IF op.want[p] # NoSkill THEN op.want[p]
                       ELSE IF p \in NewRow.managed THEN NoSkill ELSE NewRow.before.disk[p]
    <2>1. disk[p] = IF op.want[p] # NoSkill THEN op.want[p]
                    ELSE IF op.act[p] = "remove" THEN NoSkill ELSE before.disk[p]
        BY <1>6, Outcome
    <2> QED BY <1>1, <1>2, <2>1
<1>7. Over(NewRow, op.want, [disk |-> disk, edits |-> edits])
    BY <1>1, <1>5, <1>6 DEF Over
<1> QED BY <1>3, <1>4, <1>7

LEMMA StackGrows ==
    ASSUME ApplyInv, LeadsBack, PlannedWell, DoneSoFar, StackInv, CommitApply
    PROVE  StackInv'
<1> DEFINE n == Len(history) + 1
           mark == [disk |-> disk, edits |-> edits]
<1>0. /\ Writing /\ op.phase = "add" /\ op.todo = {} /\ recovery # NoRecovery
      /\ Len(history) \in Nat /\ DOMAIN history = 1 .. Len(history)
      /\ edits \in Nat /\ before.edits \in Nat /\ before.edits <= edits
    BY DEF CommitApply, Writing, ApplyInv, JournalFirst, TypeOK, LeadsBack, Marks
<1>1. Mark = before /\ Mark' = mark
    BY <1>0 DEF Mark, CommitApply, CommittedRecovery
<1>2. PICK h : h = NewRow
    OBVIOUS
<1>3. Sound(h) /\ RecordsBefore(h) = tracked /\ Over(h, op.want, mark)
      /\ h.before = before /\ ~h.rolledBack
    BY <1>0, <1>2, NewRowIsSound DEF NewRow
<1>4. history' = Append(history, h) /\ tracked' = op.want
    BY <1>2 DEF CommitApply, NewRow
<1>5. /\ DOMAIN history' = 1 .. n
      /\ history'[n] = h
      /\ \A i \in DOMAIN history : history'[i] = history[i]
    BY <1>0, <1>4 DEF ApplyInv, TypeOK
<1>6. Live' = Live \cup {n} /\ Live \subseteq 1 .. Len(history)
    BY <1>0, <1>3, <1>5 DEF Live
<1>7. \A i \in DOMAIN history : /\ history[i].before.edits \in Nat
                                /\ history[i].before.edits <= before.edits
                                /\ Sound(history[i])
    <2>1. \A i \in DOMAIN history : history[i].before.edits \in Nat
        BY AppliesAreApplies DEF ApplyInv, Applies, Marks
    <2> QED BY <1>1, <2>1 DEF StackInv
<1> HIDE DEF mark, n
<1>8. mark.edits = edits
    BY DEF mark
<1>n. n = Len(history) + 1
    BY DEF n
<1>9. \A i \in DOMAIN history' : Sound(history'[i]) /\ history'[i].before.edits <= mark.edits
    BY <1>0, <1>3, <1>5, <1>7, <1>8, <1>n
<1>10. ASSUME NEW i \in DOMAIN history', NEW k \in DOMAIN history', i < k
       PROVE  history'[i].before.edits <= history'[k].before.edits
    <2>1. i \in DOMAIN history /\ history'[i] = history[i]
        BY <1>0, <1>5, <1>n, <1>10
    <2>2. CASE k = n
        BY <1>3, <1>5, <1>7, <2>1, <2>2
    <2>3. CASE k # n
        <3>1. k \in DOMAIN history /\ history'[k] = history[k]
            BY <1>0, <1>5, <1>n, <2>3
        <3> QED BY <1>10, <2>1, <3>1 DEF StackInv
    <2> QED BY <2>2, <2>3
<1>11. ASSUME NEW j \in Live', NEW k \in Live', OnTopOf(k, j)'
       PROVE  Over(history'[j], RecordsBefore(history'[k]), history'[k].before)
    <2>1. j < k /\ \A m \in Live' : ~ (j < m /\ m < k)
        BY <1>11 DEF OnTopOf
    <2>2. j \in Live /\ j \in DOMAIN history /\ history'[j] = history[j]
        BY <1>0, <1>5, <1>6, <1>n, <2>1
    <2>3. CASE k = n
        <3>1. \A m \in Live : m <= j
            BY <1>0, <1>6, <1>n, <2>1, <2>2, <2>3
        <3>2. Over(history[j], tracked, before)
            BY <1>1, <2>2, <3>1 DEF StackInv
        <3> QED BY <1>3, <1>5, <2>2, <2>3, <3>2
    <2>4. CASE k # n
        <3>1. k \in Live /\ k \in DOMAIN history /\ history'[k] = history[k]
            BY <1>0, <1>5, <1>6, <2>4
        <3>2. OnTopOf(k, j)
            BY <1>6, <2>1 DEF OnTopOf
        <3>3. Over(history[j], RecordsBefore(history[k]), history[k].before)
            BY <2>2, <3>1, <3>2 DEF StackInv
        <3> QED BY <2>2, <3>1, <3>3
    <2> QED BY <2>3, <2>4
<1>12. ASSUME NEW i \in Live', \A k \in Live' : k <= i PROVE Over(history'[i], tracked', mark)
    <2>0. n <= i
        BY <1>6, <1>12
    <2>1. i = n
        BY <1>0, <1>6, <1>n, <2>0
    <2>2. history'[i] = h
        BY <1>5, <2>1
    <2> QED BY <1>3, <1>4, <2>2 DEF Over
<1> QED BY <1>1, <1>9, <1>10, <1>11, <1>12 DEF StackInv

\* A rollback that may commit has given back the disk of before the apply it undoes.
LEMMA GivesBack ==
    ASSUME ApplyInv, LeadsBack, PlannedWell, DoneSoFar, StackInv, CommitRollback,
           edits = history[Latest].before.edits, NEW p \in Paths
    PROVE  \/ disk[p] = history[Latest].before.disk[p]
           \/ p \in history[Latest].managed /\ history[Latest].before.disk[p] = NoSkill
<1>1. PICK h : h = history[Latest]
    OBVIOUS
<1>2. /\ Writing /\ op.phase = "add" /\ op.todo = {} /\ recovery # NoRecovery
      /\ op.kind = "rollback"
      /\ edits \in Nat /\ before.edits \in Nat /\ before.edits <= edits
    BY DEF CommitRollback, Writing, ApplyInv, JournalFirst, TypeOK, LeadsBack, Marks
<1>3. Latest \in Live /\ (\A k \in Live : k <= Latest) /\ Latest \in DOMAIN history
      /\ op.want = h.targets
    BY <1>1, <1>2, LatestIsLive DEF ApplyInv, RollbackTargets, Live
<1>4. Sound(h) /\ Over(h, tracked, before) /\ h.before.edits <= before.edits
    BY <1>1, <1>2, <1>3 DEF StackInv, Mark
<1>5. edits = before.edits /\ before.edits = h.before.edits
    BY <1>1, <1>2, <1>4
<1>6. disk[p] = IF op.want[p] # NoSkill THEN op.want[p]
                ELSE IF op.act[p] = "remove" THEN NoSkill ELSE before.disk[p]
    BY <1>2, <1>5, Outcome
<1>7. /\ op.act[p] \in {"none", "keep", "add", "remove", "replace"}
      /\ op.act[p] \in {"none", "remove"} <=> op.want[p] = NoSkill
      /\ op.act[p] = "none" => tracked[p] = NoSkill
      /\ op.act[p] = "remove" => tracked[p] # NoSkill
    BY <1>2 DEF PlannedWell
<1>8. /\ h.targets[p] # NoSkill => \/ h.before.disk[p] = h.targets[p]
                                   \/ p \in h.managed /\ h.before.disk[p] = NoSkill
      /\ h.targets[p] = NoSkill => p \notin h.managed
    BY <1>4 DEF Sound
<1>9. /\ h.targets[p] = NoSkill /\ tracked[p] # NoSkill => h.before.disk[p] = NoSkill
      /\ before.disk[p] = IF tracked[p] # NoSkill THEN tracked[p]
                          ELSE IF p \in h.managed THEN NoSkill ELSE h.before.disk[p]
    BY <1>4, <1>5 DEF Over
<1>10. \/ disk[p] = h.before.disk[p]
       \/ p \in h.managed /\ h.before.disk[p] = NoSkill
    BY <1>3, <1>6, <1>7, <1>8, <1>9
<1> QED BY <1>1, <1>10

LEMMA StackShrinks ==
    ASSUME ApplyInv, LeadsBack, PlannedWell, DoneSoFar, StackInv, CommitRollback
    PROVE  StackInv'
<1> DEFINE mark == [disk |-> disk, edits |-> edits]
<1>1. PICK l : l = Latest
    OBVIOUS
<1>2. PICK h : h = history[l]
    OBVIOUS
<1>3. /\ Writing /\ op.phase = "add" /\ op.todo = {} /\ recovery # NoRecovery
      /\ op.kind = "rollback"
      /\ edits \in Nat /\ before.edits \in Nat /\ before.edits <= edits
    BY DEF CommitRollback, Writing, ApplyInv, JournalFirst, TypeOK, LeadsBack, Marks
<1>4. l \in Live /\ (\A k \in Live : k <= l) /\ l \in DOMAIN history
      /\ DOMAIN history \subseteq Nat
    BY <1>1, <1>3, LatestIsLive DEF ApplyInv, RollbackTargets, Live, TypeOK
<1>5. Mark = before /\ Mark' = mark
    BY <1>3 DEF Mark, CommitRollback, CommittedRecovery
<1>6. \A i \in DOMAIN history : history[i] \in Applies
    BY AppliesAreApplies DEF ApplyInv
<1>7. /\ DOMAIN history' = DOMAIN history
      /\ \A i \in DOMAIN history : i # l => history'[i] = history[i]
      /\ history'[l] = [history[l] EXCEPT !.rolledBack = TRUE]
    BY <1>1, <1>4 DEF CommitRollback, ApplyInv, TypeOK
<1>8. /\ history'[l].rolledBack /\ history'[l].before = h.before
      /\ history'[l].targets = h.targets /\ history'[l].managed = h.managed
    BY <1>2, <1>4, <1>6, <1>7 DEF Applies
<1>9. Live' = Live \ {l} /\ Live \subseteq DOMAIN history
    BY <1>4, <1>7, <1>8 DEF Live
<1>10. tracked' = RecordsBefore(h)
    BY <1>1, <1>2 DEF CommitRollback, RecordsBefore
<1>11. \A i \in DOMAIN history : /\ history[i].before.edits \in Nat
                                 /\ history[i].before.edits <= before.edits
                                 /\ Sound(history[i])
    BY <1>5, <1>6 DEF StackInv, Applies, Marks
<1> HIDE DEF mark
<1>12. mark.edits = edits /\ mark.disk = disk
    BY DEF mark
<1>13. \A i \in DOMAIN history' : history'[i].before = history[i].before
    BY <1>2, <1>7, <1>8
<1>14. \A i \in DOMAIN history' : history'[i].before.edits <= mark.edits
    BY <1>3, <1>7, <1>11, <1>12, <1>13
<1>15. \A i \in DOMAIN history' : Sound(history'[i])
    <2>1. Sound(history'[l])
        <3>1. Sound(h)
            BY <1>2, <1>4, <1>11
        <3> QED BY <1>8, <3>1 DEF Sound
    <2> QED BY <1>7, <1>11, <2>1
<1>16. \A i, k \in DOMAIN history' : i < k => history'[i].before.edits <= history'[k].before.edits
    BY <1>7, <1>13 DEF StackInv
<1>17. ASSUME NEW j \in Live', NEW k \in Live', OnTopOf(k, j)'
       PROVE  Over(history'[j], RecordsBefore(history'[k]), history'[k].before)
    <2>1. /\ j \in Live /\ k \in Live /\ k <= l
          /\ history'[j] = history[j] /\ history'[k] = history[k]
        BY <1>4, <1>7, <1>9
    <2>2. j < k /\ \A m \in Live \ {l} : ~ (j < m /\ m < k)
        BY <1>9, <1>17 DEF OnTopOf
    <2>3. OnTopOf(k, j)
        BY <1>4, <1>9, <2>1, <2>2 DEF OnTopOf
    <2>4. Over(history[j], RecordsBefore(history[k]), history[k].before)
        BY <2>1, <2>3 DEF StackInv
    <2> QED BY <2>1, <2>4
<1>18. ASSUME NEW j \in Live', \A k \in Live' : k <= j PROVE Over(history'[j], tracked', mark)
    <2>1. j \in Live /\ j # l /\ j < l /\ j \in DOMAIN history /\ history'[j] = history[j]
        BY <1>4, <1>7, <1>9
    <2>2. PICK g : g = history[j]
        OBVIOUS
    <2>3. OnTopOf(l, j)
        BY <1>4, <1>9, <1>18, <2>1 DEF OnTopOf
    <2>4. Over(g, RecordsBefore(h), h.before) /\ g.before.edits <= h.before.edits
        BY <1>2, <1>4, <2>1, <2>2, <2>3 DEF StackInv
    <2>5. ASSUME mark.edits = g.before.edits, NEW p \in Paths
          PROVE  mark.disk[p] = h.before.disk[p] /\ edits = h.before.edits
        <3>1. /\ g.before.edits \in Nat /\ h.before.edits \in Nat /\ h.before.edits <= before.edits
            BY <1>2, <1>4, <1>11, <2>1, <2>2
        <3>2. edits = h.before.edits /\ h.before.edits = g.before.edits
            BY <1>3, <1>12, <2>4, <2>5, <3>1
        <3>3. \/ disk[p] = h.before.disk[p]
              \/ p \in h.managed /\ h.before.disk[p] = NoSkill
            BY <1>1, <1>2, <3>2, GivesBack
        <3>4. ASSUME p \in h.managed PROVE h.before.disk[p] # NoSkill
            <4>1. h.targets[p] # NoSkill
                BY <1>2, <1>4, <1>11, <3>4 DEF Sound
            <4>2. RecordsBefore(h)[p] = h.targets[p]
                BY <3>4 DEF RecordsBefore
            <4> QED BY <2>4, <3>2, <4>1, <4>2 DEF Over
        <3> QED BY <1>12, <3>2, <3>3, <3>4
    <2>6. PICK r : r = RecordsBefore(h)
        OBVIOUS
    <2>7. Over(g, r, mark)
        BY <2>4, <2>5, <2>6, <1>12 DEF Over
    <2> QED BY <1>10, <2>1, <2>2, <2>6, <2>7
<1> QED BY <1>5, <1>14, <1>15, <1>16, <1>17, <1>18 DEF StackInv

\* What undoing an apply needs to know of the checkout, the row and the history.
UndoInv == LeadsBack /\ PlannedWell /\ DoneSoFar /\ StackInv

LEMMA UndoPreserved ==
    ASSUME ApplyInv, UndoInv, [Next]_vars PROVE UndoInv'
BY LeadsBackPreserved, FilesPreserved, StackKept, StackGrows, StackShrinks DEF UndoInv

LEMMA InitUndo ==
    ASSUME Init PROVE UndoInv
<1>1. op = Idle /\ history = <<>> /\ edits = 0 /\ before.edits = 0 /\ recovery = NoRecovery
    BY DEF Init
<1>2. Live = {}
    BY <1>1 DEF Live
<1> QED BY <1>1, <1>2
        DEF UndoInv, LeadsBack, RecoveryLeadsBack, PlannedWell, DoneSoFar, Writing, Restoring, StackInv

\* The step that marks an apply as rolled back.
LEMMA RolledBackByCommit ==
    ASSUME ApplyInv, [Next]_vars, NEW i \in DOMAIN history,
           ~history[i].rolledBack, history'[i].rolledBack
    PROVE  CommitRollback /\ i = Latest
<1>1. history \in Seq(Applies) /\ i \in 1 .. Len(history) /\ Len(history) \in Nat
    BY DEF ApplyInv, TypeOK
<1>2. CASE CommitApply
    <2>1. PICK h : history' = Append(history, h)
        BY <1>2 DEF CommitApply
    <2>2. history'[i] = history[i]
        BY <1>1, <2>1
    <2> QED BY <2>2
<1>3. CASE CommitRollback
    <2>1. i # Latest => history'[i] = history[i]
        BY <1>1, <1>3 DEF CommitRollback
    <2> QED BY <1>3, <2>1
<1> QED BY <1>2, <1>3, HistoryChanges

LEMMA UndoneByStep ==
    ASSUME ApplyInv, UndoInv, [Next]_vars, NEW i \in DOMAIN history,
           ~history[i].rolledBack, history'[i].rolledBack, edits = history[i].before.edits
    PROVE  /\ \A p \in Paths :
                  \/ disk'[p] = history[i].before.disk[p]
                  \/ p \in history[i].managed /\ history[i].before.disk[p] = NoSkill
           /\ applied' = history[i].revision
<1>1. CommitRollback /\ i = Latest
    BY RolledBackByCommit
<1>2. disk' = disk /\ applied' = history[i].revision
    BY <1>1 DEF CommitRollback
<1> QED BY <1>1, <1>2, GivesBack DEF UndoInv

\* A rollback gives back the disk and the revision of before the apply it undoes, if the
\* person changed nothing since (rollback_checked), however many applies are below it.
THEOREM RollbackGivesBack == Spec => RollbackUndoes
<1>1. ApplyInv /\ UndoInv /\ [Next]_vars => UndoInv'
    BY UndoPreserved
<1>2. ApplyInv /\ UndoInv /\ [Next]_vars =>
          [\A i \in DOMAIN history :
              /\ ~history[i].rolledBack /\ history'[i].rolledBack
              /\ edits = history[i].before.edits
              => /\ \A p \in Paths :
                       \/ disk'[p] = history[i].before.disk[p]
                       \/ p \in history[i].managed /\ history[i].before.disk[p] = NoSkill
                 /\ applied' = history[i].revision]_vars
    BY UndoneByStep
<1> QED BY <1>1, <1>2, InitUndo, ApplySafe, PTL DEF Spec, RollbackUndoes

------------------------------------------------------------------------------
\* An apply that writes puts what its revision wants.
ApplyTargets ==
    Writing /\ op.kind = "apply" => op.want = Desired[op.revision]

LEMMA ApplyTargetsPreserved ==
    ASSUME ApplyInv, ApplyTargets, [Next]_vars PROVE ApplyTargets'
<1>0. op # Idle => op \in Operations
    BY DEF ApplyInv, TypeOK
<1>1. CASE Planned
    <2>1. op'.kind = op.kind /\ op'.revision = op.revision /\ op'.want = Wanted
        BY <1>0, <1>1 DEF Planned, Operations
    <2> QED BY <2>1 DEF ApplyTargets, Wanted
<1>2. ASSUME op # Idle,
             \/ op' = [op EXCEPT !.phase = "add", !.todo = ToAdd] /\ op.phase = "remove"
             \/ \E p : op' = [op EXCEPT !.todo = @ \ {p}]
             \/ \E p : op' = [op EXCEPT !.failed = TRUE, !.todo = @ \ {p}]
      PROVE  ApplyTargets'
    <2>1. /\ op'.kind = op.kind /\ op'.revision = op.revision /\ op'.want = op.want
          /\ op'.phase \in {"remove", "add"} => op.phase \in {"remove", "add"}
        BY <1>0, <1>2 DEF Operations
    <2> QED BY <1>2, <2>1 DEF ApplyTargets, Writing
<1>3. ASSUME op' = Idle \/ op'.phase \in {"plan", "restore"} PROVE ApplyTargets'
    BY <1>3 DEF ApplyTargets, Writing
<1>4. Restore /\ op # Idle => op'.phase = "restore"
    BY <1>0 DEF Restore, Operations
<1>5. CASE BeginAny
    BY <1>3, <1>5 DEF BeginAny, Begin
<1>6. CASE Restored
    BY <1>0, <1>3, <1>6 DEF Restored, End, Operations
<1>7. CASE op' = op
    BY <1>7 DEF ApplyTargets, Writing
<1>8. CASE Operate
    <2>1. CASE Refused \/ Finish \/ CommitApply \/ CommitRollback
        BY <1>3, <2>1 DEF Refused, Finish, CommitApply, CommitRollback, End
    <2>2. CASE StartAdding
        BY <1>2, <2>2 DEF StartAdding
    <2>3. CASE Cancel
        BY <1>3, <1>4, <2>3 DEF Cancel
    <2>4. ASSUME NEW p \in Paths, Remove(p) \/ Add(p) \/ RestoreTarget(p) PROVE ApplyTargets'
        BY <1>2, <2>4 DEF Remove, Add, RestoreTarget
    <2>5. ASSUME NEW p \in Paths, AddFindsTargetTaken(p) PROVE ApplyTargets'
        BY <1>3, <1>4, <2>5 DEF AddFindsTargetTaken
    <2> QED BY <1>1, <1>6, <1>8, <2>1, <2>2, <2>3, <2>4, <2>5, PlanCases DEF Operate
<1>9. CASE Fault
    <2>1. CASE CommitFails
        BY <1>3, <1>4, <2>1 DEF CommitFails
    <2>2. CASE Crash
        BY <1>3, <2>2 DEF Crash, End
    <2>3. ASSUME NEW p \in Paths, FileFails(p) PROVE ApplyTargets'
        BY <1>2, <1>3, <1>4, <2>3 DEF FileFails
    <2> QED BY <1>9, <2>1, <2>2, <2>3 DEF Fault
<1>10. ASSUME NEW p \in Paths, Edit(p) PROVE ApplyTargets'
    BY <1>7, <1>10 DEF Edit
<1> QED BY <1>5, <1>7, <1>8, <1>9, <1>10 DEF Next, Person, vars

------------------------------------------------------------------------------
\* What is in effect is whole, and shows the person's content that the row does not name.
LEMMA InEffectIsWhole ==
    ASSUME ApplyInv
    PROVE  /\ InEffect \in Atomic!Whole
           /\ \A p \in Paths : InEffect[p] = IF recovery # NoRecovery /\ p \in DOMAIN recovery
                                             THEN recovery[p] ELSE disk[p]
           /\ \A p \in Paths : InEffect[p] = Foreign => disk[p] = Foreign
<1>1. \A p \in Paths : InEffect[p] = IF recovery # NoRecovery /\ p \in DOMAIN recovery
                                     THEN recovery[p] ELSE disk[p]
    BY DEF InEffect
<1>2. ASSUME NEW p \in Paths, recovery # NoRecovery, p \in DOMAIN recovery
      PROVE  recovery[p] \in Skills \cup {NoSkill} /\ recovery[p] # Foreign
    BY <1>2, DesiredAssumption DEF ApplyInv, TypeOK
<1>3. ASSUME NEW p \in Paths, ~(recovery # NoRecovery /\ p \in DOMAIN recovery)
      PROVE  disk[p] \in Skills \cup {NoSkill, Foreign}
    BY <1>3 DEF ApplyInv, TypeOK, TornIsRecoverable, Contents
<1>4. \A p \in Paths : InEffect[p] \in Skills \cup {NoSkill, Foreign}
    BY <1>1, <1>2, <1>3
<1> QED BY <1>1, <1>2, <1>4 DEF InEffect, Atomic!Whole

\* While the person does not interfere, what is in effect is what the operation found.
LEMMA InEffectWasFound ==
    ASSUME ApplyInv, LeadsBack, recovery # NoRecovery, edits = before.edits
    PROVE  InEffect = before.disk
<1>1. before.disk \in [Paths -> Contents]
    BY DEF ApplyInv, TypeOK, Marks
<1>2. \A p \in Paths : InEffect[p] = before.disk[p]
    BY InEffectIsWhole DEF LeadsBack, RecoveryLeadsBack
<1> QED BY <1>1, <1>2 DEF InEffect

\* Steps that only write to targets of the row do not show.
LEMMA DoesNotShow ==
    ASSUME UNCHANGED <<tracked, assigned, applied, history, recovery, before, edits>>,
           \A p \in Paths : disk'[p] = disk[p] \/ (recovery # NoRecovery /\ p \in DOMAIN recovery)
    PROVE  UNCHANGED Atomic!promised
<1>1. InEffect' = InEffect
    BY DEF InEffect
<1>2. Found' = Found /\ RolledBack' = RolledBack
    BY DEF Found, RecordsBefore, RolledBack, Live
<1>3. Interfered' = Interfered
    BY DEF Interfered
<1> QED BY <1>1, <1>2, <1>3 DEF Atomic!promised

\* A plan is made of what is in effect.
LEMMA PlanDoesNotShow ==
    ASSUME ApplyInv, Planned PROVE UNCHANGED Atomic!promised
<1>1. /\ recovery = NoRecovery /\ recovery' # NoRecovery /\ disk' = disk
      /\ \A p \in DOMAIN recovery' : recovery'[p] = disk[p]
      /\ UNCHANGED <<tracked, assigned, applied, history, edits>> /\ before'.edits = edits
    BY RowIsWhatIsThere DEF Planned, Database
<1>2. InEffect' = InEffect
    BY <1>1 DEF InEffect
<1>3. Found' = Found /\ RolledBack' = RolledBack
    BY <1>1 DEF Found, RecordsBefore, RolledBack, Live
<1>4. Interfered' = Interfered
    BY <1>1 DEF Interfered
<1> QED BY <1>1, <1>2, <1>3, <1>4 DEF Atomic!promised

\* A row goes away when all it names is back.
LEMMA RestoredShows ==
    ASSUME ApplyInv, LeadsBack, DoneSoFar, Restored
    PROVE  Atomic!TakeBack \/ UNCHANGED Atomic!promised
<1>1. UNCHANGED <<disk, tracked, assigned, applied, history, before, edits>>
    BY DEF Restored, Database
<1>2. Restoring /\ recovery # NoRecovery /\ op.todo = {}
    BY DEF Restored, Restoring, ApplyInv, JournalFirst
<1>3. CASE op.failed
    BY <1>1, <1>3, DoesNotShow DEF Restored, RestoredRecovery
<1>4. CASE ~op.failed
    <2>1. recovery' = NoRecovery
        BY <1>4 DEF Restored, RestoredRecovery
    <2>2. disk \in [Paths -> Contents \cup {Torn}] /\ \A p \in Paths : disk[p] # Torn
        BY <1>2, <1>4 DEF ApplyInv, TypeOK, JournalFirst
    <2>3. disk \in Atomic!Whole
        BY <2>2 DEF Atomic!Whole, Contents
    <2>4. InEffect' = [p \in Paths |-> disk[p]]
        BY <1>1, <2>1 DEF InEffect
    <2>5. InEffect' = disk
        BY <2>2, <2>4
    <2>6. Found' = Found /\ RolledBack' = RolledBack
        BY <1>1 DEF Found, RecordsBefore, RolledBack, Live
    <2>7. ~Interfered'
        BY <2>1 DEF Interfered
    <2>8. CASE edits = before.edits
        <3>1. \A p \in Paths : disk[p] = before.disk[p]
            BY <1>2, <1>4, <2>8 DEF DoneSoFar, LeadsBack, RecoveryLeadsBack
        <3>2. disk = before.disk
            BY <2>2, <3>1 DEF ApplyInv, TypeOK, Marks
        <3>3. InEffect' = InEffect
            BY <1>2, <2>5, <2>8, <3>2, InEffectWasFound
        <3>4. Interfered' = Interfered
            BY <2>1, <2>8 DEF Interfered
        <3> QED BY <1>1, <2>6, <3>3, <3>4 DEF Atomic!promised
    <2>9. CASE edits # before.edits
        <3>1. Interfered
            BY <1>2, <2>9 DEF Interfered
        <3>2. Atomic!PersonsStays
            BY <2>5, InEffectIsWhole DEF Atomic!PersonsStays
        <3> QED BY <1>1, <2>3, <2>5, <2>6, <2>7, <3>1, <3>2 DEF Atomic!TakeBack
    <2> QED BY <2>8, <2>9
<1> QED BY <1>3, <1>4

\* The person's edit shows, unless the row names the target.
LEMMA EditShows ==
    ASSUME ApplyInv, LeadsBack, NEW p \in Paths, Edit(p)
    PROVE  Atomic!Person
<1>1. /\ UNCHANGED <<tracked, assigned, applied, history, recovery, before>> /\ edits' = edits + 1
      /\ before.edits <= edits /\ before.edits \in Nat /\ edits \in Nat
    BY DEF Edit, Database, LeadsBack, ApplyInv, TypeOK, Marks
<1>2. PICK c \in Contents : disk' = [disk EXCEPT ![p] = c]
    BY DEF Edit
<1>3. disk \in [Paths -> Contents \cup {Torn}] /\ c \in Skills \cup {NoSkill, Foreign}
    BY DEF ApplyInv, TypeOK, Contents
<1>4. Found' = Found /\ RolledBack' = RolledBack
    BY <1>1 DEF Found, RecordsBefore, RolledBack, Live
<1>5. CASE recovery # NoRecovery /\ p \in DOMAIN recovery
    <2>1. InEffect' = InEffect
        BY <1>1, <1>2, <1>3, <1>5 DEF InEffect
    <2>2. Interfered' = TRUE
        BY <1>1, <1>5 DEF Interfered
    <2> QED BY <1>1, <1>4, <2>1, <2>2 DEF Atomic!Person
<1>6. CASE ~(recovery # NoRecovery /\ p \in DOMAIN recovery)
    <2>1. InEffect' = [InEffect EXCEPT ![p] = c]
        BY <1>1, <1>2, <1>3, <1>6 DEF InEffect
    <2>2. Interfered' \in BOOLEAN
        BY DEF Interfered
    <2>3. Interfered => Interfered'
        BY <1>1, <1>6 DEF Interfered
    <2> QED BY <1>1, <1>3, <1>4, <2>1, <2>2, <2>3 DEF Atomic!Person
<1> QED BY <1>5, <1>6

\* An operation that commits has changed what is in effect as a whole.
LEMMA CommitShows ==
    ASSUME ApplyInv, UndoInv, Writing, op.phase = "add", op.todo = {},
           disk' = disk, recovery' = NoRecovery
    PROVE  Atomic!Change(op.want) /\ InEffect' = disk /\ (~Interfered => InEffect = before.disk)
<1>1. recovery # NoRecovery /\ \A p \in Paths : disk[p] # Torn
    BY DEF ApplyInv, JournalFirst
<1>2. disk \in [Paths -> Contents \cup {Torn}] /\ op \in Operations
    BY DEF ApplyInv, TypeOK, Writing
<1>3. disk \in Atomic!Whole
    BY <1>1, <1>2 DEF Atomic!Whole, Contents
<1>4. InEffect' = disk
    <2>1. InEffect' = [p \in Paths |-> disk[p]]
        BY DEF InEffect
    <2> QED BY <1>2, <2>1
<1>5. Interfered' = FALSE
    BY DEF Interfered
<1>6. Atomic!PersonsStays
    BY <1>4, InEffectIsWhole DEF Atomic!PersonsStays
<1>7. ~Interfered => edits = before.edits
    BY <1>1 DEF Interfered
<1>8. ~Interfered => InEffect = before.disk
    BY <1>1, <1>7, InEffectWasFound DEF UndoInv
<1>9. ASSUME ~Interfered, NEW p \in Paths
      PROVE  /\ IF tracked[p] # NoSkill THEN before.disk[p] \in {NoSkill, tracked[p]}
                ELSE op.want[p] # NoSkill => before.disk[p] \in {NoSkill, op.want[p]}
             /\ disk[p] = IF op.want[p] # NoSkill THEN op.want[p]
                          ELSE IF tracked[p] # NoSkill THEN NoSkill ELSE before.disk[p]
    <2>1. /\ op.act[p] \in {"none", "keep", "add", "remove", "replace"}
          /\ op.act[p] \in {"none", "remove"} <=> op.want[p] = NoSkill
          /\ op.act[p] = "none" => tracked[p] = NoSkill
          /\ op.act[p] = "keep" => before.disk[p] = op.want[p] /\ tracked[p] \in {NoSkill, before.disk[p]}
          /\ op.act[p] = "add" => before.disk[p] = NoSkill
          /\ op.act[p] \in {"remove", "replace"} =>
                 tracked[p] # NoSkill /\ before.disk[p] \in {NoSkill, tracked[p]}
        BY DEF UndoInv, PlannedWell
    <2>2. disk[p] = IF op.want[p] # NoSkill THEN op.want[p]
                    ELSE IF op.act[p] = "remove" THEN NoSkill ELSE before.disk[p]
        BY <1>7, <1>9, Outcome DEF UndoInv
    <2> QED BY <2>1, <2>2
<1>10. ASSUME ~Interfered PROVE Atomic!Fits(op.want) /\ InEffect' = Atomic!Result(op.want)
    <2>1. Atomic!Fits(op.want)
        BY <1>8, <1>9, <1>10 DEF Atomic!Fits
    <2>2. Atomic!Result(op.want) = [p \in Paths |-> disk[p]]
        BY <1>8, <1>9, <1>10 DEF Atomic!Result
    <2> QED BY <1>2, <1>4, <2>1, <2>2
<1> QED BY <1>3, <1>4, <1>5, <1>6, <1>8, <1>10 DEF Atomic!Change

\* The commit of an apply is the whole apply.
LEMMA ApplyShows ==
    ASSUME ApplyInv, UndoInv, ApplyTargets, CommitApply
    PROVE  op.revision \in Revisions /\ Atomic!Apply(op.revision)
<1>1. /\ Writing /\ op.phase = "add" /\ op.todo = {} /\ disk' = disk /\ recovery' = NoRecovery
      /\ recovery # NoRecovery /\ edits' = edits /\ op.kind = "apply"
    BY DEF CommitApply, CommittedRecovery, Writing, ApplyInv, JournalFirst
<1>2. op.revision \in Revisions /\ op.want = Desired[op.revision]
    BY <1>1 DEF CommitApply, ApplyTargets, ApplyInv, TypeOK
<1>3. Atomic!Change(op.want) /\ (~Interfered => InEffect = before.disk)
    BY <1>1, CommitShows
<1>4. tracked' = op.want /\ assigned' = op.revision /\ applied' = op.revision
    BY DEF CommitApply
<1>5. /\ before.disk \in Atomic!Whole /\ before.edits \in 0 .. edits
      /\ ~Interfered => before.edits = edits
    <2>1. before.disk \in [Paths -> Contents] /\ before.edits \in Nat /\ edits \in Nat
        BY DEF ApplyInv, TypeOK, Marks
    <2> QED BY <1>1, <2>1 DEF UndoInv, LeadsBack, Interfered, Atomic!Whole, Contents
<1> DEFINE entry == [content |-> before.disk, records |-> tracked, revision |-> applied,
                     edits |-> before.edits]
<1>6. Found' = Append(Found, entry)
    <2>1. PICK h : h = NewRow
        OBVIOUS
    <2>2. /\ history' = Append(history, h) /\ RecordsBefore(h) = tracked
          /\ h.before = before /\ h.revision = applied /\ h.rolledBack = FALSE
        BY <1>1, <2>1, NewRowIsSound DEF CommitApply, NewRow, UndoInv
    <2>3. history \in Seq(Applies) /\ Len(history) \in Nat /\ DOMAIN history = 1 .. Len(history)
        BY DEF ApplyInv, TypeOK
    <2>4. /\ DOMAIN history' = 1 .. Len(history) + 1
          /\ history'[Len(history) + 1] = h
          /\ \A i \in 1 .. Len(history) : history'[i] = history[i]
        BY <2>2, <2>3
    <2>5. DOMAIN Found = 1 .. Len(history) /\ Len(Found) = Len(history)
        BY <2>3 DEF Found
    <2>6. ASSUME NEW i \in 1 .. Len(history) + 1
          PROVE  Found'[i] = IF i = Len(history) + 1 THEN entry ELSE Found[i]
        <3>1. Found'[i] = [content |-> history'[i].before.disk, records |-> RecordsBefore(history'[i]),
                           revision |-> history'[i].revision, edits |-> history'[i].before.edits]
            BY <2>4 DEF Found, RecordsBefore
        <3>2. CASE i = Len(history) + 1
            BY <2>2, <2>4, <3>1, <3>2
        <3>3. CASE i # Len(history) + 1
            <4>1. i \in 1 .. Len(history)
                BY <2>3, <3>3
            <4> QED BY <2>3, <2>4, <3>1, <3>3, <4>1 DEF Found
        <3> QED BY <3>2, <3>3
    <2>7. Found' = [i \in 1 .. Len(history) + 1 |-> Found'[i]]
        BY <2>4 DEF Found
    <2>8. Append(Found, entry) = [i \in 1 .. Len(history) + 1 |->
                                     IF i = Len(history) + 1 THEN entry ELSE Found[i]]
        BY <2>5
    <2> QED BY <2>6, <2>7, <2>8
<1>7. RolledBack' = RolledBack
    <2>1. /\ history \in Seq(Applies) /\ Len(history) \in Nat /\ DOMAIN history = 1 .. Len(history)
          /\ \E h : history' = Append(history, h) /\ h.rolledBack = FALSE
        BY DEF ApplyInv, TypeOK, CommitApply
    <2> QED BY <2>1 DEF RolledBack, Live
<1> QED BY <1>1, <1>2, <1>3, <1>4, <1>5, <1>6, <1>7 DEF Atomic!Apply

\* The commit of a rollback is the whole rollback of the last apply.
LEMMA RollbackShows ==
    ASSUME ApplyInv, UndoInv, CommitRollback
    PROVE  Latest \in DOMAIN Found /\ Atomic!Rollback(Latest)
<1>1. PICK l : l = Latest
    OBVIOUS
<1>2. PICK h : h = history[l]
    OBVIOUS
<1>3. /\ Writing /\ op.phase = "add" /\ op.todo = {} /\ disk' = disk /\ recovery' = NoRecovery
      /\ recovery # NoRecovery /\ edits' = edits /\ op.kind = "rollback"
    BY DEF CommitRollback, CommittedRecovery, Writing, ApplyInv, JournalFirst
<1>4. /\ l \in Live /\ (\A k \in Live : k <= l) /\ l \in DOMAIN history /\ op.want = h.targets
      /\ h \in Applies
    BY <1>1, <1>2, <1>3, LatestIsLive, AppliesAreApplies DEF ApplyInv, RollbackTargets, Live
<1>5. Atomic!Change(op.want) /\ InEffect' = disk
    BY <1>3, CommitShows
<1>6. /\ DOMAIN Found = DOMAIN history
      /\ Found[l] = [content |-> h.before.disk, records |-> RecordsBefore(h),
                     revision |-> h.revision, edits |-> h.before.edits]
    BY <1>2, <1>4 DEF Found
<1>7. Found[l].content = h.before.disk /\ Found[l].records = RecordsBefore(h)
      /\ Found[l].revision = h.revision /\ Found[l].edits = h.before.edits
    BY <1>6
<1>8. Atomic!IsLast(l)
    <2>1. Atomic!Standing = Live
        BY DEF Atomic!Standing, Live, Found, RolledBack
    <2> QED BY <1>4, <2>1 DEF Atomic!IsLast
<1>9. Sound(h) /\ h.before.edits <= before.edits
    BY <1>2, <1>3, <1>4 DEF UndoInv, StackInv, Mark
<1>10. \A p \in Paths : RecordsBefore(h)[p] = IF p \in h.managed THEN h.targets[p] ELSE NoSkill
    BY DEF RecordsBefore
<1>11. Atomic!Back(Found[l], op.want)
    BY <1>4, <1>7, <1>9, <1>10 DEF Atomic!Back, Sound
<1>12. op.want \in [Paths -> Skills \cup {NoSkill}]
    BY <1>4 DEF Applies, Records
<1>13. ASSUME edits = h.before.edits
       PROVE  InEffect' = [p \in Paths |-> IF RecordsBefore(h)[p] # NoSkill THEN RecordsBefore(h)[p]
                                           ELSE h.before.disk[p]]
    <2>1. edits = before.edits
        BY <1>4, <1>9, <1>13 DEF UndoInv, LeadsBack, ApplyInv, TypeOK, Applies, Marks
    <2>2. ASSUME NEW p \in Paths
          PROVE  disk[p] = IF RecordsBefore(h)[p] # NoSkill THEN RecordsBefore(h)[p]
                           ELSE h.before.disk[p]
        <3>1. CASE RecordsBefore(h)[p] # NoSkill
            BY <1>3, <1>4, <1>10, <2>1, <3>1, Outcome DEF UndoInv
        <3>2. CASE RecordsBefore(h)[p] = NoSkill
            <4>1. p \notin h.managed
                BY <1>9, <1>10, <3>2 DEF Sound
            <4> QED BY <1>1, <1>2, <1>13, <3>2, <4>1, GivesBack DEF UndoInv
        <3> QED BY <3>1, <3>2
    <2>3. disk = [p \in Paths |-> disk[p]]
        BY DEF ApplyInv, TypeOK
    <2> QED BY <1>5, <2>2, <2>3
<1>14. tracked' = RecordsBefore(h) /\ assigned' = h.revision /\ applied' = h.revision
    BY <1>1, <1>2 DEF CommitRollback, RecordsBefore
<1>15. Found' = Found /\ RolledBack' = RolledBack \cup {l}
    <2>1. /\ DOMAIN history' = DOMAIN history
          /\ \A i \in DOMAIN history : i # l => history'[i] = history[i]
          /\ history'[l] = [history[l] EXCEPT !.rolledBack = TRUE]
        BY <1>1, <1>4 DEF CommitRollback, ApplyInv, TypeOK
    <2>2. /\ history'[l].rolledBack /\ history'[l].before = h.before
          /\ history'[l].targets = h.targets /\ history'[l].managed = h.managed
          /\ history'[l].revision = h.revision
        BY <1>2, <1>4, <2>1 DEF Applies
    <2>3. \A i \in DOMAIN history : /\ history'[i].before = history[i].before
                                    /\ history'[i].targets = history[i].targets
                                    /\ history'[i].managed = history[i].managed
                                    /\ history'[i].revision = history[i].revision
        BY <1>2, <2>1, <2>2
    <2>4. Found' = Found
        BY <2>1, <2>3 DEF Found, RecordsBefore
    <2>5. Live' = Live \ {l}
        BY <2>1, <2>2 DEF Live
    <2> QED BY <1>4, <2>1, <2>4, <2>5 DEF RolledBack
<1>16. Atomic!Rollback(l)
    BY <1>3, <1>5, <1>7, <1>8, <1>11, <1>12, <1>13, <1>14, <1>15 DEF Atomic!Rollback
<1> QED BY <1>1, <1>4, <1>6, <1>16

\* Every step of an operation is a step of what is promised, or does not show.
LEMMA StepShows ==
    ASSUME ApplyInv, UndoInv, ApplyTargets, [Next]_vars
    PROVE  Atomic!AtomicNext \/ UNCHANGED Atomic!promised
<1> USE DEF Database
<1>1. ASSUME op # Idle, NEW q \in op.todo, NEW c, disk' = [disk EXCEPT ![q] = c],
             UNCHANGED <<tracked, assigned, applied, history, recovery, before, edits>>
      PROVE  UNCHANGED Atomic!promised
    <2>1. recovery # NoRecovery /\ q \in DOMAIN recovery
        BY <1>1, WritesAreOurs
    <2>2. \A p \in Paths : p # q => disk'[p] = disk[p]
        BY <1>1 DEF ApplyInv, TypeOK
    <2> QED BY <1>1, <2>1, <2>2, DoesNotShow
<1>2. CASE BeginAny
    BY <1>2, DoesNotShow DEF BeginAny, Begin
<1>3. CASE Operate
    <2>1. CASE Planned
        BY <2>1, PlanDoesNotShow
    <2>2. CASE Refused \/ StartAdding \/ Cancel
        BY <2>2, DoesNotShow DEF Refused, StartAdding, Cancel
    <2>3. CASE Finish
        <3>1. CASE op.kind = "assign"
            <4>1. /\ assigned' = op.revision /\ op.revision \in Revisions
                  /\ UNCHANGED <<disk, tracked, applied, history, recovery, before, edits>>
                BY <2>3, <3>1 DEF Finish, ApplyInv, TypeOK
            <4>2. /\ InEffect' = InEffect /\ Interfered' = Interfered
                  /\ Found' = Found /\ RolledBack' = RolledBack
                BY <4>1 DEF InEffect, Found, RecordsBefore, RolledBack, Live, Interfered
            <4>3. Atomic!Assign(op.revision)
                BY <4>1, <4>2 DEF Atomic!Assign
            <4> QED BY <4>1, <4>3 DEF Atomic!AtomicNext
        <3>2. CASE op.kind # "assign"
            BY <2>3, <3>2, DoesNotShow DEF Finish
        <3> QED BY <3>1, <3>2
    <2>4. CASE CommitApply
        BY <2>4, ApplyShows DEF Atomic!AtomicNext
    <2>5. CASE CommitRollback
        BY <2>5, RollbackShows DEF Atomic!AtomicNext
    <2>6. CASE Restored
        BY <2>6, RestoredShows DEF Atomic!AtomicNext, UndoInv
    <2>7. ASSUME NEW p \in Paths, Remove(p) \/ Add(p) \/ RestoreTarget(p)
          PROVE  UNCHANGED Atomic!promised
        BY <1>1, <2>7 DEF Remove, Add, RestoreTarget
    <2>8. ASSUME NEW p \in Paths, AddFindsTargetTaken(p)
          PROVE  UNCHANGED Atomic!promised
        BY <2>8, DoesNotShow DEF AddFindsTargetTaken
    <2> QED BY <1>3, <2>1, <2>2, <2>3, <2>4, <2>5, <2>6, <2>7, <2>8, PlanCases DEF Operate
<1>4. CASE Fault
    <2>1. CASE CommitFails
        BY <2>1, DoesNotShow DEF CommitFails
    <2>2. CASE Crash
        BY <1>1, <2>2, DoesNotShow DEF Crash
    <2>3. ASSUME NEW p \in Paths, FileFails(p)
          PROVE  UNCHANGED Atomic!promised
        BY <1>1, <2>3 DEF FileFails
    <2> QED BY <1>4, <2>1, <2>2, <2>3 DEF Fault
<1>5. ASSUME NEW p \in Paths, Edit(p) PROVE Atomic!AtomicNext
    BY <1>5, EditShows DEF Atomic!AtomicNext, UndoInv
<1>6. CASE UNCHANGED vars
    BY <1>6, DoesNotShow DEF vars
<1> QED BY <1>2, <1>3, <1>4, <1>5, <1>6 DEF Next, Person

LEMMA InitShows ==
    ASSUME Init PROVE Atomic!AtomicInit
<1>1. disk \in [Paths -> Contents] /\ recovery = NoRecovery
    BY DEF Init
<1>2. InEffect = disk
    <2>1. InEffect = [p \in Paths |-> disk[p]]
        BY <1>1 DEF InEffect
    <2> QED BY <1>1, <2>1
<1>3. Found = <<>> /\ RolledBack = {}
    BY DEF Init, Found, RolledBack
<1>4. Interfered = FALSE
    BY <1>1 DEF Interfered
<1> QED BY <1>1, <1>2, <1>3, <1>4 DEF Init, Atomic!AtomicInit, Atomic!Whole, Contents

\* Whatever fails, is cancelled or is cut off, and whatever the person edits, applying,
\* assigning and rolling back a Setup is atomic (sync_checked_cancellable, assign_setup,
\* rollback_checked and the recovery of what they leave).
THEOREM OperationsAreAtomic == Spec => ImplementsAtomic
<1>1. Init => Atomic!AtomicInit /\ ApplyTargets
    BY InitShows DEF Init, ApplyTargets, Writing
<1>2. ApplyInv /\ UndoInv /\ [Next]_vars => UndoInv'
    BY UndoPreserved
<1>3. ApplyInv /\ ApplyTargets /\ [Next]_vars => ApplyTargets'
    BY ApplyTargetsPreserved
<1>4. ApplyInv /\ UndoInv /\ ApplyTargets /\ [Next]_vars =>
          [Atomic!AtomicNext]_(Atomic!promised)
    BY StepShows
<1> QED BY <1>1, <1>2, <1>3, <1>4, InitUndo, ApplySafe, PTL
        DEF Spec, ImplementsAtomic, Atomic!AtomicSpec

==============================================================================
