----------------------------- MODULE SetupApply ------------------------------
(* Applying a Setup revision to one project checkout and rolling it back:    *)
(* SetupService::sync_checked_cancellable, rollback_checked and the recovery *)
(* journal of ahm.db that makes them all-or-nothing across failures,         *)
(* cancellations and crashes, while the person edits the same directories.   *)
(*                                                                           *)
(* A path stands for one target directory of the checkout.  What is there is *)
(* nothing, the content of a skill of the library (as a link or as an equal  *)
(* copy), a skill's content half written or half removed, or content of the  *)
(* person's own.  Every operation holds the project's file lock, so at most  *)
(* one runs at a time; it is cut into the steps between which it can fail.   *)
EXTENDS Sequences, Naturals

CONSTANTS
    Paths,           \* target directories of the checkout
    Skills,          \* skills of the library
    Revisions,       \* Setup revisions
    Desired,         \* Desired[r][p]: the skill r puts at p, or NoSkill
    NoSkill,         \* an empty target, or a target without a record
    Torn,            \* content of ours that is neither whole nor gone
    Foreign,         \* content that belongs to the person
    NoRevision,      \* NULL
    Idle,            \* no operation is running
    NoRecovery,      \* no row in filesystem_recovery_journal
    MaxOperations,   \* bound on operations that were applied
    MaxFaults,       \* bound on failing file operations and crashes
    MaxEdits         \* bound on the person's edits

ASSUME DesiredAssumption ==
    /\ Desired \in [Revisions -> [Paths -> Skills \cup {NoSkill}]]
    /\ NoSkill \notin Skills /\ Torn \notin Skills /\ Foreign \notin Skills
    /\ NoSkill # Torn /\ NoSkill # Foreign /\ Torn # Foreign

\* The absent row is none of the rows.
ASSUME NoRecoveryAssumption ==
    \A S \in SUBSET Paths : NoRecovery \notin [S -> Skills \cup {NoSkill}]

VARIABLES
    disk,      \* disk[p]: what is at p
    tracked,   \* tracked[p]: the skill of the skill_targets record of p
    assigned,  \* projects.assigned_setup_revision_id
    applied,   \* projects.applied_setup_revision_id
    history,   \* apply_operations, oldest first
    recovery,  \* the row of filesystem_recovery_journal: target -> previous
    op,        \* the operation in progress, lost in a crash
    before,    \* disk and edits when the last recovery journal was written (for properties)
    faults,    \* faults so far
    edits      \* the person's edits so far

vars == <<disk, tracked, assigned, applied, history, recovery, op, before, faults, edits>>

Contents == Skills \cup {NoSkill, Foreign}
Records == [Paths -> Skills \cup {NoSkill}]

\* What an operation does with a target.
Actions == {"none", "keep", "add", "remove", "replace", "conflict"}

\* Mutant: a target that drifted from its record is not noticed.
ActionIgnoresDrift(p, want) ==
    IF tracked[p] # NoSkill
    THEN IF want = NoSkill THEN "remove" ELSE IF want # tracked[p] THEN "replace"
         ELSE IF disk[p] = NoSkill THEN "add" ELSE "keep"
    ELSE IF want = NoSkill THEN "none"
         ELSE IF disk[p] = NoSkill THEN "add"
         ELSE IF disk[p] = want THEN "keep" ELSE "conflict"

\* build_reconciliation and validate_current_group for one target: a record
\* whose target drifted is a conflict, and so is an unmanaged target that is
\* not identical to what is wanted; an identical one is adopted.
Action(p, want) ==
    LET ours == tracked[p] # NoSkill
        drifted == ours /\ disk[p] \notin {NoSkill, tracked[p]}
        taken == ~ours /\ want # NoSkill /\ disk[p] \notin {NoSkill, want}
    IN  IF drifted \/ taken THEN "conflict"
        ELSE IF want = NoSkill THEN IF ours THEN "remove" ELSE "none"
        ELSE IF ours /\ want # tracked[p] THEN "replace"
        ELSE IF disk[p] = NoSkill THEN "add" ELSE "keep"

Exists(p) == disk[p] # NoSkill

\* The targets an operation writes to.
Written(act) ==
    {p \in Paths : \/ act[p] \in {"add", "replace"}
                   \/ act[p] = "remove" /\ Exists(p)}

\* Mutant: a replaced target has nothing to go back to.
RecoveryPlanForgetsReplaced(act) ==
    [p \in Written(act) |-> IF act[p] = "remove" THEN tracked[p] ELSE NoSkill]

\* recovery_plan: what each target goes back to.
RecoveryPlan(act) ==
    [p \in Written(act) |-> IF act[p] = "add" \/ ~Exists(p) THEN NoSkill ELSE tracked[p]]

\* Mutant: adopted targets are not in the snapshot.
SnapshotWithoutAdopted(want, act) == tracked

\* target_snapshots_before_apply: the records, and the targets adopted.
Snapshot(want, act) ==
    [p \in Paths |-> IF tracked[p] = NoSkill /\ act[p] = "keep" THEN want[p] ELSE tracked[p]]

\* latest_operation: the last operation that was not rolled back.
Live == {i \in DOMAIN history : ~history[i].rolledBack}
Latest == CHOOSE i \in Live : \A k \in Live : k <= i

------------------------------------------------------------------------------
Init ==
    /\ disk \in [Paths -> Contents]
    /\ tracked = [p \in Paths |-> NoSkill]
    /\ assigned = NoRevision
    /\ applied = NoRevision
    /\ history = <<>>
    /\ recovery = NoRecovery
    /\ op = Idle
    /\ before = [disk |-> disk, edits |-> 0]
    /\ faults = 0
    /\ edits = 0

Database == <<tracked, assigned, applied, history>>

\* An operation takes the lock.  Whatever it is, it first restores what an
\* interrupted one left (recover_incomplete_operation_locked).
Begin(kind, r) ==
    /\ op = Idle
    /\ op' = [kind |-> kind, revision |-> r,
              phase |-> IF recovery = NoRecovery THEN "plan" ELSE "restore",
              todo |-> IF recovery = NoRecovery THEN {} ELSE DOMAIN recovery,
              want |-> [p \in Paths |-> NoSkill], act |-> [p \in Paths |-> "none"],
              failed |-> FALSE, resume |-> TRUE]
    /\ UNCHANGED <<disk, Database, recovery, before, faults, edits>>

\* sync, rollback, assign_setup; and "recover" for plan, status and a job that
\* was cancelled before it ran, which only restore.
BeginAny ==
    \/ \E r \in Revisions : Begin("apply", r) \/ Begin("assign", r)
    \/ Begin("rollback", NoRevision)
    \/ Begin("recover", NoRevision)

End == op' = Idle

\* The plan of an apply or a rollback, and begin_filesystem_operation.  A plan
\* with a conflict is refused; so is a rollback with nothing to roll back.
Plan ==
    /\ op # Idle /\ op.phase = "plan" /\ op.kind \in {"apply", "rollback"}
    /\ LET want == IF op.kind = "apply" THEN Desired[op.revision] ELSE history[Latest].targets
           act == [p \in Paths |-> Action(p, want[p])]
       IN  IF \/ op.kind = "rollback" /\ Live = {}
              \/ \E p \in Paths : act[p] = "conflict"
           THEN End /\ UNCHANGED <<recovery, before>>
           ELSE /\ recovery' = RecoveryPlan(act)
                /\ before' = [disk |-> disk, edits |-> edits]
                /\ op' = [op EXCEPT !.phase = "remove", !.want = want, !.act = act,
                             !.todo = {p \in Paths : act[p] \in {"remove", "replace"}
                                                     /\ Exists(p)}]
    /\ UNCHANGED <<disk, Database, faults, edits>>

\* The operations that write no files.
Finish ==
    /\ op # Idle /\ op.phase = "plan" /\ op.kind \in {"assign", "recover"}
    /\ assigned' = IF op.kind = "assign" THEN op.revision ELSE assigned
    /\ End
    /\ UNCHANGED <<disk, tracked, applied, history, recovery, before, faults, edits>>

\* The first pass of execute_files takes away, the second one puts in place.
ToAdd == {p \in Paths : op.act[p] \in {"add", "replace"}}

StartAdding ==
    /\ op # Idle /\ op.phase = "remove" /\ op.todo = {}
    /\ op' = [op EXCEPT !.phase = "add", !.todo = ToAdd]
    /\ UNCHANGED <<disk, Database, recovery, before, faults, edits>>

Remove(p) ==
    /\ op # Idle /\ op.phase = "remove" /\ p \in op.todo
    /\ disk' = [disk EXCEPT ![p] = NoSkill]
    /\ op' = [op EXCEPT !.todo = @ \ {p}]
    /\ UNCHANGED <<Database, recovery, before, faults, edits>>

\* sync_desired, which does not overwrite; the link it wants may be there.
Add(p) ==
    /\ op # Idle /\ op.phase = "add" /\ p \in op.todo
    /\ disk[p] \in {NoSkill, op.want[p]}
    /\ disk' = [disk EXCEPT ![p] = op.want[p]]
    /\ op' = [op EXCEPT !.todo = @ \ {p}]
    /\ UNCHANGED <<Database, recovery, before, faults, edits>>

\* resolve_operation_failure
Restore == op' = [op EXCEPT !.phase = "restore", !.todo = DOMAIN recovery, !.resume = FALSE]

AddFindsTargetTaken(p) ==
    /\ op # Idle /\ op.phase = "add" /\ p \in op.todo
    /\ disk[p] # NoSkill
    /\ Restore
    /\ UNCHANGED <<disk, Database, recovery, before, faults, edits>>

\* A cancellation_checkpoint finds the job cancelled, before a file operation or
\* before the commit.
Cancel ==
    /\ op # Idle /\ op.phase \in {"remove", "add"} /\ op.kind \in {"apply", "rollback"}
    /\ Restore
    /\ UNCHANGED <<disk, Database, recovery, before, faults, edits>>

\* Mutant: the journal row survives the commit.
CommittedRecoveryKept == recovery

\* DELETE FROM filesystem_recovery_journal, in the transaction of the commit.
CommittedRecovery == NoRecovery

\* The transaction of sync_checked_cancellable.
CommitApply ==
    /\ op # Idle /\ op.kind = "apply" /\ op.phase = "add" /\ op.todo = {}
    /\ Len(history) < MaxOperations
    /\ tracked' = op.want
    /\ history' = Append(history, [targets |-> Snapshot(op.want, op.act),
                                   managed |-> {p \in Paths : tracked[p] # NoSkill},
                                   revision |-> applied, rolledBack |-> FALSE,
                                   before |-> before])
    /\ assigned' = op.revision
    /\ applied' = op.revision
    /\ recovery' = CommittedRecovery
    /\ End
    /\ UNCHANGED <<disk, before, faults, edits>>

\* The transaction of rollback_checked: adopted targets stay on disk, without a
\* record.  The previous assignment was saved as the previous applied revision.
CommitRollback ==
    /\ op # Idle /\ op.kind = "rollback" /\ op.phase = "add" /\ op.todo = {}
    /\ LET undone == history[Latest]
       IN  /\ tracked' = [p \in Paths |-> IF p \in undone.managed THEN undone.targets[p]
                                          ELSE NoSkill]
           /\ assigned' = undone.revision
           /\ applied' = undone.revision
           /\ history' = [history EXCEPT ![Latest].rolledBack = TRUE]
    /\ recovery' = CommittedRecovery
    /\ End
    /\ UNCHANGED <<disk, before, faults, edits>>

\* restore_filesystem_journal, one target: remove whatever is there, put the
\* previous skill back.
RestoreTarget(p) ==
    /\ op # Idle /\ op.phase = "restore" /\ p \in op.todo
    /\ disk' = [disk EXCEPT ![p] = recovery[p]]
    /\ op' = [op EXCEPT !.todo = @ \ {p}]
    /\ UNCHANGED <<Database, recovery, before, faults, edits>>

\* Mutant: the row goes away though a target could not be restored.
RestoredRecoveryDropped == NoRecovery

\* The row after restoring: kept as needsAttention when a target failed.
RestoredRecovery == IF op.failed THEN recovery ELSE NoRecovery

\* Its end: the row goes away, and the operation goes on to its plan or reports
\* that it was restored; or the row stays (needsAttention) and it reports that.
Restored ==
    /\ op # Idle /\ op.phase = "restore" /\ op.todo = {}
    /\ recovery' = RestoredRecovery
    /\ IF op.resume /\ ~op.failed THEN op' = [op EXCEPT !.phase = "plan"] ELSE End
    /\ UNCHANGED <<disk, Database, before, faults, edits>>

------------------------------------------------------------------------------
\* What a file operation on p that does not run to its end leaves behind: adding
\* does not touch a target that is taken, restoring first removes.
CutOff(p) ==
    {disk[p]} \cup (IF op.phase = "add" /\ disk[p] # NoSkill THEN {} ELSE {Torn})
              \cup (IF op.phase = "restore" THEN {NoSkill} ELSE {})

\* A file operation fails half way.
FileFails(p) ==
    /\ faults < MaxFaults
    /\ faults' = faults + 1
    /\ op # Idle /\ p \in op.todo
    /\ \E c \in CutOff(p) : disk' = [disk EXCEPT ![p] = c]
    /\ \/ op.phase \in {"remove", "add"} /\ Restore
       \/ op.phase = "restore" /\ op' = [op EXCEPT !.failed = TRUE, !.todo = @ \ {p}]
    /\ UNCHANGED <<Database, recovery, before, edits>>

\* The transaction that commits fails.
CommitFails ==
    /\ faults < MaxFaults
    /\ faults' = faults + 1
    /\ op # Idle /\ op.phase = "add" /\ op.todo = {}
    /\ Restore
    /\ UNCHANGED <<disk, Database, recovery, before, edits>>

\* The process dies, possibly in the middle of a file operation; or it cannot
\* read the journal row of what failed, and reports that without restoring.
Crash ==
    /\ faults < MaxFaults
    /\ faults' = faults + 1
    /\ op # Idle
    /\ \/ disk' = disk
       \/ \E p \in op.todo : \E c \in CutOff(p) : disk' = [disk EXCEPT ![p] = c]
    /\ End
    /\ UNCHANGED <<Database, recovery, before, edits>>

\* The person changes a target, whatever the runner is doing.
Edit(p) ==
    /\ edits < MaxEdits
    /\ edits' = edits + 1
    /\ \E c \in Contents \ {disk[p]} : disk' = [disk EXCEPT ![p] = c]
    /\ UNCHANGED <<Database, recovery, op, before, faults>>

Person == \E p \in Paths : Edit(p)

Operate ==
    \/ Plan \/ Finish \/ StartAdding \/ Cancel \/ CommitApply \/ CommitRollback \/ Restored
    \/ \E p \in Paths : Remove(p) \/ Add(p) \/ AddFindsTargetTaken(p) \/ RestoreTarget(p)

Fault == CommitFails \/ Crash \/ \E p \in Paths : FileFails(p)

Next == BeginAny \/ Operate \/ Fault \/ Person

Spec == Init /\ [][Next]_vars

------------------------------------------------------------------------------
Operations ==
    [kind : {"apply", "assign", "rollback", "recover"}, revision : Revisions \cup {NoRevision},
     phase : {"plan", "remove", "add", "restore"}, todo : SUBSET Paths,
     want : Records, act : [Paths -> Actions], failed : BOOLEAN, resume : BOOLEAN]

Marks == [disk : [Paths -> Contents], edits : Nat]

Applies ==
    [targets : Records, managed : SUBSET Paths, revision : Revisions \cup {NoRevision},
     rolledBack : BOOLEAN, before : Marks]

\* The state keeps its types: a row goes back to skills or to nothing, and the
\* targets an operation still has to write to are targets of the checkout.
TypeOK ==
    /\ disk \in [Paths -> Contents \cup {Torn}]
    /\ tracked \in Records
    /\ assigned \in Revisions \cup {NoRevision}
    /\ applied \in Revisions \cup {NoRevision}
    /\ history \in Seq(Applies)
    /\ recovery = NoRecovery \/ \E S \in SUBSET Paths : recovery \in [S -> Skills \cup {NoSkill}]
    /\ op # Idle => /\ op \in Operations
                    /\ op.kind \in {"apply", "assign"} => op.revision \in Revisions
    /\ before \in Marks
    /\ faults \in Nat
    /\ edits \in Nat

\* While a journal row is there it leads back to the disk as it was, unless the
\* person changed it since: what it names goes back to what was there, and what
\* it does not name was not touched.
RecoveryLeadsBack ==
    recovery # NoRecovery /\ edits = before.edits =>
        \A p \in Paths : IF p \in DOMAIN recovery THEN recovery[p] = before.disk[p]
                         ELSE disk[p] = before.disk[p]

\* Every record names what is on disk, whenever nothing is in progress, unless
\* the person changed it: an operation takes effect in both places or in neither.
RecordsMatchDisk ==
    op = Idle /\ recovery = NoRecovery /\ edits = 0 =>
        \A p \in Paths : tracked[p] # NoSkill => disk[p] = tracked[p]

\* A rollback gives back the disk and the revision of before the apply it
\* undoes, content that was adopted included, if the person changed nothing
\* since; only a recorded target that was missing before comes back.
RollbackUndoes ==
    [][\A i \in DOMAIN history :
         /\ ~history[i].rolledBack /\ history'[i].rolledBack
         /\ edits = history[i].before.edits
         => /\ \A p \in Paths :
                  \/ disk'[p] = history[i].before.disk[p]
                  \/ p \in history[i].managed /\ history[i].before.disk[p] = NoSkill
            /\ applied' = history[i].revision]_vars

\* Content of the person's that was there when an operation was planned is
\* still there when it is committed, refused, cancelled or recovered, for as
\* long as the person does not change it.
PlannedContentKept ==
    [][edits' = before.edits =>
         \A p \in Paths : disk[p] = Foreign => disk'[p] = Foreign]_vars

\* The records of before an apply of the history.
RecordsBefore(h) == [p \in Paths |-> IF p \in h.managed THEN h.targets[p] ELSE NoSkill]

\* The checkout as the journal row would lead it back.
InEffect ==
    [p \in Paths |-> IF recovery # NoRecovery /\ p \in DOMAIN recovery THEN recovery[p] ELSE disk[p]]

\* What each apply of the history found, and which of them were rolled back.
Found ==
    [i \in DOMAIN history |->
        [content |-> history[i].before.disk, records |-> RecordsBefore(history[i]),
         revision |-> history[i].revision, edits |-> history[i].before.edits]]

RolledBack == DOMAIN history \ Live

\* The person changed something since the row was written.
Interfered == recovery # NoRecovery /\ edits # before.edits

Atomic == INSTANCE AtomicSetups WITH
    content <- InEffect, records <- tracked, history <- Found, undone <- RolledBack,
    disturbed <- Interfered

\* Whichever step fails, is cancelled or is cut off, an apply, an assignment and a rollback
\* change the checkout and the records as a whole or not at all, and half-written content
\* always has a row that takes it back.
ImplementsAtomic == Atomic!AtomicSpec

==============================================================================
