--------------------------- MODULE SetupSwitching ----------------------------
(* Switching the Setup of a project: a person asks for a plan, reviews it,   *)
(* approves it and can roll it back (PostgresSwitchingRepository), the       *)
(* checkout's runner does the work (LocalJobExecutor), and the control plane *)
(* keeps receipts and the project's assignment, from which it derives what   *)
(* the browser shows.                                                        *)
(*                                                                           *)
(* The delivery of jobs is JobMailbox and JobDelivery, the files of one      *)
(* operation are SetupApply; here a job is delivered in one step, executed   *)
(* up to the commit of its operation in another, and its result saved in a   *)
(* third, so that the decisions of several requests, jobs and checkouts can  *)
(* be followed.  Every checkout has a device of its own.  A revision stands  *)
(* for one skill, at a path that all of them share.                          *)
EXTENDS Sequences, FiniteSets, Naturals

CONSTANTS
    Checkouts,    \* project instances of one logical project
    Revisions,    \* Setup revisions
    NoRevision,   \* NULL
    Default,      \* the revision assigned when the project was captured
    Nothing,      \* no receipt, no result in hand
    Shapes,       \* what edits can make of the content of a checkout
    MaxJobs       \* bound on the jobs asked for

ASSUME SwitchingAssumption ==
    /\ NoRevision \notin Revisions
    /\ Default \in Revisions \cup {NoRevision}
    /\ Shapes \subseteq {"intact", "missing", "modified"}
    /\ MaxJobs \in Nat

VARIABLES
    jobs,        \* runner_jobs, in the order of issued_at
    receipts,    \* receipts[n]: the operation_receipts row of apply job n
    assigned,    \* project_assignments.setup_revision_id
    checkout,    \* checkout[i]: what is in the directories of checkout i
    history,     \* history[i]: its runner's apply_operations, oldest first
    outbox,      \* outbox[i]: the result its runner has, and whether it is saved
    lost,        \* jobs of which a crash took the result of a commit (for properties)
    verdicts     \* verdicts[i][r]: what the last report that bears on r said of i

serverVars == <<jobs, receipts, assigned>>
runnerVars == <<checkout, history, outbox, lost>>
vars == <<serverVars, runnerVars, verdicts>>

Kinds == {"planSetup", "applyPlan", "rollbackOperation"}
Held == {"claimed", "stopping"}  \* by the runner; "stopping": cancellation was asked for
InFlight == Held \cup {"pending"}
States == InFlight \cup {"succeeded", "failed", "cancelled", "expired"}
MaybeRevision == Revisions \cup {NoRevision}

\* A checkout holds a revision, or nothing of ours; some of what it holds may be
\* missing, or be modified; an operation may have left it torn.
Contents == [holds : MaybeRevision, shape : {"intact", "missing", "modified"}]
Trees == [content : Contents, torn : BOOLEAN]

\* What a plan says of the path: its actions, or that it found a conflict.
Digests == {"unchanged", "add", "replace", "conflict"}

\* A result; "operation" is the place of an apply in the history of its runner, which
\* stands for the operation's id.
Results == [kind : {"plan", "apply", "rollback", "error", "cancellation"},
            digest : Digests \cup {"none"},
            revision : MaybeRevision,
            operation : Nat,
            recoverability : {"notNeeded", "rollbackAvailable", "manualIntervention"}]

JobIds == 1 .. MaxJobs

\* A row of runner_jobs; "of" is the plan of an apply, or the apply of a rollback.
Rows == [checkout : Checkouts, kind : Kinds, revision : MaybeRevision,
         of : 0 .. MaxJobs, completed : Nat, state : States, result : Results \cup {Nothing}]
Receipts == [outcome : {"applied", "noChange", "rolledBack"}, before : MaybeRevision,
             operation : Nat]
Deliveries == [job : JobIds, result : Results, saved : BOOLEAN]

ASSUME NothingAssumption == Nothing \notin Receipts \cup Results \cup Deliveries

\* Timestamps.  Requests tell the time: job n is issued at 2n - 1, and what happens
\* between two requests happens at one moment between them.
IssuedAt(n) == 2 * n - 1
Now == 2 * Len(jobs)

JobsOf(i) == {n \in DOMAIN jobs : jobs[n].checkout = i}
PlansOf(i) == {n \in JobsOf(i) : jobs[n].kind = "planSetup"}
OperationsOf(i) == JobsOf(i) \ PlansOf(i)
ActiveOf(i) == {n \in JobsOf(i) : jobs[n].state \in InFlight}
LastIn(S) == IF S = {} THEN 0 ELSE CHOOSE n \in S : \A m \in S : m <= n

LastCompletedIn(S) ==
    LET latest == {n \in S : \A m \in S : jobs[m].completed <= jobs[n].completed}
    IN  LastIn(latest)

Intact(r) == [holds |-> r, shape |-> "intact"]

\* build_reconciliation, and the digest of canonical_plan over it: what is replaced is
\* not named, and a missing target is restored the way an absent one is created.
Digest(c, r) ==
    CASE c.shape = "modified" -> "conflict"
      [] c = Intact(r) -> "unchanged"
      [] OTHER -> IF c.holds \in {r, NoRevision} THEN "add" ELSE "replace"

-----------------------------------------------------------------------------
(* What the browser is shown: projectInstanceOperations.                     *)

Succeeded(S) == {n \in S : jobs[n].state = "succeeded"}
LatestOperation(i) == LastIn(OperationsOf(i))
LatestPlanAttempt(i) == LastIn(PlansOf(i))

\* The revision a succeeded operation put in place.
RevisionOf(n) ==
    IF jobs[n].kind = "applyPlan" THEN jobs[n].revision ELSE jobs[n].result.revision

\* The moment of the latest operation, whatever became of it.
Barrier(i) ==
    LET n == LatestOperation(i)
    IN  IF n = 0 THEN 0
        ELSE IF jobs[n].completed # 0 THEN jobs[n].completed ELSE IssuedAt(n)

AssignedPlans(i) == {n \in Succeeded(PlansOf(i)) : jobs[n].revision = assigned}

\* Mutant: the operations that came after the plan are not looked at.
FreshPlanForEver(i) == LastCompletedIn(AssignedPlans(i))

\* The latest plan for the assigned revision, unless an operation came after it.
FreshPlan(i) ==
    LET n == LastCompletedIn(AssignedPlans(i))
    IN  IF n # 0 /\ jobs[n].completed > Barrier(i) THEN n ELSE 0

PlanHasChanges(n) == jobs[n].result.digest # "unchanged"

RequiresAttention(i) ==
    LET n == LatestOperation(i)
    IN  /\ n # 0
        /\ jobs[n].state \in {"failed", "cancelled"}
        /\ jobs[n].result # Nothing
        /\ jobs[n].result.recoverability = "manualIntervention"
        /\ FreshPlan(i) = 0

HasDrift(i) == FreshPlan(i) # 0 /\ PlanHasChanges(FreshPlan(i))

Materialized(i) ==
    IF FreshPlan(i) # 0 /\ ~PlanHasChanges(FreshPlan(i)) THEN assigned
    ELSE LET n == LastIn(Succeeded(OperationsOf(i)))
         IN  IF n = 0 THEN NoRevision ELSE RevisionOf(n)

Health(i) ==
    IF RequiresAttention(i) THEN "attention"
    ELSE IF HasDrift(i) \/ Materialized(i) \notin {NoRevision, assigned} THEN "drifted"
    ELSE IF Materialized(i) # NoRevision \/ assigned = NoRevision THEN "current"
    ELSE "unknown"

\* Mutant: any succeeded apply of the history is offered.
OfferedFromHistory(i) ==
    LET n == LastIn({m \in Succeeded(OperationsOf(i)) : jobs[m].kind = "applyPlan"})
    IN  IF ActiveOf(i) = {} /\ n # 0 /\ jobs[n].result.recoverability = "rollbackAvailable"
        THEN n ELSE 0

\* The operation the browser offers to roll back: recoverableOperationId.
Offered(i) ==
    LET n == LatestOperation(i)
    IN  IF /\ ActiveOf(i) = {}
           /\ Health(i) # "attention"
           /\ n # 0 /\ jobs[n].kind = "applyPlan" /\ jobs[n].state = "succeeded"
           /\ jobs[n].result.recoverability = "rollbackAvailable"
           /\ jobs[n].revision = Materialized(i)
        THEN n ELSE 0

-----------------------------------------------------------------------------
(* Requests.  Each takes the project instance's row lock for its whole       *)
(* transaction; one that is refused changes nothing the properties see.      *)

Init ==
    /\ jobs = <<>>
    /\ receipts = [n \in JobIds |-> Nothing]
    /\ assigned = Default
    /\ checkout = [i \in Checkouts |-> [content |-> Intact(NoRevision), torn |-> FALSE]]
    /\ history = [i \in Checkouts |-> <<>>]
    /\ outbox = [i \in Checkouts |-> Nothing]
    /\ lost = {}
    /\ verdicts = [i \in Checkouts |-> [r \in Revisions |-> "unknown"]]

\* expirePendingSetupOperations and activeSetupOperation: only an unclaimed operation
\* that is overdue makes room for another one.
Admits(i) == \A n \in ActiveOf(i) : jobs[n].state = "pending"

Enqueue(i, kind, r, of) ==
    LET expired == [n \in DOMAIN jobs |->
                      IF n \in ActiveOf(i) /\ jobs[n].state = "pending"
                      THEN [jobs[n] EXCEPT !.state = "expired", !.completed = IssuedAt(Len(jobs) + 1)]
                      ELSE jobs[n]]
        job == [checkout |-> i, kind |-> kind, revision |-> r, of |-> of,
                completed |-> 0, state |-> "pending", result |-> Nothing]
    IN  /\ Len(jobs) < MaxJobs
        /\ jobs' = Append(expired, job)
        /\ UNCHANGED <<receipts, assigned, runnerVars, verdicts>>

RequestPlan(i, r) == Admits(i) /\ Enqueue(i, "planSetup", r, 0)

\* Mutant: only an approval that is still at work is found again.
UnapprovedNow(p) ==
    \A n \in DOMAIN jobs :
        ~(jobs[n].kind = "applyPlan" /\ jobs[n].of = p /\ jobs[n].state \in InFlight)

\* A plan is approved once: the approval found again answers a repeated request.
Unapproved(p) == \A n \in DOMAIN jobs : ~(jobs[n].kind = "applyPlan" /\ jobs[n].of = p)

\* Mutant: a plan that a newer attempt superseded can still be approved.
ApprovableSuperseded(p, i) ==
    /\ p \in PlansOf(i)
    /\ jobs[p].state = "succeeded"
    /\ jobs[p].result.digest # "conflict"

Approvable(p, i) ==
    /\ p = LatestPlanAttempt(i)
    /\ jobs[p].state = "succeeded"
    /\ jobs[p].result.digest # "conflict"

ApproveAndEnqueueApply(i, p) ==
    /\ p \in PlansOf(i)
    /\ Unapproved(p)
    /\ Approvable(p, i)
    /\ Admits(i)
    /\ Enqueue(i, "applyPlan", jobs[p].revision, p)

\* A receipt can be rolled back once, whatever becomes of the job that tries.
EnqueueRollback(i, a) ==
    /\ a \in JobsOf(i)
    /\ receipts[a] # Nothing
    /\ receipts[a].outcome = "applied"
    /\ \A n \in DOMAIN jobs : ~(jobs[n].kind = "rollbackOperation" /\ jobs[n].of = a)
    /\ Admits(i)
    /\ Enqueue(i, "rollbackOperation", NoRevision, a)

RequestCancellation(n) ==
    /\ n \in DOMAIN jobs
    /\ jobs[n].state \in {"pending", "claimed"}
    /\ jobs' = IF jobs[n].state = "pending"
               THEN [jobs EXCEPT ![n].state = "cancelled", ![n].completed = Now]
               ELSE [jobs EXCEPT ![n].state = "stopping"]
    /\ UNCHANGED <<receipts, assigned, runnerVars, verdicts>>

-----------------------------------------------------------------------------
(* Delivery, as far as it decides what becomes of a job.                     *)

Claim(n) ==
    /\ n \in DOMAIN jobs
    /\ jobs[n].state = "pending"
    /\ outbox[jobs[n].checkout] = Nothing
    /\ jobs' = [jobs EXCEPT ![n].state = "claimed"]
    /\ UNCHANGED <<receipts, assigned, runnerVars, verdicts>>

\* claimJob expires what is overdue, be it executed or not, and sets no completed_at.
ExpireOverdue(n) ==
    /\ n \in DOMAIN jobs
    /\ jobs[n].state \in InFlight
    /\ jobs' = [jobs EXCEPT ![n].state = "expired"]
    /\ UNCHANGED <<receipts, assigned, runnerVars, verdicts>>

\* Mutant: an operation cancelled half way counts as done.
TerminalStateCancelledDone(result) ==
    CASE result.kind = "cancellation" ->
           IF result.recoverability = "manualIntervention" THEN "succeeded" ELSE "cancelled"
      [] result.kind = "error" -> "failed"
      [] OTHER -> "succeeded"

TerminalState(result) ==
    CASE result.kind = "cancellation" -> "cancelled"
      [] result.kind = "error" -> "failed"
      [] OTHER -> "succeeded"

\* Mutant: the rolled back receipt is left as it was.
PersistReceiptOfRollbackForgotten(n, result) ==
    CASE jobs[n].kind = "applyPlan" ->
           /\ receipts' = [receipts EXCEPT ![n] =
                 [outcome |-> IF result.recoverability = "rollbackAvailable"
                              THEN "applied" ELSE "noChange",
                  before |-> assigned, operation |-> result.operation]]
           /\ assigned' = jobs[n].revision
      [] jobs[n].kind = "rollbackOperation" ->
           /\ receipts' = receipts
           /\ assigned' = result.revision
      [] OTHER -> UNCHANGED <<receipts, assigned>>

\* The receipt and the assignment a succeeded operation leaves: persistPortableReceipt.
\* "before" is the assignment it replaces (for properties).
PersistPortableReceipt(n, result) ==
    CASE jobs[n].kind = "applyPlan" ->
           /\ receipts' = [receipts EXCEPT ![n] =
                 [outcome |-> IF result.recoverability = "rollbackAvailable"
                              THEN "applied" ELSE "noChange",
                  before |-> assigned, operation |-> result.operation]]
           /\ assigned' = jobs[n].revision
      [] jobs[n].kind = "rollbackOperation" ->
           /\ receipts' = [receipts EXCEPT ![jobs[n].of].outcome = "rolledBack"]
           /\ assigned' = result.revision
      [] OTHER -> UNCHANGED <<receipts, assigned>>

\* What a report lets the control plane know of checkout i.
Verdict(n, result, i) ==
    CASE result.kind = "plan" ->
           [verdicts[i] EXCEPT ![jobs[n].revision] =
              IF result.digest = "unchanged" THEN "yes" ELSE "no"]
      [] result.kind \in {"apply", "rollback"} ->
           [r \in Revisions |-> IF r = result.revision THEN "yes" ELSE "no"]
      [] OTHER ->
           IF result.recoverability = "manualIntervention"
           THEN [r \in Revisions |-> "no"] ELSE verdicts[i]

\* completeJob: a result that comes after its job ended is refused and forgotten.
CompleteJob(i) ==
    /\ outbox[i] # Nothing
    /\ outbox[i].saved
    /\ LET n == outbox[i].job
           result == outbox[i].result
       IN  IF jobs[n].state \in Held
           THEN /\ jobs' = [jobs EXCEPT ![n].state = TerminalState(result),
                                        ![n].result = result,
                                        ![n].completed = Now]
                /\ IF TerminalState(result) = "succeeded"
                   THEN PersistPortableReceipt(n, result)
                   ELSE UNCHANGED <<receipts, assigned>>
                /\ verdicts' = [verdicts EXCEPT ![i] = Verdict(n, result, i)]
           ELSE UNCHANGED <<serverVars, verdicts>>
    /\ outbox' = [outbox EXCEPT ![i] = Nothing]
    /\ UNCHANGED <<checkout, history, lost>>

-----------------------------------------------------------------------------
(* The runner of a checkout executes the job it holds.  Files that fail, and *)
(* crashes before the commit, are outcomes here.                             *)

\* The result of job n, in the hands of run_once: executeJob has returned.
ReportOf(i, n, kind, digest, r, operation, recoverability) ==
    /\ outbox' = [outbox EXCEPT ![i] =
          [job |-> n, saved |-> FALSE,
           result |-> [kind |-> kind, digest |-> digest, revision |-> r,
                       operation |-> operation, recoverability |-> recoverability]]]
    /\ lost' = lost

Report(i, n, kind, recoverability) ==
    ReportOf(i, n, kind, "none", NoRevision, 0, recoverability)

Holds(i, n, kind) ==
    /\ n \in JobsOf(i)
    /\ jobs[n].kind = kind
    /\ jobs[n].state \in Held
    /\ outbox[i] = Nothing

Whole(c) == [content |-> c, torn |-> FALSE]
Recover(i) == checkout' = [checkout EXCEPT ![i].torn = FALSE]

\* A job is refused, or stopped, with every file as it was; recovery has run before.
StopUnchanged(i, n) ==
    /\ \E kind \in Kinds : Holds(i, n, kind)
    /\ \E result \in {"error", "cancellation"} :
          /\ result = "cancellation" => jobs[n].state = "stopping"
          /\ Report(i, n, result, "notNeeded")
    /\ Recover(i)
    /\ UNCHANGED <<serverVars, history, verdicts>>

\* What an unfinished operation left is not restored: an operation reports that it needs
\* attention, a plan only that it could not be prepared, or was cancelled first.
StopTorn(i, n) ==
    /\ \E kind \in Kinds : Holds(i, n, kind)
    /\ checkout[i].torn
    /\ \E result \in {"error", "cancellation"} :
          /\ result = "cancellation" => jobs[n].state = "stopping"
          /\ Report(i, n, result,
                    IF jobs[n].kind = "planSetup" THEN "notNeeded" ELSE "manualIntervention")
    /\ UNCHANGED <<serverVars, checkout, history, verdicts>>

ExecutePlan(i, n) ==
    /\ Holds(i, n, "planSetup")
    /\ LET r == jobs[n].revision
       IN  ReportOf(i, n, "plan", Digest(checkout[i].content, r), r, 0, "notNeeded")
    /\ Recover(i)
    /\ UNCHANGED <<serverVars, history, verdicts>>

\* What an apply would do to the checkout as it is now.
FreshDigest(i, n) == Digest(checkout[i].content, jobs[n].revision)

\* Mutant: the digest of the plan is not compared.
SameAsReviewedUnchecked(i, n) == FreshDigest(i, n) # "conflict"

\* The plan is computed again and must have the digest that was approved.
SameAsReviewed(i, n) ==
    /\ FreshDigest(i, n) = jobs[jobs[n].of].result.digest
    /\ FreshDigest(i, n) # "conflict"

\* The operation is committed in ahm.db, by a job that may have committed one before.
ExecuteApply(i, n) ==
    /\ Holds(i, n, "applyPlan")
    /\ SameAsReviewed(i, n)
    /\ checkout' = [checkout EXCEPT ![i] = Whole(Intact(jobs[n].revision))]
    /\ history' = [history EXCEPT ![i] =
                     Append(@, [job |-> n, previous |-> checkout[i].content.holds])]
    /\ ReportOf(i, n, "apply", FreshDigest(i, n), jobs[n].revision, Len(history[i]) + 1,
                IF FreshDigest(i, n) = "unchanged" THEN "notNeeded" ELSE "rollbackAvailable")
    /\ UNCHANGED <<serverVars, verdicts>>

LatestInHistory(i) == history[i][Len(history[i])]

\* Operation k of job n is the latest one that was not rolled back.
IsLatest(i, n, k) ==
    /\ history[i] # <<>>
    /\ k = Len(history[i])
    /\ LatestInHistory(i).job = n

CanUndo(i, n) == IsLatest(i, jobs[n].of, receipts[jobs[n].of].operation)

Modified(i) == checkout[i].content.shape = "modified"

ExecuteRollback(i, n) ==
    /\ Holds(i, n, "rollbackOperation")
    /\ CanUndo(i, n)
    /\ ~Modified(i)
    /\ LET previous == LatestInHistory(i).previous
       IN  /\ checkout' = [checkout EXCEPT ![i] = Whole(Intact(previous))]
           /\ ReportOf(i, n, "rollback", "none", previous, 0, "notNeeded")
    /\ history' = [history EXCEPT ![i] = SubSeq(@, 1, Len(@) - 1)]
    /\ UNCHANGED <<serverVars, verdicts>>

\* A rollback of another operation than the latest, or over a conflict: among them the
\* rollback that was committed before a crash, when its job is delivered again.
RefuseRollback(i, n) ==
    /\ Holds(i, n, "rollbackOperation")
    /\ ~CanUndo(i, n) \/ Modified(i)
    /\ Report(i, n, "error", "manualIntervention")
    /\ Recover(i)
    /\ UNCHANGED <<serverVars, history, verdicts>>

\* An operation fails or is cancelled half way and cannot restore what it changed.
StopHalfWay(i, n) ==
    /\ \/ Holds(i, n, "applyPlan") /\ SameAsReviewed(i, n)
       \/ /\ Holds(i, n, "rollbackOperation")
          /\ CanUndo(i, n) /\ ~Modified(i)
    /\ checkout' = [checkout EXCEPT ![i].torn = TRUE]
    /\ \E result \in {"error", "cancellation"} :
          /\ result = "cancellation" => jobs[n].state = "stopping"
          /\ Report(i, n, result, "manualIntervention")
    /\ UNCHANGED <<serverVars, history, verdicts>>

\* finish_job: the result is queued in runner.db, and its job is over for the runner.
FinishJob(i) ==
    /\ outbox[i] # Nothing
    /\ ~outbox[i].saved
    /\ outbox' = [outbox EXCEPT ![i].saved = TRUE]
    /\ UNCHANGED <<serverVars, checkout, history, lost, verdicts>>

\* The worker dies after the commit and before finish_job: the result is gone, and its
\* job, still held, is delivered and executed again.
Crash(i) ==
    /\ outbox[i] # Nothing
    /\ ~outbox[i].saved
    /\ outbox' = [outbox EXCEPT ![i] = Nothing]
    /\ lost' = IF outbox[i].result.kind \in {"apply", "rollback"}
               THEN lost \cup {outbox[i].job} ELSE lost
    /\ UNCHANGED <<serverVars, checkout, history, verdicts>>

\* The person, or a tool of theirs, removes, modifies or puts back what is there.
Edit(i, shape) ==
    /\ ~checkout[i].torn
    /\ checkout[i].content.shape # shape
    /\ shape = "missing" => checkout[i].content.holds # NoRevision
    /\ checkout' = [checkout EXCEPT ![i].content.shape = shape]
    /\ UNCHANGED <<serverVars, history, outbox, lost, verdicts>>

Execute(i, n) ==
    \/ StopUnchanged(i, n)
    \/ StopTorn(i, n)
    \/ ExecutePlan(i, n)
    \/ ExecuteApply(i, n)
    \/ ExecuteRollback(i, n)
    \/ RefuseRollback(i, n)
    \/ StopHalfWay(i, n)

Next ==
    \/ \E i \in Checkouts, r \in Revisions : RequestPlan(i, r)
    \/ \E i \in Checkouts, n \in JobIds : ApproveAndEnqueueApply(i, n) \/ EnqueueRollback(i, n)
    \/ \E n \in JobIds : RequestCancellation(n) \/ Claim(n) \/ ExpireOverdue(n)
    \/ \E i \in Checkouts : FinishJob(i) \/ Crash(i) \/ CompleteJob(i)
    \/ \E i \in Checkouts, n \in JobIds : Execute(i, n)
    \/ \E i \in Checkouts, shape \in Shapes : Edit(i, shape)

Spec == Init /\ [][Next]_vars
-----------------------------------------------------------------------------
(* Properties.                                                               *)

\* Every row, receipt, tree and report has its type, and a receipt is that of an apply.
TypeOK ==
    /\ jobs \in Seq(Rows) /\ Len(jobs) <= MaxJobs
    /\ receipts \in [JobIds -> Receipts \cup {Nothing}]
    /\ \A n \in JobIds :
          receipts[n] # Nothing => n \in DOMAIN jobs /\ jobs[n].kind = "applyPlan"
    /\ assigned \in MaybeRevision
    /\ checkout \in [Checkouts -> Trees]
    /\ history \in [Checkouts -> Seq([job : JobIds, previous : MaybeRevision])]
    /\ outbox \in [Checkouts -> Deliveries \cup {Nothing}]
    /\ lost \subseteq JobIds
    /\ verdicts \in [Checkouts -> [Revisions -> {"unknown", "yes", "no"}]]

\* A decision of the person is carried out at most once: no plan is applied by two
\* jobs and no receipt is rolled back by two, however often the request is repeated.
OneJobPerDecision ==
    \A m, n \in DOMAIN jobs :
        m # n /\ jobs[m].kind = jobs[n].kind /\ jobs[m].of # 0 => jobs[m].of # jobs[n].of

\* An apply does to the checkout what its reviewed plan said, whatever happened to the
\* checkout in between, and however often the job is executed: one that was to change
\* nothing finds the revision in place, one that was to add finds nothing in place, and
\* none goes over what a person modified.  The revision is whole afterwards, and the
\* reviewed plan is still the latest attempt.  (Which skill a "replace" replaces is not
\* part of the digest, so it is not said here.)
AppliesWhatWasReviewed ==
    [][\A i \in Checkouts : Len(history'[i]) > Len(history[i]) =>
          LET plan == jobs[history'[i][Len(history'[i])].job].of
              reviewed == jobs[plan].result.digest
              revision == jobs[plan].revision
              found == checkout[i].content
          IN  /\ reviewed = "unchanged" => found = Intact(revision)
              /\ reviewed = "add" => found.holds = NoRevision \/ found.shape = "missing"
              /\ reviewed = "replace" => found.holds \notin {revision, NoRevision}
              /\ found.shape # "modified"
              /\ checkout'[i].content = Intact(revision)
              /\ plan = LatestPlanAttempt(i)]_vars

\* Operation k of job n is in the history of checkout i.
Kept(i, n, k) == k \in DOMAIN history[i] /\ history[i][k].job = n

\* Receipts agree with the runners' own histories: the operation that a receipt calls
\* rolled back is not in the history any more, and the one it calls applied still is.
\* Only a rollback that has run excuses a receipt that says applied: one whose result
\* has not arrived, came too late, or was lost in a crash.
ReceiptsAreReal ==
    \A i \in Checkouts : \A n \in JobsOf(i) : receipts[n] # Nothing =>
        LET kept == Kept(i, n, receipts[n].operation)
            rollbacks == {m \in JobsOf(i) :
                            jobs[m].kind = "rollbackOperation" /\ jobs[m].of = n}
        IN  IF receipts[n].outcome = "rolledBack" THEN ~kept
            ELSE kept \/ \E m \in rollbacks :
                            jobs[m].state \in Held \cup {"expired"} \/ m \in lost

\* The assignment claims no success that did not happen: it moves only to a revision
\* that the reporting checkout held, whole, when its operation committed.
AssignmentFollowsDisk ==
    [][assigned' # assigned =>
          \E i \in Checkouts :
             /\ outbox[i] # Nothing /\ outbox'[i] = Nothing
             /\ outbox[i].result.kind \in {"apply", "rollback"}
             /\ outbox[i].result.revision = assigned'
             /\ checkout[i].content.holds = assigned']_vars

\* What the browser offers to roll back is the operation the runner would undo: it is
\* the latest of the runner's history, and its receipt allows it.
OfferedRollbackIsLatest ==
    \A i \in Checkouts :
        LET n == Offered(i)
        IN  n # 0 => /\ IsLatest(i, n, receipts[n].operation)
                     /\ receipts[n].outcome = "applied"

\* After a succeeded operation the health shown agrees with the last report that bears
\* on the assigned revision, whichever checkout changed the assignment since.
SettledHealthIsHonest ==
    \A i \in Checkouts :
        LatestOperation(i) \in Succeeded(OperationsOf(i)) /\ assigned # NoRevision =>
            /\ Health(i) = "current" => verdicts[i][assigned] = "yes"
            /\ Health(i) = "drifted" => verdicts[i][assigned] = "no"

=============================================================================
