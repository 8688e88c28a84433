----------------------------- MODULE JobDelivery -----------------------------
(* The worker of one device (`ahm worker`) delivering the jobs of its        *)
(* mailbox: RunnerWorker::run_once over the SQLite tables operation_journal  *)
(* and result_outbox of RunnerStateStore, calling the control plane over a   *)
(* network that loses, delays and reorders calls, in a process that crashes. *)
(*                                                                           *)
(* The worker is single threaded and holds an OS lock, so it has one pc.     *)
(* Returning an error from run_once and crashing leave the same state: the   *)
(* rows committed so far.  The flush that ends a cycle and the flush that    *)
(* starts the next one are one flush.  The two clocks agree.                 *)
EXTENDS JobMailbox

CONSTANTS
    Idle,       \* the cur of a worker with no lease
    MaxFaults,  \* bound on timed-out calls and crashes together
    MaxWork     \* bound on the times the work of one job is counted

ASSUME DeliveryAssumption == MaxFaults \in Nat /\ MaxWork \in Nat

VARIABLES
    \* durable: runner.db
    journal,    \* journal[j]: "none", "started", "captured" (a checkpointed
                \* result while started) or "done" (a terminal status)
    jresult,    \* jresult[j]: result_json of the journal
    outbox,     \* outbox[j]: "none", "queued" or "delivered"
    outLease,   \* outLease[j]: the lease the result is queued under
    due,        \* due[j]: next_attempt_at has passed
    \* durable: the checkout, the library, ahm.db
    work,       \* work[j]: how often the work of j took effect
    \* volatile: the frame of run_once
    pc,         \* where run_once stands
    todo,       \* the outbox rows the running flush_outbox still has to send
    cur,        \* the lease in hand: job, lease, cancel, late
    curResult,  \* the result of the job in hand
    \* the network
    delayed,    \* calls the client gave up on that may still arrive
    timeouts,   \* timed-out calls so far
    crashes     \* crashes so far

workerVars == <<journal, jresult, outbox, outLease, due, work, pc, todo, cur, curResult>>
networkVars == <<delayed, timeouts, crashes>>
deliveryVars == <<mailboxVars, workerVars, networkVars>>

Mutations == {"applyPlan", "rollbackOperation"}

\* Jobs whose Setup artifacts must be at hand before they run.
NeedsArtifacts == {"planSetup", "applyPlan", "evaluateSetups"}

\* Jobs that upload what they found before their result is queued.
Publishes == {"scanProject", "snapshotSkill"}

Leases == [job : Jobs, lease : Nat, cancel : BOOLEAN, late : BOOLEAN]

\* A timed-out call: what the control plane does if it arrives after all.
Calls ==
    [op : {"claim"}]
    \cup [op : {"acknowledge", "control"}, job : Jobs, lease : Nat]
    \cup [op : {"submit"}, job : Jobs, lease : Nat, result : Results]

Pcs == {"flush", "submit", "claim", "begin", "acknowledge", "control", "prepare",
        "execute", "run", "checkpoint", "publish", "finish"}

DeliveryInit ==
    /\ MailboxInit
    /\ journal = [j \in Jobs |-> "none"]
    /\ jresult = [j \in Jobs |-> NoResult]
    /\ outbox = [j \in Jobs |-> "none"]
    /\ outLease = [j \in Jobs |-> 0]
    /\ due = [j \in Jobs |-> FALSE]
    /\ work = [j \in Jobs |-> 0]
    /\ pc = "flush"
    /\ todo = {}
    /\ cur = Idle
    /\ curResult = NoResult
    /\ delayed = {}
    /\ timeouts = 0
    /\ crashes = 0

------------------------------------------------------------------------------
\* The frames.
KeepRunnerDb == UNCHANGED <<journal, jresult, outbox, outLease, due>>
KeepMailbox == UNCHANGED mailboxVars
KeepNetwork == UNCHANGED networkVars

\* The worker moves on within the cycle, with nothing else changed.
GoTo(p) == pc' = p /\ UNCHANGED <<todo, cur, curResult>>

\* run_once returns; its frame is gone.
EndCycle == pc' = "flush" /\ todo' = {} /\ cur' = Idle /\ curResult' = NoResult

\* The job in hand has its result.
Conclude(r, p) == pc' = p /\ curResult' = r /\ UNCHANGED <<todo, cur>>

------------------------------------------------------------------------------
\* flush_outbox: pending_outbox reads the rows that are due, once.
StartFlush ==
    /\ pc = "flush"
    /\ LET rows == {j \in Jobs : outbox[j] = "queued" /\ due[j]}
       IN  /\ todo' = rows
           /\ pc' = IF rows = {} THEN "claim" ELSE "submit"
    /\ UNCHANGED <<cur, curResult, work>>
    /\ KeepRunnerDb /\ KeepMailbox /\ KeepNetwork

AfterSubmit(j) ==
    /\ todo' = todo \ {j}
    /\ pc' = IF todo' = {} THEN "claim" ELSE "submit"
    /\ UNCHANGED <<cur, curResult, work>>

\* defer_outbox
Defer(j) ==
    /\ due' = [due EXCEPT ![j] = FALSE]
    /\ UNCHANGED <<journal, jresult, outbox, outLease>>

\* submitResult answers "accepted", for the first time or as a duplicate.
Accepted(j) ==
    \/ CanComplete(j, outLease[j], jresult[j])
    \/ result[j] = jresult[j]

SubmitResult(j) ==
    /\ pc = "submit"
    /\ j \in todo
    /\ \/ CompleteJob(j, outLease[j], jresult[j])
       \/ ~CanComplete(j, outLease[j], jresult[j]) /\ KeepMailbox
    /\ IF Accepted(j)
       THEN /\ outbox' = [outbox EXCEPT ![j] = "delivered"]
            /\ UNCHANGED <<journal, jresult, outLease, due>>
       ELSE Defer(j)
    /\ AfterSubmit(j)
    /\ KeepNetwork

\* next_attempt_at passes.
BackoffEnds(j) ==
    /\ outbox[j] = "queued" /\ ~due[j]
    /\ due' = [due EXCEPT ![j] = TRUE]
    /\ UNCHANGED <<journal, jresult, outbox, outLease, work, pc, todo, cur, curResult>>
    /\ KeepMailbox /\ KeepNetwork

\* claim_job, and utc_now() right after it.
Claim ==
    /\ pc = "claim"
    /\ \/ ClaimNone /\ EndCycle
       \/ \E j \in Jobs :
            /\ ClaimHeld(j) \/ ClaimNew(j)
            /\ cur' = [job |-> j, lease |-> leaseId'[j], cancel |-> cancel[j],
                       late |-> expiresAt[j] <= now]
            /\ pc' = "begin"
            /\ UNCHANGED <<todo, curResult>>
    /\ UNCHANGED work
    /\ KeepRunnerDb /\ KeepNetwork

\* Mutant: a job found started is started again, whatever its kind.
InterruptedNever(j) == FALSE

\* begin_job finds an evaluation that was started and has no result.
Interrupted(j) == journal[j] = "started" /\ Kind[j] = "evaluateSetups"

\* Mutant: every row of the journal is taken for a terminal one.
CompletedRedelivered(j) == journal[j] # "none"

\* begin_job finds the terminal row of the job.
Completed(j) == journal[j] = "done"

\* Mutant: a captured snapshot is captured again.
ArtifactPendingNever(j) == FALSE

\* begin_job finds a captured snapshot whose upload is pending.
ArtifactPending(j) == journal[j] = "captured"

\* begin_job: the claim is committed before it is acknowledged.  The outcome
\* (Execute, ArtifactPending, Completed or InterruptedEvaluation) is read off
\* the journal again after the acknowledgement.
BeginJob ==
    /\ pc = "begin"
    /\ LET j == cur.job
       IN  /\ journal' = [journal EXCEPT ![j] = IF @ = "none" THEN "started" ELSE @]
           /\ IF Completed(j)
              THEN /\ outbox' = [outbox EXCEPT ![j] = "queued"]
                   /\ outLease' = [outLease EXCEPT ![j] = cur.lease]
                   /\ due' = [due EXCEPT ![j] = @ \/ outLease[j] # cur.lease]
              ELSE UNCHANGED <<outbox, outLease, due>>
           /\ curResult' = IF Interrupted(j) THEN "value"
                           ELSE IF ArtifactPending(j) THEN jresult[j]
                           ELSE NoResult
    /\ pc' = "acknowledge"
    /\ UNCHANGED <<jresult, work, todo, cur>>
    /\ KeepMailbox /\ KeepNetwork

\* acknowledge_job; a conflict ends the cycle.
Acknowledge ==
    /\ pc = "acknowledge"
    /\ LET j == cur.job
           l == cur.lease
       IN  \/ /\ AcknowledgeJob(j, l) \/ (AlreadyAcknowledged(j, l) /\ KeepMailbox)
              /\ IF Completed(j) THEN EndCycle
                 ELSE IF Interrupted(j) /\ curResult # NoResult THEN GoTo("finish")
                 ELSE GoTo("control")
           \/ /\ ~CanAcknowledge(j, l) /\ ~AlreadyAcknowledged(j, l)
              /\ EndCycle
              /\ KeepMailbox
    /\ UNCHANGED work
    /\ KeepRunnerDb /\ KeepNetwork

\* The job_control call before the work, skipped when the lease said cancelled.
ReadControl ==
    /\ pc = "control"
    /\ LET j == cur.job
           l == cur.lease
       IN  IF cur.cancel THEN GoTo("prepare") /\ KeepMailbox
           ELSE IF ~HoldsLease(j, l) THEN EndCycle /\ KeepMailbox
           ELSE /\ JobControl(j, l)
                /\ cur' = [cur EXCEPT !.cancel = cancel[j]]
                /\ pc' = "prepare"
                /\ UNCHANGED <<todo, curResult>>
    /\ UNCHANGED work
    /\ KeepRunnerDb /\ KeepNetwork

\* prepare_required_artifacts.  A captured snapshot goes straight to its
\* upload, unless the job was cancelled meanwhile.
Prepare ==
    /\ pc = "prepare"
    /\ IF ArtifactPending(cur.job)
       THEN IF cur.cancel THEN Conclude("jobCancelled", "finish") ELSE GoTo("publish")
       ELSE \/ GoTo("execute")
            \/ /\ ~cur.cancel
               /\ Kind[cur.job] \in NeedsArtifacts
               /\ Conclude("error", "finish")
    /\ UNCHANGED work
    /\ KeepRunnerDb /\ KeepMailbox /\ KeepNetwork

\* Mutant: a cancelled job reports the receipt of its success.
CancelledResultReceipt(j) == "value"

\* cancellation_before_execution
CancelledResult(j) ==
    CASE Kind[j] = "evaluateSetups" -> "value"
      [] Kind[j] \in Mutations -> "cancellationReceipt"
      [] OTHER -> "jobCancelled"

\* The head of execute: one more job_control call unless the job is known to be
\* cancelled, then the refusals.
StartExecution ==
    /\ pc = "execute"
    /\ LET j == cur.job
           l == cur.lease
           cancelled == cur.cancel \/ cancel[j]
       IN  /\ IF cur.cancel \/ ~HoldsLease(j, l) THEN KeepMailbox ELSE JobControl(j, l)
           /\ IF ~cur.cancel /\ ~HoldsLease(j, l) THEN Conclude("error", "finish")
              ELSE IF cancelled THEN Conclude(CancelledResult(j), "finish")
              ELSE IF cur.late THEN Conclude("error", "finish")
              ELSE GoTo("run")
    /\ UNCHANGED work
    /\ KeepRunnerDb /\ KeepNetwork

\* The work renews its lease whenever it polls for cancellation.
KeepAlive ==
    /\ pc = "run"
    /\ JobControl(cur.job, cur.lease)
    /\ ~cancel[cur.job]
    /\ UNCHANGED workerVars
    /\ KeepNetwork

\* Mutant: a rollback does not ask for the latest operation.
CanTakeEffectAgain(j) == work[j] < MaxWork

\* A rollback that was committed is refused: its operation is marked, and no longer
\* the latest one.  An apply is planned again, and refused (RunFails) when the
\* digest differs from the approved one: it need not differ, when nothing was to
\* change in the first place or when what was added has been removed meanwhile.
CanTakeEffect(j) ==
    /\ work[j] < MaxWork
    /\ Kind[j] = "rollbackOperation" => work[j] = 0

NextAfterWork(j) ==
    IF Kind[j] = "snapshotSkill" THEN "checkpoint"
    ELSE IF Kind[j] \in Publishes THEN "publish" ELSE "finish"

\* The work is done: for a mutation, its transaction in ahm.db has committed.
RunSucceeds ==
    /\ pc = "run"
    /\ CanTakeEffect(cur.job)
    /\ work' = [work EXCEPT ![cur.job] = @ + 1]
    /\ Conclude("value", NextAfterWork(cur.job))
    /\ KeepRunnerDb /\ KeepMailbox /\ KeepNetwork

\* The work fails; a mutation leaves nothing behind.  An evaluation always reports its
\* failures in its result, and its sessions have been paid for.
RunFails ==
    /\ pc = "run"
    /\ Kind[cur.job] # "evaluateSetups"
    /\ Conclude("error", "finish")
    /\ UNCHANGED work
    /\ KeepRunnerDb /\ KeepMailbox /\ KeepNetwork

\* The work polls, finds itself cancelled, restores and reports that.
RunCancelled ==
    /\ pc = "run"
    /\ cancel[cur.job]
    /\ Kind[cur.job] \in Mutations
    /\ JobControl(cur.job, cur.lease)
    /\ Conclude("cancellationReceipt", "finish")
    /\ UNCHANGED work
    /\ KeepRunnerDb /\ KeepNetwork

\* checkpoint_artifact_result
Checkpoint ==
    /\ pc = "checkpoint"
    /\ journal' = [journal EXCEPT ![cur.job] = "captured"]
    /\ jresult' = [jresult EXCEPT ![cur.job] = curResult]
    /\ GoTo("publish")
    /\ UNCHANGED <<outbox, outLease, due, work>>
    /\ KeepMailbox /\ KeepNetwork

\* publish_scan_artifacts: done, or refused for good.
Publish ==
    /\ pc = "publish"
    /\ \/ GoTo("finish")
       \/ Conclude("error", "finish")
    /\ UNCHANGED work
    /\ KeepRunnerDb /\ KeepMailbox /\ KeepNetwork

\* Mutant: the result is queued and the journal row left started.
FinishedJournalStarted(j) == [journal EXCEPT ![j] = @]

FinishedJournal(j) == [journal EXCEPT ![j] = "done"]

\* finish_job: journal and outbox in one transaction.
FinishJob ==
    /\ pc = "finish"
    /\ LET j == cur.job
       IN  /\ journal' = FinishedJournal(j)
           /\ jresult' = [jresult EXCEPT ![j] = curResult]
           /\ outbox' = [outbox EXCEPT ![j] = "queued"]
           /\ outLease' = [outLease EXCEPT ![j] = cur.lease]
           /\ due' = [due EXCEPT ![j] = TRUE]
    /\ EndCycle
    /\ UNCHANGED work
    /\ KeepMailbox /\ KeepNetwork

------------------------------------------------------------------------------
\* The call the worker has outstanding at pc.
Request(j) ==
    CASE pc = "claim" -> [op |-> "claim"]
      [] pc = "submit" -> [op |-> "submit", job |-> j, lease |-> outLease[j],
                           result |-> jresult[j]]
      [] pc = "acknowledge" -> [op |-> pc, job |-> cur.job, lease |-> cur.lease]
      [] OTHER -> [op |-> "control", job |-> cur.job, lease |-> cur.lease]

\* A call times out, or its answer is lost.  A failed submission is deferred, a
\* failed control call becomes the result of execute, and any other failure
\* ends the cycle.
CallFails ==
    /\ timeouts + crashes < MaxFaults
    /\ timeouts' = timeouts + 1
    /\ \/ /\ pc = "submit"
          /\ \E j \in todo :
                /\ delayed' = delayed \cup {Request(j)}
                /\ Defer(j)
                /\ AfterSubmit(j)
       \/ /\ \/ pc \in {"claim", "acknowledge"}
             \/ pc = "control" /\ ~cur.cancel
          /\ delayed' = delayed \cup {Request(Idle)}
          /\ EndCycle
          /\ KeepRunnerDb /\ UNCHANGED work
       \/ /\ pc = "execute" /\ ~cur.cancel
          /\ delayed' = delayed \cup {Request(Idle)}
          /\ Conclude("error", "finish")
          /\ KeepRunnerDb /\ UNCHANGED work
       \/ /\ pc \in {"prepare", "publish"}   \* an artifact that was not transferred
          /\ EndCycle
          /\ KeepRunnerDb /\ UNCHANGED <<work, delayed>>
    /\ UNCHANGED crashes
    /\ KeepMailbox

\* A call nobody waits for any more reaches the control plane.
LateArrival ==
    \E c \in delayed :
        /\ delayed' = delayed \ {c}
        /\ CASE c.op = "claim" ->
                    ClaimNone \/ \E j \in Jobs : ClaimHeld(j) \/ ClaimNew(j)
             [] c.op = "acknowledge" ->
                    \/ AcknowledgeJob(c.job, c.lease)
                    \/ ~CanAcknowledge(c.job, c.lease) /\ KeepMailbox
             [] c.op = "control" ->
                    \/ JobControl(c.job, c.lease)
                    \/ ~HoldsLease(c.job, c.lease) /\ KeepMailbox
             [] c.op = "submit" ->
                    \/ CompleteJob(c.job, c.lease, c.result)
                    \/ ~CanComplete(c.job, c.lease, c.result) /\ KeepMailbox
        /\ UNCHANGED <<workerVars, timeouts, crashes>>

\* The process dies.  A mutation cut off before its commit is restored by the
\* recovery that precedes the next one, and an evaluation's sessions are paid
\* for however far they got.
Crash ==
    /\ timeouts + crashes < MaxFaults
    /\ crashes' = crashes + 1
    /\ work' = IF pc = "run" /\ Kind[cur.job] = "evaluateSetups" /\ work[cur.job] < MaxWork
               THEN [work EXCEPT ![cur.job] = @ + 1] ELSE work
    /\ EndCycle
    /\ UNCHANGED <<delayed, timeouts>>
    /\ KeepRunnerDb /\ KeepMailbox

------------------------------------------------------------------------------
Users ==
    /\ \/ Tick
       \/ Browser
    /\ UNCHANGED <<workerVars, networkVars>>

Worker ==
    \/ StartFlush \/ (\E j \in Jobs : SubmitResult(j)) \/ Claim \/ BeginJob
    \/ Acknowledge \/ ReadControl \/ Prepare \/ StartExecution \/ RunSucceeds
    \/ RunFails \/ RunCancelled \/ Checkpoint \/ Publish \/ FinishJob

Backoff == \E j \in Jobs : BackoffEnds(j)

DeliveryNext == Users \/ Worker \/ KeepAlive \/ Backoff \/ CallFails \/ LateArrival \/ Crash

DeliverySpec == DeliveryInit /\ [][DeliveryNext]_deliveryVars

\* The worker loop keeps running (bin/ahm.rs restarts a failed cycle), and a
\* retry time comes.  Nothing is assumed of users, of the clock, or of calls
\* that timed out.
FairDeliverySpec ==
    /\ DeliverySpec
    /\ WF_deliveryVars(Worker)
    /\ WF_deliveryVars(Backoff)

------------------------------------------------------------------------------
\* Type correctness of the worker's state.
DeliveryTypeOK ==
    /\ TypeOK
    /\ journal \in [Jobs -> {"none", "started", "captured", "done"}]
    /\ jresult \in [Jobs -> Results \cup {NoResult}]
    /\ outbox \in [Jobs -> {"none", "queued", "delivered"}]
    /\ outLease \in [Jobs -> Nat]
    /\ due \in [Jobs -> BOOLEAN]
    /\ work \in [Jobs -> Nat]
    /\ pc \in Pcs
    /\ todo \subseteq Jobs
    /\ cur \in Leases \cup {Idle}
    /\ curResult \in Results \cup {NoResult}
    /\ delayed \subseteq Calls
    /\ timeouts \in Nat
    /\ crashes \in Nat

\* WORKSPACE-BOUNDARIES: "commits a claim before acknowledging it ... commits
\* the result before delivery".  Whatever the control plane believes, the
\* runner can still account for after a crash.
CommittedBeforeSent ==
    \A j \in Jobs :
        /\ state[j] = "acknowledged" => journal[j] # "none"
        /\ result[j] # NoResult => journal[j] = "done" /\ jresult[j] = result[j]

\* The outbox never drops a result the control plane has not stored.
DeliveredIsStored ==
    \A j \in Jobs : outbox[j] = "delivered" => result[j] # NoResult /\ result[j] = jresult[j]

\* WEB-CONTROL-PLANE-RUNNER-PLAN: "retries its durable result outbox ... without
\* re-executing a completed job".  Lost calls, expired leases and redeliveries
\* repeat no work: an evaluation spends its allowance once and a rollback is
\* committed once, and every further commit of an apply takes a crash of its own,
\* between a commit in ahm.db and the one that saves its result in runner.db.
RepeatedOnlyByCrash ==
    \A j \in Jobs :
        /\ Kind[j] \in {"evaluateSetups", "rollbackOperation"} => work[j] <= 1
        /\ Kind[j] = "applyPlan" => work[j] <= 1 + crashes

\* A job reported as succeeded was really carried out, and only a cancelled
\* evaluation reports a value for work that was never begun.
SuccessIsReal ==
    \A j \in Jobs :
        state[j] = "succeeded" /\ Kind[j] # "evaluateSetups" => work[j] >= 1

\* A durable result, even one whose upload is pending, ends execution: no
\* redelivery runs the job again, and a finished job never changes its result.
ResultEndsExecution ==
    [][\A j \in Jobs :
        /\ journal[j] \in {"captured", "done"} => work'[j] = work[j]
        /\ journal[j] = "done" => journal'[j] = "done" /\ jresult'[j] = jresult[j]]_deliveryVars

\* Whatever the worker and the network do, the mailbox sees its own operations.
ImplementsMailbox == MailboxSpec

\* Every job that was enqueued ends, although calls time out and arrive late,
\* the worker crashes, and leases and deadlines pass meanwhile.
EveryJobEnds == \A j \in Jobs : state[j] \in Active ~> state[j] \in Terminal

==============================================================================
