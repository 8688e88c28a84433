----------------------------- MODULE JobMailbox -----------------------------
(* The durable job mailbox of one runner device: the rows of the PostgreSQL  *)
(* table runner_jobs that carry its device id, and the transactions of       *)
(* PostgresRunnerTransportRepository and PostgresSwitchingRepository that    *)
(* write them.  Every query the device runs filters on its own organization  *)
(* and device, so one device is one mailbox.                                 *)
(*                                                                           *)
(* A row is spread over the functions below, one per column.  An operation   *)
(* is one transaction and therefore one action; the parameter of an action   *)
(* is what the caller sent.                                                  *)
EXTENDS Integers

CONSTANTS
    Jobs,        \* the jobs that may be enqueued
    Instances,   \* project checkouts registered by the device
    Kind,        \* Kind[j]: the job_kind of j
    InstanceOf,  \* InstanceOf[j]: its project_instance_id, or NoInstance
    JobTtl,      \* JobTtl[j]: expires_at - issued_at
    LeaseTtl,    \* leaseTtlMs
    NoInstance,  \* the NULL project_instance_id
    MaxTime,     \* bound on the clock
    MaxLease     \* bound on the leases handed out

Kinds == {"scanProject", "planSetup", "applyPlan", "rollbackOperation",
          "libraryAction", "snapshotSkill", "evaluateSetups"}

\* The kinds the partial unique index of migration 5 is about.
SetupKinds == {"planSetup", "applyPlan", "rollbackOperation"}

ASSUME KindAssumption ==
    /\ Kind \in [Jobs -> Kinds]
    /\ NoInstance \notin Instances
    /\ InstanceOf \in [Jobs -> Instances \cup {NoInstance}]
    /\ \A j \in Jobs : Kind[j] \in SetupKinds => InstanceOf[j] \in Instances

ASSUME TimeAssumption ==
    /\ JobTtl \in [Jobs -> Nat \ {0}]
    /\ LeaseTtl \in Nat \ {0}
    /\ MaxTime \in Nat
    /\ MaxLease \in Nat

VARIABLES
    now,         \* the control plane's clock
    state,       \* state[j]: runner_jobs.state, "absent" before the INSERT
    leaseId,     \* leaseId[j]: lease_id, 0 for NULL
    leaseUntil,  \* leaseUntil[j]: lease_expires_at
    expiresAt,   \* expiresAt[j]: expires_at
    cancel,      \* cancel[j]: cancel_requested_at is not NULL
    result,      \* result[j]: result_json (with result_digest)
    lastLease    \* number of lease ids generated so far

mailboxVars == <<now, state, leaseId, leaseUntil, expiresAt, cancel, result, lastLease>>

Active == {"pending", "leased", "acknowledged"}
Terminal == {"succeeded", "failed", "expired", "cancelled"}

\* What a runner can report, as far as the mailbox tells results apart: the
\* success of the job's own kind, an error, the error jobCancelled, the
\* receipt of a cancelled mutation, or a result that does not bind to the job
\* (another project, revision, digest or operation).
Results == {"value", "error", "jobCancelled", "cancellationReceipt", "unbound"}
NoResult == "none"

ResultMatchesJob(j, r) ==
    /\ r # "unbound"
    /\ r = "cancellationReceipt" => Kind[j] \in {"applyPlan", "rollbackOperation"}

TerminalState(r) ==
    CASE r \in {"cancellationReceipt", "jobCancelled"} -> "cancelled"
      [] r = "error" -> "failed"
      [] OTHER -> "succeeded"

IssuedAt(j) == expiresAt[j] - JobTtl[j]

\* ORDER BY issued_at LIMIT 1: one of the oldest jobs of S.
Oldest(S) == {j \in S : \A k \in S : IssuedAt(j) <= IssuedAt(k)}

SetupJobsOf(i) == {k \in Jobs : InstanceOf[k] = i /\ Kind[k] \in SetupKinds}

------------------------------------------------------------------------------
MailboxInit ==
    /\ now = 0
    /\ state = [j \in Jobs |-> "absent"]
    /\ leaseId = [j \in Jobs |-> 0]
    /\ leaseUntil = [j \in Jobs |-> 0]
    /\ expiresAt = [j \in Jobs |-> 0]
    /\ cancel = [j \in Jobs |-> FALSE]
    /\ result = [j \in Jobs |-> NoResult]
    /\ lastLease = 0

\* enqueueJob: scans, library actions and evaluations are inserted as they come.
EnqueueJob(j) ==
    /\ state[j] = "absent"
    /\ Kind[j] \notin SetupKinds
    /\ state' = [state EXCEPT ![j] = "pending"]
    /\ expiresAt' = [expiresAt EXCEPT ![j] = now + JobTtl[j]]
    /\ UNCHANGED <<now, leaseId, leaseUntil, cancel, result, lastLease>>

\* expirePendingSetupOperations: unclaimed setup operations of a checkout whose
\* deadline has passed.
StalePending(i) ==
    {k \in SetupJobsOf(i) : state[k] = "pending" /\ expiresAt[k] <= now}

\* Mutant: an acknowledged operation is not counted as in flight.
ActiveSetupForgetsAcknowledged(i) ==
    {k \in SetupJobsOf(i) : state[k] \in {"pending", "leased"}} \ StalePending(i)

\* activeSetupOperation, after expirePendingSetupOperations.
ActiveSetup(i) ==
    {k \in SetupJobsOf(i) : state[k] \in Active} \ StalePending(i)

\* The tail shared by enqueuePlan, approveAndEnqueueApply and enqueueRollback,
\* under the row lock on the project instance: expire what nobody claimed, and
\* insert unless a setup operation of the checkout is still active.  The
\* expiry commits in both cases.
EnqueueSetupOperation(j) ==
    /\ state[j] = "absent"
    /\ Kind[j] \in SetupKinds
    /\ LET stale == StalePending(InstanceOf[j])
           free  == ActiveSetup(InstanceOf[j]) = {}
       IN  /\ state' = [k \in Jobs |-> IF k \in stale THEN "expired"
                                       ELSE IF k = j /\ free THEN "pending"
                                       ELSE state[k]]
           /\ expiresAt' = IF free THEN [expiresAt EXCEPT ![j] = now + JobTtl[j]]
                           ELSE expiresAt
    /\ UNCHANGED <<now, leaseId, leaseUntil, cancel, result, lastLease>>

\* The first UPDATE of claimJob: jobs not acknowledged by their deadline.
Overdue == {j \in Jobs : state[j] \in {"pending", "leased"} /\ expiresAt[j] <= now}

\* The jobs the device already holds under a lease that has not run out.
Held ==
    {j \in Jobs \ Overdue : state[j] \in {"leased", "acknowledged"} /\ leaseUntil[j] > now}

\* Mutant: only pending jobs are leased.
ClaimablePending == {j \in Jobs \ Overdue : state[j] = "pending"}

\* The jobs claimJob may lease: pending ones, and held ones whose lease ran out.
Claimable ==
    {j \in Jobs \ Overdue :
        \/ state[j] = "pending"
        \/ state[j] \in {"leased", "acknowledged"} /\ leaseUntil[j] <= now}

ExpireOverdue == [j \in Jobs |-> IF j \in Overdue THEN "expired" ELSE state[j]]

\* claimJob returning a job the device holds already, under its present lease.
ClaimHeld(j) ==
    /\ j \in Oldest(Held)
    /\ state' = ExpireOverdue
    /\ UNCHANGED <<now, leaseId, leaseUntil, expiresAt, cancel, result, lastLease>>

\* randomUUID() for lease_id, which the unique index keeps fresh.
NextLease == lastLease + 1

\* claimJob leasing a job; an acknowledged job whose lease ran out goes back to
\* leased, whatever its deadline.
ClaimNew(j) ==
    /\ Held = {}
    /\ j \in Oldest(Claimable)
    /\ lastLease < MaxLease
    /\ lastLease' = NextLease
    /\ state' = [ExpireOverdue EXCEPT ![j] = "leased"]
    /\ leaseId' = [leaseId EXCEPT ![j] = NextLease]
    /\ leaseUntil' = [leaseUntil EXCEPT ![j] = now + LeaseTtl]
    /\ UNCHANGED <<now, expiresAt, cancel, result>>

\* claimJob with nothing to give.
ClaimNone ==
    /\ Held = {}
    /\ Claimable = {}
    /\ state' = ExpireOverdue
    /\ UNCHANGED <<now, leaseId, leaseUntil, expiresAt, cancel, result, lastLease>>

\* acknowledgeJob.  A repeated acknowledgement of the same lease answers
\* "duplicate" and changes nothing, like every conflict.
CanAcknowledge(j, l) == state[j] = "leased" /\ leaseId[j] = l

AlreadyAcknowledged(j, l) == state[j] = "acknowledged" /\ leaseId[j] = l

AcknowledgeJob(j, l) ==
    /\ CanAcknowledge(j, l)
    /\ state' = [state EXCEPT ![j] = "acknowledged"]
    /\ UNCHANGED <<now, leaseId, leaseUntil, expiresAt, cancel, result, lastLease>>

\* jobControl: renews the lease it is asked under and reports the cancel flag.
HoldsLease(j, l) == state[j] \in {"leased", "acknowledged"} /\ leaseId[j] = l

JobControl(j, l) ==
    /\ HoldsLease(j, l)
    /\ leaseUntil' = [leaseUntil EXCEPT ![j] = now + LeaseTtl]
    /\ UNCHANGED <<now, state, leaseId, expiresAt, cancel, result, lastLease>>

\* completeJob.  A job with a result answers "duplicate" to the same result and
\* "conflict" to any other; both leave the row alone.
\* Mutant: the state of the row is not looked at.
CanCompleteAnyState(j, l, r) ==
    /\ result[j] = NoResult
    /\ leaseId[j] = l
    /\ ResultMatchesJob(j, r)

CanComplete(j, l, r) ==
    /\ result[j] = NoResult
    /\ state[j] = "acknowledged"
    /\ leaseId[j] = l
    /\ ResultMatchesJob(j, r)

CompleteJob(j, l, r) ==
    /\ CanComplete(j, l, r)
    /\ state' = [state EXCEPT ![j] = TerminalState(r)]
    /\ result' = [result EXCEPT ![j] = r]
    /\ UNCHANGED <<now, leaseId, leaseUntil, expiresAt, cancel, lastLease>>

\* requestCancellation: final for a pending job, a request for a held one.
RequestCancellation(j) ==
    /\ state[j] \in Active
    /\ cancel' = [cancel EXCEPT ![j] = TRUE]
    /\ state' = [state EXCEPT ![j] = IF @ = "pending" THEN "cancelled" ELSE @]
    /\ UNCHANGED <<now, leaseId, leaseUntil, expiresAt, result, lastLease>>

Tick ==
    /\ now < MaxTime
    /\ now' = now + 1
    /\ UNCHANGED <<state, leaseId, leaseUntil, expiresAt, cancel, result, lastLease>>

------------------------------------------------------------------------------
Browser ==
    \E j \in Jobs : EnqueueJob(j) \/ EnqueueSetupOperation(j) \/ RequestCancellation(j)

\* A runner may send any lease it was ever given, and any result.
Runner ==
    \/ ClaimNone
    \/ \E j \in Jobs :
        \/ ClaimHeld(j)
        \/ ClaimNew(j)
        \/ \E l \in 1..lastLease :
            \/ AcknowledgeJob(j, l)
            \/ JobControl(j, l)
            \/ \E r \in Results : CompleteJob(j, l, r)

MailboxNext == Browser \/ Runner \/ Tick

MailboxSpec == MailboxInit /\ [][MailboxNext]_mailboxVars

------------------------------------------------------------------------------
\* Type correctness of the columns.
TypeOK ==
    /\ now \in Nat
    /\ state \in [Jobs -> {"absent"} \cup Active \cup Terminal]
    /\ leaseId \in [Jobs -> Nat]
    /\ leaseUntil \in [Jobs -> Nat]
    /\ expiresAt \in [Jobs -> Nat]
    /\ cancel \in [Jobs -> BOOLEAN]
    /\ result \in [Jobs -> Results \cup {NoResult}]
    /\ lastLease \in Nat

\* A checkout never has two setup operations in flight, although acknowledged
\* jobs are leased again after their deadline and stale ones expire in three
\* different places (claimJob, enqueuePlan and its siblings, migration 5).
SingleFlight ==
    \A j, k \in Jobs :
        /\ Kind[j] \in SetupKinds /\ Kind[k] \in SetupKinds
        /\ InstanceOf[j] = InstanceOf[k]
        /\ state[j] \in Active /\ state[k] \in Active
        => j = k

\* No two jobs carry the same lease, so a lease names the attempt it fences.
LeaseNamesOneJob ==
    \A j, k \in Jobs : leaseId[j] = leaseId[k] /\ leaseId[j] # 0 => j = k

\* A stored result explains the terminal state of its job, and only the states
\* expired and cancelled are reached without one: no job is reported succeeded
\* or failed on anything but what a runner delivered.
ResultExplainsState ==
    \A j \in Jobs :
        /\ state[j] = "succeeded" <=> result[j] = "value"
        /\ state[j] = "failed" <=> result[j] = "error"
        /\ result[j] \in {"jobCancelled", "cancellationReceipt"} => state[j] = "cancelled"
        /\ result[j] # "unbound"
        /\ result[j] = "cancellationReceipt" =>
               Kind[j] \in {"applyPlan", "rollbackOperation"}

\* A job that ended stays as it ended: no late claim, acknowledgement, result
\* or cancellation changes its state or its result.
EndIsFinal ==
    [][\A j \in Jobs : state[j] \in Terminal =>
           state'[j] = state[j] /\ result'[j] = result[j]]_mailboxVars
==============================================================================
