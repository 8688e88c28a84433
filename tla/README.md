# Skills Hub: a TLA+ verification project

Skills Hub lets a person keep *Setups* (revisions of named bundles of agent skills) in a hosted
**control plane** (`apps/control-plane`, TypeScript over PostgreSQL) and apply them to checkouts of
projects on their own machine through a **runner** (`crates/ahm-runner`, Rust over SQLite and the
file system), which also keeps the person's own library of skills. A **web** application asks for
the work and shows what became of it; a small desktop **helper** pairs a computer and keeps the
runner's worker alive.

Everything of interest happens at a distance: the browser writes a job, the runner fetches it,
changes directories that the person edits at the same time, and reports back over a network that
loses and delays calls, from a process that crashes; and what the browser shows are answers that
come late and out of order. This project models that path, from the click to the files and back.

## How to run it

```
tlc -config MCJobDelivery.cfg MCJobDelivery    # model-check one instance; the runs are below
tlapm RunnerJobsProofs.tla                     # check the proofs of one module
```

Source names and line numbers of every definition are in `PROJECT.json` under `map`. Definitions
whose comment starts with *Mutant* are deliberately wrong versions of the definition below them;
no specification uses them. Each shows which mistake in the code one of the properties catches.

## Inventory

| Component | State | Operations | Interacts with | What is hard | Correct when |
|---|---|---|---|---|---|
| **Job mailbox** (`runner-transport-pg.ts`, `switching-pg.ts`) | rows of `runner_jobs`: state, lease, deadline, cancel flag, result | enqueue, claim, acknowledge, control, complete, cancel, expire | browser requests on one side, the worker's calls on the other; row locks | leases and deadlines run out while a call is under way; repeated and late calls; three places that expire | one setup operation per checkout; a lease names one job; an end is final and explained by a stored result |
| **Transport, long polling, authentication** (`runner-transport.ts`, `http.ts`, `hosted-auth.ts`) | `JobSignal` generations and waiters of each server process, credential hashes, sessions | check a bearer credential, claim, wait for a job, wake, time out | in front of the mailbox | a wake between the look and the wait; a process other than the one that enqueued; a revocation during a wait | no poll sleeps over a job its process was told of; a revoked runner is cut off |
| **Worker and runner.db** (`worker.rs`, `state.rs`, `job_dispatcher.rs`, `bin/ahm.rs`) | `operation_journal`, `result_outbox`, the frame of `run_once` | flush, claim, begin, acknowledge, control, prepare, execute, checkpoint, publish, finish | calls the mailbox, runs the operations of the Setup service | a crash between any two steps, redelivery, a result that cannot be delivered now | claim committed before acknowledged, result before sent; work done again only after a crash between its commit and its result; every job ends |
| **Setup apply and rollback** (`setup_service.rs`, `sync_engine.rs`, `project_lock.rs`) | `ahm.db` (`skill_targets`, `projects`, `apply_operations`, `filesystem_recovery_journal`) and the checkout's directories | plan, apply, rollback, assign, recover | called by the worker and by the command line, next to the person's editor | files and database are two stores; every file operation can fail; cancellation; edits in the middle | both or neither; torn content can be undone; a rollback gives back what was there; the person's content survives |
| **Setup switching** (`switching-pg.ts`, `switching.ts`, `runner-transport-pg.ts`) | plans, approvals, `operation_receipts`, `project_assignments` | request a plan, approve it, roll back, cancel; persist a receipt; derive health and the offered rollback | web on one side, mailbox on the other, several checkouts share an assignment | stale plans, repeated approvals, late results, results lost to expiry, drift | one job per decision; what is applied was reviewed; receipts, assignment and health follow the disk |
| **Enrollment** (`runner-transport-pg.ts`, `useRunnerConnection.ts`) | one-time codes, devices, credentials; the tab's generation, code, computer | create a code, claim it, revoke, choose a computer, poll | helper and command line claim, the tab polls | a claim whose answer is lost, a code that expires meanwhile, overlapping polls | a code enrolls once; the tab comes to show the computer that claimed it |
| **Setup library** (`setups-pg.ts`, `library-setups-pg.ts`) | Setups, revisions, publications | create, publish a revision, add a captured skill, capture a Default | web, results of snapshots and scans | two writers of the next revision number or of one name; requests repeated after a lost answer | revisions are immutable and numbered without gaps; answers are true; a repeated addition is answered as the first one |
| **Projects and scans** (`projects-pg.ts`, `useProjectScan.ts`, `ProjectScanWorkspace.tsx`) | projects, scans, the Default; the tab's selected project, scan, choice, capture | create, select, scan, choose, capture, poll, reload | mailbox, Setup library | answers about another project, an older poll after a newer one, reloads | what is reviewed and captured belongs to the project that is selected |
| **Switch screen** (`useSetupSwitch.ts`, `ProjectSwitchWorkspace.tsx`) | the operation and plan that are shown, conflicts, locks, request sequences | prepare, approve, roll back, cancel, recover, dismiss, poll the job, poll the operations | switching | two polls that tell of one operation, clicks while polls are out, operations of others | the screen does not go back; it recovers once; it shows the plan that was asked for |
| **Skills page and library actions** (`SkillsHub.tsx`, `LibraryProvider.tsx`, `library_commands.rs`, `library.rs`) | skills, their targets and rows, central folders, directories of tools | install, import, synchronize, enable, disable, delete, in bulk | mailbox (a command is a job), the person's directories | two tabs, lost jobs, cut-off commands, tools that share a directory | rows follow directories; success is real; the person's own directories stay |
| **Updates of skills** (`installer.rs`, `auto_update.rs`, `library.rs`) | central folders, staging directories, hashes, copies, the schedule and its status | update one, update all, due, run, record | worker loop, Skills page, the person's directories | a kill between remove and rename, a copy that fails, edits, missing projects | content survives; reported means propagated; edits are kept; what is due runs |
| **Artifact bundles** (`artifact-digest.ts`, `artifact_cache.rs`, `content_hash.rs`) | bundles by digest on both sides | upload, download, verify, cache | worker's prepare and publish | retried uploads, a cache entry cut off half way | a bundle is what its digest says |
| **Evaluations** (`evaluations-pg.ts`, `evaluation.rs`) | runs, budgets, measurements | start, run repetitions, compare, cancel | mailbox, worker | spending twice, stopping in time | started once; every run ends with a result |
| **Worker process and locks** (`worker_control.rs`, `project_lock.rs`, `cancel_token.rs`) | lock files, stop file, cancel token | start, stop, status, reconnect | helper, command line | a stop request for a worker that is gone; two starts at once | one worker; one operation per checkout |
| **Helper** (`apps/helper`) | pairing link, supervised child | pair, start, stop, restart | worker process, enrollment | a link used twice, a child that dies | a paired computer has one worker |
| **Stores, tool adapters, command line, views, protocol types, migrations, in-memory repositories** | none of their own beyond the above | | | | |

`PROJECT.json` lists the sources of each part, and under `hazards` the places of this code where
something could go wrong that a test would hardly reach, with the property that watches each, or
with the reason why none does.

## The modules

```
      browser                        control plane                      computer of the person

   SwitchScreen  ----requests--->  SetupSwitching  ---one step--->  SetupApply  (file by file)
                                                                      | refines
                                                                    AtomicSetups  (as a whole or not at all)
   ProjectScan   ----requests--->  SetupLibrary = SetupChains
   RunnerConnection --codes, devices--
                                   RunnerAccess   (server processes, polls, revocation)
                                      | uses
                                   JobMailbox  <--refines-- JobDelivery  (worker, network, crashes)

   SkillsHub     ----commands, each a job; lost or cut off------->  rows and directories of the library
                                                                    SkillUpdate  (updates, step by step)
```

Each module is about what the others take for granted, and has an `MC` module of its constants.

### JobMailbox

One device's rows of `runner_jobs`. A row is spread over functions, one per column (`state`,
`leaseId`, `leaseUntil`, `expiresAt`, `cancel`, `result`); an action is one transaction of
`PostgresRunnerTransportRepository` or `PostgresSwitchingRepository`, and its parameter is what the
caller sent. `claimJob` is three actions, as it has three answers (a lease already held, a new
lease, nothing), and each includes the UPDATE that first expires what is overdue. The queries of a
device filter on organization and device, so one device is one mailbox. A runner may send any lease
it was ever given and any result: the specification does not trust it. `Results` keeps what the
mailbox tells apart: the success of the job's kind, an error, the two forms of a cancellation, and
a result that does not bind to the job.

### RunnerAccess

`RunnerTransportService` in front of `JobMailbox`, sharing its variables. A call of the runner is
authenticated (`stage`), then claims, or acts on a job; a claim that finds nothing waits at the
server process that took it (`at`) and claims again when it is woken or its 25 seconds are over.
`generations` has the counter of each process's `JobSignal`, `seen` the value the call read before it
claimed. A browser request commits its row (`queuedAt`) and signals its own process in a later step
(`unsignalled`). Server processes are replaced, and lose their waiters; a runner is revoked at any
time, also between its authentication and its claim. `AccessImplementsMailbox` (proved) says that
all this only ever runs transactions of the mailbox.

### JobDelivery

The worker of that device on top of `JobMailbox`, sharing its variables. `pc` follows
`RunnerWorker::run_once` call by call, because a crash or a timeout can fall between any two;
`journal`, `jresult`, `outbox`, `outLease` and `due` are the columns of `runner.db`, which survive;
`pc`, `todo`, `cur` and `curResult` are the frame, which does not. `work[j]` counts how often the
work of `j` took effect. A call can time out (`CallFails`), and then it may still arrive at any
later time, in any order (`delayed`, `LateArrival`). A crash and an error returned from `run_once`
leave the same state for the worker; they are counted apart (`timeouts`, `crashes`), as only a crash
repeats work. The work itself succeeds, fails, or is cancelled, also when it is run again: its commit in
`ahm.db` and its result in `runner.db` are two commits, and after a crash between them the job is
delivered and run once more. A rollback that was committed is then refused, as its operation is no longer
the latest one (`setup_service.rs:1418`). An apply is planned again and refused only if the digest
differs from the approved one (`job_dispatcher.rs:395`), which it need not, so that it may take effect
a second time (`CanTakeEffect`). Why the digests agree or differ is in `SetupSwitching`.
`ImplementsMailbox` says that the mailbox, seen through the worker, crashes and network, still only
takes the steps of `MailboxSpec`.

### SetupApply

`SetupService::sync_checked_cancellable`, `rollback_checked` and the recovery journal, for one
checkout. `disk[p]` is what is at a target: nothing, a skill of the library, content that is torn,
or content of the person's. `tracked`, `assigned`, `applied`, `history` and `recovery` are the
rows of `ahm.db`; `op` is the running operation, cut at every file operation and lost in a crash.
Whatever begins first restores what an interrupted operation left, as
`recover_incomplete_operation_locked` does. File operations fail half way, commits fail, jobs are
cancelled at each checkpoint, the process dies, and the person edits a target at any time.
Abstracted: link or copy, the ownership records of several tools for one target, updates of a skill's
content in the library. `before` is a history variable that only the properties read.

### AtomicSetups

What all this promises, without a journal, a file operation or a fault: an apply, an assignment and a
rollback take effect as a whole, in the checkout and in the records, or not at all; a rollback undoes the last
apply that stands; and the person changes things at any time. `SetupApply` implements it
(`ImplementsAtomic`). Its checkout is `InEffect`, which is what is on disk, and where the journal has a row, what that
row leads back to: half of an operation does not show, and all of it shows in the step that commits, as that
step deletes the row. Its history is `Found`, the applies with what they found; `RolledBack` are those
undone. `Interfered` says that the person changed something while an operation was under way. Then the
end of that operation may show the change in part or take it back, but never touches content of the person's
that was in view (`PersonsStays`), and this is the only freedom the specification leaves: undisturbed, the
result of an apply and of a rollback is determined by what was there.

### SetupSwitching

The conversation of which the modules above are single steps. `jobs` is the sequence of
`runner_jobs` rows in the order of `issued_at`; `receipts` and `assigned` are
`operation_receipts` and `project_assignments`; `checkout`, `history` and `outbox` are each
runner's disk, `apply_operations` and result under way. Actions are the requests
(`RequestPlan`, `ApproveAndEnqueueApply`, `EnqueueRollback`, `RequestCancellation`), the parts of
delivery that decide what becomes of a job (`Claim`, `ExpireOverdue`, `CompleteJob`), the execution
by `LocalJobExecutor` with every outcome it can report (`Execute`) and the person's `Edit`. An execution
ends with its commit in `ahm.db`, and the result is in the hands of the worker; `FinishJob` saves it in a
later step, and `Crash` may come between: the result is gone, and the job, still held, is executed again.

A revision stands for one skill, at a path that all revisions share. `checkout[i].content` says of which
revision that skill is (`holds`) and whether it is as we left it, missing or modified; `torn`
that an operation is to be recovered from. `Digest` is what the digest of a plan tells apart: that nothing is
to change, that something is added, replaced, or in conflict. As in the code it does not say which
skill is replaced, nor whether what is added was there before and is missing. An apply is
executed if the digest found now is the one that was approved (`SameAsReviewed`). An operation is
named by its place in `history[i]`, which stands for its id; a result and a receipt carry it, and a rollback
is refused unless it is the last one (`IsLatest`).
`Health`, `Materialized` and `Offered` are the derivations of `projectInstanceOperations`.
Timestamps are ordered by the requests: job *n* is issued at 2*n* - 1, and everything between two
requests happens at the moment between them, which keeps every comparison the code makes (a plan
counts only if it completed after the latest operation) without a clock.

Excluded: operations of the local command line on the same checkout (the control plane is told of
none of them), refusals because the runner is offline or lacks a capability (they change nothing),
and a capture of the Default Setup after the first request. `verdicts` and `lost` (the jobs of which a
crash took the result of a commit) are history variables.

### SetupLibrary and SetupChains

People who publish into the library of one organization at the same time: create a Setup, publish a
revision of one, add a skill that a runner captured, capture a project's Default. A request is one
PostgreSQL transaction, and an action is the part of it up to the next statement that waits for a
lock or reads what another transaction may write: `LockJob`, `FindPrior`, `LockSetup`,
`CheckLatest`, `CheckName`, `InsertSetup`, `LockProject`, `FindDefault`, `Commit`, and `Break` for a
connection that is lost. `setups`, `revisions`, `publications` and `assigned` are committed rows;
`locks` are rows locked FOR UPDATE and names inserted into the unique index but not committed. What
a transaction inserts appears at its commit, whose answer may be lost. `SetupChains` is the promise:
each Setup is a sequence that grows by one revision at its end; `SetupLibrary` implements it with
the rows of each Setup as its sequence.

Abstracted: an item is a skill together with its content and its target; a project has one scan that
succeeded; the items of a request are selected from one revision. Left out because they change
nothing: membership, the presence of the uploaded bundle, the bound of 5,000 items. `assigned` has
the writes of a capture; the other writers of the assignment are in `SetupSwitching`. `sentAfter` is
a history variable.

### RunnerConnection

Connecting a computer: the rows of `runner_enrollments` and `runner_devices`, computers that claim
a code and repeat a claim whose answer was lost, and one tab with `useRunnerConnection`. `generation`
is the ref that clicks take anew and polls compare; `poll[s]` is a poll in flight with the
generation it read and, once the server has answered, its reply. Clicks (`CreateEnrollment`,
`SelectRunner`) wait for their own answers. Polls and clicks overlap, fail and land in any order; the
page is reloaded with the code and the computer it stored. Abstracted: the two requests of one poll
are one step; a failed poll's error is folded into `GoesOffline`. `reset` is not modelled.

### SwitchScreen

`useSetupSwitch` over the operations of one checkout, which others ask for as well. `job` is what
the control plane has; the rest is the hook's state and refs: the tracked operation, the plan and
conflict shown, what was dismissed, the recoveries handled, the sequence that makes older polls
worth nothing (`Outdate`), and `locked`, the ref that lets one submission run at a time. `call[s]` is
a request in flight, which reads the server in one step and lands in a later one; its handler then
continues as the code does, including the recovery that prepares a plan anew after an apply failed
because its plan no longer held. The project can be left and selected again. Left out: health and
error texts, the revision selected at first, the composer of Setups. A cancelled operation is a
failed one that may hide an outcome.

### ProjectScan

`useProjectScan` with `ProjectScanWorkspace`, over `projects`, `scan` jobs and the capture. `tab` is
the hook's state; `calls` and polls in flight carry the context version (and poll number) they read
when they began, and `Stale` answers are dropped as the code drops them. Projects are created,
selected, scanned, reviewed and captured; others create, capture and publish; the page is reloaded
with the selection it stored. A project has one checkout, and its runner is ready.

### SkillsHub

The Skills page of one or more tabs over one runner's library: `central`, `disk`, `target` and the
skill rows are the runner's, `shown[w]` what a tab last loaded, `handler[w]` the handler at work in a tab
with the commands it has still to send, `call[w]` the command it waits for. Each command is one job;
the handlers (`Toggling`, `Deleting`, `Restore`, bulk synchronization) send several, one after the
other, with the data they read at the start. A call can be lost and run later (`lost`), the worker can die within a
command, a path can fail to be removed, tools come and go, the person edits directories. Tools can
share a directory. Abstracted: the fingerprint an import compares is the content itself; a command that
is not cut short is one step.

### SkillUpdate

`update_managed_skill_from_source` and the scheduled run, cut where a kill or a failure leaves a
different disk: fetch into staging, remove the central folder, rename, record the row and its hash,
then each copy, removed and written. `auto` is the schedule's row with the status of the last run;
`hashing` whether the build records hashes. `check_owned_targets` guards every command
(`OwnsTargets`), the locks of all projects guard the scheduled run (`Locks`). Left out: sources that are
found by name, targets of disabled skills and uninstalled tools, targets of Cursor recorded as
links.

## What the runs check

`pass` runs are exhaustive over the instance; their properties hold in every reachable state.
Deadlock is not checked in any of them: an instance runs out of jobs, time or faults and stops, and
so may the system, which is idle when nobody asks for anything.

| Run | Instance | Question | Answer |
|---|---|---|---|
| `access` | a plan and an apply of one checkout, two server processes, one poll at a time; clock to 1, two leases | Does a poll sleep over a job it was signalled, does a revoked runner go on, are two operations ever in flight, does an end change? (`NoLostWakeUp`, `RevocationTakesEffect`, `SingleFlight`, `EndIsFinal`) | never |
| `delivery` | an apply and a snapshot, or an evaluation, or a rollback; one crash or call timed out, four leases, clock to 2 | Is everything the control plane believes backed by what the runner has committed, is work repeated by anything but a crash, is it really done when reported, does a failed upload lead to a second capture, does the mailbox only take its own steps, does every job end? (`CommittedBeforeSent`, `RepeatedOnlyByCrash`, `SuccessIsReal`, `ResultEndsExecution`, `ImplementsMailbox`, `EveryJobEnds`) | yes; only an apply, by a crash; and no second capture |
| `apply` | two targets, two skills, two revisions, two applies with their rollbacks, two faults, one edit | Do operations take effect as a whole or not at all, and do files and database agree, across failures, cancellation and crashes? (`ImplementsAtomic`, `RecoveryLeadsBack`, `RecordsMatchDisk`, `RollbackUndoes`, `PlannedContentKept`) | yes |
| `switching` | four requests, for one checkout with content that is edited, removed and put back, and a crash after a commit, or for two checkouts of one project | Do decisions, receipts, assignment, health and the offered rollback stay true to the checkout? (`OneJobPerDecision`, `ReceiptsAreReal`, `OfferedRollbackIsLatest`, `SettledHealthIsHonest`, `AppliesWhatWasReviewed`, `AssignmentFollowsDisk`) | yes |
| `library` | three requests of any kind, a project, a Setup, a captured skill for a target that a Setup may have | Does anything published at the same time get lost, renumbered or mixed up, is an answer untrue, or does anyone wait for ever? (`ImplementsChains`, `AnswersAreTrue`, `SomeRequestProceeds`) | never |
| `connection` | two codes, two computers, two polls in flight, three generations | Can two computers use one code; does the tab settle on the computer that claimed its code? (`CodeUsedOnce`, `ClaimSettles`) | no; yes |
| `screen` | two operations, two calls in flight, two revisions | Does the screen go back, recover twice, or show the plan of another revision? (`NoWayBack`, `RecoversOnce`, `OnlyTheRequestedPlan`) | never |
| `scan` | two projects, a scan, a call and two polls in flight, one reload | Does the tab show another project's scan, lose a review, or miss the end of a scan? (`OnlySelectedProject`, `ReviewIsKept`, `ScanEndIsShown`) | never |
| `hub` | two tabs, a skill, two tools that share a directory, a project, two handlers, one event | Is the person's own content kept, do rows follow directories, is success real, does enabling restore? (`OwnContentIsKept`, `RowsFollowDisk`, `SuccessIsReal`, `EnablingRestores`) | yes |
| `hub_delete` | the same, one tab | Does deleting a skill spare what the person put there? (`DeletionSparesOwnContent`) | **no**, see below |
| `update` | two skills, a copy in a home directory and one in a project, a link; one change, one fault, one request | Is content ever gone, is "updated" true, are edits kept, does a due update run? (`ContentSurvives`, `SuccessMeansPropagated`, `EditsAreKept`, `DueUpdatesRun`) | never; yes; yes; yes |
| `update_refusals` | the same | Is "local changes" said only of changed targets? (`RefusalsAreHonest`) | **no**, see below |

### Bounds

- *Clock and leases.* Time matters only as the order of a lease's end, a job's deadline and the
  calls between. In `delivery` an apply's deadline (30 seconds in the code) comes before a lease
  ends (5 minutes, as the deadline of the others), so that jobs are overdue while leased and leased
  again; four leases allow each job a second one and one lost to the fault. In `access` a lease may
  end before the deadline is looked at; two leases are a first and a second one.
- *Faults.* One fault is one call that times out and may still arrive at any later time, or one
  crash, at any point; in `apply` two are needed for a fault during the recovery from a fault.
- *`MaxWork` = 2* lets `RepeatedOnlyByCrash` fail if it can: work is counted beyond one, and without a crash
  one is all there may be.
- *`SomeComeAlone`* keeps the evaluation and the rollback out of the instances with the two other jobs. It only
  forbids requests, which nobody is obliged to make, so that it takes no behaviour of the worker
  away and is sound for `EveryJobEnds` as well.
- *Applies.* Two applies and their rollbacks reach an apply over the leavings of another, a
  rollback of the second to the first, and a second rollback. Two targets are enough to have one
  operation half done; two skills to have a target replaced. The two revisions of `MCSetupApply`
  replace one target and add or remove the other.
- *Requests.* Four are the shortest histories with a plan, its apply, a further plan and a second
  apply, or a rollback with a request racing it. With two checkouts, they are an apply on either
  (`SecondIsPlain`: then without edits, crashes, cancellations and jobs that end without effect, and with the first job on
  the first checkout, from which the second does not differ). At most two times does a job end without
  effect, or lose its result in a crash, the latter once: the job that is repeated and its repetition, or the
  job that was committed and the redelivery that is refused. Histories have up to three operations: two
  applies and the repetition of one. The theorems have none of these bounds.
- *`EditsWait`* lets a checkout be edited only while its runner holds a job and has no result in hand.
  Nothing but the execution of a job reads the shape of a checkout, so that an edit made earlier can
  as well be made then; no property of the run looks at the shape at another moment. *`SavedAtOnce`* decides right after an
  execution whether its result is saved or lost: what comes in between neither reads nor changes that, and a
  run in which it comes first differs from one in which it comes later in nothing the properties see.
- *Library requests.* Three are one whose answer was lost, another one in between, and the first
  repeated; they are interchangeable (`Symmetry`), as none of the properties is a liveness property.
  `MaxRevision` = 2 lets a request expect the first revision, stale by then perhaps, or the second,
  which may not be there yet.
- *Items.* The scan finds one skill, whose target is that of the captured one; a request selects that or the item of
  the Setup that is there from the start.
- *`OneSurprise`* (`update`): where a request and the schedule meet, there is one fault or one change of
  the person's, not both. Without a request or without a schedule there may be both.
- *Calls in flight.* Two are a late answer and the one it overtakes, which is what the guards of
  the hooks (generation, sequence, context version) are about. Three generations are the start and
  two clicks; two operations are the one shown and a later one.
- *Tabs.* Two tabs, with one handler each, interleave command by command; a third would only repeat
  what the second does to the first.

### Fairness

- `delivery`: weak fairness of the worker's step and of a retry time that comes. `bin/ahm.rs` runs the
  worker in a loop that starts the next cycle after a failed one, and the bounded number of faults
  stands for a worker that is not killed for ever.
- `access`: weak fairness of the next step of each call; a wait of 25 seconds that is over
  (`setTimeout`) is such a step.
- `connection`: the interval of the polls fires (weak fairness of `PollStarts`, per slot), and a poll that
  begins again and again is read by the control plane and answered in the end (strong fairness of
  `PollRead` and `PollLands`: any single one may fail or be overtaken).
- `scan`: the interval fires, polls that were overtaken end some day (weak fairness), and again and again
  a newest poll is read and its answer adopted before the next one outdates it (strong fairness of `NewestServed` and
  `PollAdopted`); see *observed* below for what happens otherwise.
- `update`: weak fairness of the steps of an update at work, of the maintenance that the worker's loop
  calls each cycle, and of the passing of time.
- The other runs have safety properties only, and take none. `SomeRequestProceeds` is an invariant:
  each request takes a bounded number of steps, so that none waits for ever if always one can go on.

## What the code does not keep

Two runs check a sentence of the repository and find it violated, by a sequence of ordinary steps.

1. **Deleting a skill deletes the person's directory** (`hub_delete`). `delete_managed_skill` removes
   what is at the path of every target row, rows of a disabled skill included
   (`library_commands.rs:1503`), and `check_owned_targets` skips rows that are disabled
   (`library.rs:173`). A directory the person made where the disabled link was is removed with the skill. The
   roadmap says that unmanaged content is never deleted without an adoption decision.
2. **"Local changes" where there are none** (`update_refusals`). A copy is compared with the hash
   recorded for its skill, and a release build records none (`installer.rs:704`), so that every action on a
   skill with a copy is refused. With hashes, the same follows a copy that failed, or was cut off, after the new
   hash was recorded.

**Observed while modelling**, each a counterexample of TLC to a property the modules had for it, or
read off the code where the model shows the step; no run keeps them:

- *Delivery.* `claimJob` leases an acknowledged job again when its lease ran out, whatever its deadline
  (`runner-transport-pg.ts:620`), and its first UPDATE expires a leased job past its deadline. If the answer of that
  claim is lost, the next one expires a job that was acknowledged in time; the runner's committed
  result is then refused each time, though `WORKSPACE-BOUNDARIES.md` says it is retried until acknowledged.
- *Redelivery.* The plan (`WEB-CONTROL-PLANE-RUNNER-PLAN.md:83`, `:177`, `:226`) calls mutating jobs and their repeated
  delivery idempotent. An apply that was committed when the worker crashed, before `finish_job`
  (`worker.rs:328`), is executed again; if nothing was to change, or what was added has been removed meanwhile, the
  digest is the approved one and a second row of `apply_operations` is committed (`setup_service.rs:1347`). The receipt
  names the second; where something was added twice, its rollback leads back to the revision that the first one put there,
  and not to what was there before the job.
- *Redelivered rollback.* A rollback that was committed before such a crash fails as "not the latest"
  (`setup_service.rs:1418`) when it is executed again. Its receipt stays applied although the history has lost the
  operation, and no second rollback can be asked for.
- *Digest of a plan.* It covers the revision, the actions and the conflicts (`job_dispatcher.rs:686`), not what is replaced,
  and not whether an added skill was absent or only missing. An apply can so go ahead over a checkout that
  is not the one reviewed; `AppliesWhatWasReviewed` says what of the review still holds.
- *Apply.* An *add* target is in the recovery plan before it is written. What the person puts there
  after the plan is removed by the restore that follows the refusal (`setup_service.rs:2193`).
  Content that was there at the plan is safe (`PlannedContentKept`).
- *Health.* A plan counts only if it completed after the latest operation, whatever became of that
  (`switching-pg.ts:389`): an apply that is cancelled before it ran hides reported drift.
- *First rollback.* The runner has no revision before the first apply, so its rollback reports none, and the
  control plane deletes the assignment of the Default Setup (`runner-transport-pg.ts:271`); a test calls
  this "restores assignment", with a receipt that names the default.
- *Repeated capture.* It is compared with the latest revision of the Default (`projects-pg.ts:329`), so
  that after a second revision the same request, sent again after a lost answer, is refused; a test says that the
  capture "makes retry idempotent".
- *Choosing a computer.* A poll that begins while `selectRunner` waits has its generation, and may put the old
  code or computer back after the choice was adopted (`useRunnerConnection.ts:106`).
- *Job polls of the switch screen.* They are timed by an effect that does not depend on the error a failed
  poll sets (`useSetupSwitch.ts:356`): once the operations report nothing in flight, one failed poll is the last, and the
  screen keeps an operation that has ended.
- *Polls of a scan* invalidate the one before every 1.5 seconds (`useProjectScan.ts:154`): answers that take longer
  are all dropped. `refreshProjects` has no such guard, so that an older list may replace a newer one.
- *Updates.* A kill between the removal and the rename leaves the content in the staging directory and the next
  update refuses as the central path is missing; a project directory that is gone stops every scheduled
  run (`library.rs:210`); a kill in a run leaves the status "running", and the page's button busy until the next
  one; edits made through a link or in the central folder are overwritten, as only copies are compared.
- *Skills page.* A disable that fails to remove a link writes the row as disabled all the same, and nothing takes the
  link away before the skill is deleted (`library_commands.rs:1189`); unsynchronizing a tool that is not detected
  does nothing and reports success; a bulk action that is cancelled ends its current item only
  (`LibraryProvider.tsx:53`). A tab whose list is stale enables a skill with the targets it shows: one that another
  tab has recorded since stays disabled under an enabled skill (`SkillsHub.tsx:1827`), which is why
  `EnablingRestores` speaks of the targets that the page shows.

## What is proved

`tlapm` checks every theorem below for every value of the constants: any set of jobs, checkouts,
revisions, skills and targets, any deadlines and lease length, any bound on time, leases, faults,
edits and requests.

| Module | Theorem | Says |
|---|---|---|
| `RunnerJobsProofs` | `TypeCorrect`, `SingleFlightHolds`, `LeasesNameJobs`, `ResultsExplained`, `EndsAreFinal` | the rows keep their types, one setup operation per checkout, a lease names one job, an end is explained by a stored result and is final |
| `RunnerJobsProofs` | `AccessImplementsMailbox`, `AccessTypeCorrect`, `NoWakeUpIsLost` | servers, polls, signals and revocation only run the mailbox's transactions; no poll sleeps over a job its server has signalled |
| `RunnerJobsProofs` | `DeliveryTypeCorrect`, `CommitsBeforeSending`, `DeliversWhatIsStored`, `CrashesAloneRepeat`, `SuccessesAreReal`, `ResultsEndExecution` | what the control plane believes is backed by what the runner committed; an evaluation and a rollback take effect once, an apply once more for each crash at most; what is reported was done |
| `RunnerJobsProofs` | `DeliveryImplementsMailbox` | `DeliverySpec => MailboxSpec`: each step of the worker, of a late call, of a fault is a mailbox operation or leaves the mailbox alone |
| `RunnerJobsProofs` | `CodesRegisterOnce`, `ConnectionTypeCorrect`, `SettledStays` | a one-time code registers one computer, however often it is tried; a tab that has settled on it keeps showing it |
| `SetupApplyProofs` | `OperationsAreAtomic` | `Spec => ImplementsAtomic`: whatever fails or is cut off, an apply, an assignment and a rollback happen in one step of `AtomicSetups`, and nothing else shows |
| `SetupApplyProofs` | `ApplySafe`, `ApplyTypeCorrect`, `TornCanBeUndone`, `RowLeadsBack`, `PersonsContentStays`, `RecordsFollowTheDisk`, `RollbackGivesBack` | a journal row names all that an operation may touch and leads back to the disk as it was; the person's content stays; records and disk agree; a rollback gives back the disk that its apply found |
| `SetupSwitchingProofs` | `SwitchingTypeCorrect`, `DecidedOnce` | the types of rows, receipts, checkouts and histories; no plan applied twice, no receipt rolled back twice |
| `SetupSwitchingProofs` | `ReceiptsMatchHistories`, `ReviewedThenApplied`, `AssignmentIsOnDisk`, `OfferedIsOnTop`, `HealthIsHonest` | a receipt says what became of its operation in the runner's history, but for rollbacks whose result is out, expired or lost; an apply does what the reviewed actions said; the assignment is on a disk; the rollback on offer is of the latest apply; the health shown is the last report that bears on the assigned revision |
| `SetupLibraryProofs` | `NobodyWaitsForEver` | among any transactions under way, one waits for no lock: no deadlock |
| `SetupLibraryProofs` | `LibraryTypeCorrect`, `LibraryTellsTheTruth`, `LibraryImplementsChains` | every answer is true, whoever publishes at the same time; `Spec => ImplementsChains`: a step leaves all chains alone or appends one whole revision to one of them |
| `SkillsHubProofs` | `HubTypeCorrect`, `RowsAreOfSkills`, `PersonsContentIsKept`, `RowsAndDiskInStep` | rows are of skills that exist; the person's content stays, but for disabled rows and imports that take it over; rows and directories keep in step, however tools share directories |
| `SkillsHubProofs` | `HandlersProgress`, `SuccessMeansDone`, `EnablingPutsBack` | a handler that reports success did all it was asked, and enabling puts the targets back that the page shows |
| `SkillUpdateProofs` | `NoSkillIsLost`, `PersonsWorkIsKept`, `SuccessIsPropagated` | the machine holds a whole folder of every skill at every moment; edits made before an update stay; "updated" is true |
| `SwitchScreenProofs` | `ScreenTypeCorrect`, `ShowsTheRequestedPlan`, `RecoversEachOnce`, `PollsGoForward` | the plan shown is the one asked for; a failed apply is recovered from once; no poll takes the screen back |
| `ProjectScanProofs` | `ScanTypeCorrect`, `ShowsTheSelectedProject`, `ReviewIsThePersons` | what the tab shows is of the project selected; no answer and no reload changes what is reviewed |

**Assumptions.** `KindAssumption` (a setup operation has a checkout), `TimeAssumption` (deadlines
and leases are positive), `DeliveryAssumption`, `SwitchingAssumption`, `UpdateAssumption`,
`HubAssumption`, `NothingAssumption`, `AbsentAssumption` and the others of that form (NULL is none of
the values of its column, a missing row none of the rows, bounds are numbers). Each is in the
module that declares the constants, and TLC evaluates it in every run of that module.

**Mailbox.** `TypeOK` is inductive, and with it so are `SingleFlight` and `ResultExplainsState`;
their proofs rest on `StepOfOneJob`, which says that a step inserts a job, moves it among the active
states, drops it without a result, or completes it with one, and on `NewSetupOperationIsAlone`,
which is what the check under the row lock comes to. `EndsAreFinal` follows from `StepOfOneJob`
alone. `LeaseNamesOneJob` is not inductive: it needs `LeasesIssued`, that no lease number is larger
than the last one issued, so that the next one is fresh.

**Access.** Each action of `RunnerAccess` is shown to be one transaction of the mailbox or to leave
its rows alone, whatever the stage of its call. `NoLostWakeUp` rests on `WakeInv`, the argument of the
long poll: a call reads the generation before it claims, so what is announced after its claim came
back empty has moved the generation on before the call can sleep.

**Delivery.** None of the properties is inductive by itself, and one invariant, `DeliveryInv`, carries
them all. Beside the types and the mailbox's lemmas it says what the rows of `runner.db` mean
(`RowsOK`: only terminal rows are queued, a result is of work that was done), what a call that timed
out may still do (`NetworkOK`: a late acknowledgement is of a journalled job, and a late submission
carries the result of the journal), and what the frame of `run_once` is entitled to at its place in
the code (`FrameInv`). Without `NetworkOK`, a late submission could store what the journal does not
say; without the part of `FrameInv` called `EvaluationsRunOnce`, an evaluation that was started
before a crash could be on its way to run a second time. A mutation can take effect again, as a crash can
separate its commit in `ahm.db` from its journal row in `runner.db`. `CrashesAloneRepeat` says that nothing else
repeats it, neither a lost call nor a new lease: an apply that is about to run has taken effect as many times as the
worker has crashed, at most, since otherwise its journal row would be terminal. A rollback does not even then,
by its refusal in the Setup service (`CanTakeEffect`).

**Apply.** `JournalFirst` says that an operation that writes has a journal row naming all that it may
touch, and that one that restores has still to restore all that is half-written; with
`RollbackTargets` (a rollback that writes puts back what the operation it undoes recorded) it makes
`TornIsRecoverable` inductive. `LeadsBack` adds that the row names no content of the person's, which is what
lets a restore remove what it finds; `RecordsLeadToDisk` says that while nobody edits, records match the
disk, or the row leads back to it, or the rest of the operation leads to what is wanted.
`RollbackUndoes` relates the end of a rollback to the beginning of an apply that may be many
operations ago. `UndoInv` carries it over: the applies that were not rolled back are a stack
(`StackInv`), each planned over what the one below it left (`Over`); and within an operation,
`PlannedWell` says what was found and decided of each target, `DoneSoFar` how far the work is.

`OperationsAreAtomic` is a refinement, action by action, under the same invariants. A file operation does
not show: it touches only targets of the row (`ApplyTargets`: what an operation still has to remove or add is in the row;
`JournalFirst`), and for these `InEffect` is what the row says. Writing the row does not show, as it says what is there
(`RowIsWhatIsThere`). What does show is the commit (`CommitShows`: the row goes, and the disk is the result of the whole
operation by `DoneSoFar`), an assignment, an edit, and the end of a restore that the person disturbed; an undisturbed
restore leads back to what was in effect all along (`RestoredShows`). That a torn target always has a row
(`TornIsRecoverable`) is what makes every value of `InEffect` whole.

**Switching.** `SwitchingInv` is `TypeOK /\ Links`. `Links` says what the references among rows mean:
the apply that a rollback row names is an earlier row, an apply, and has a receipt; a result under
way is for a row of its own checkout. `TypeOK` is not inductive without it, because
`persistPortableReceipt` writes the outcome of the receipt that a rollback row names, and only
`Links` makes that a receipt of an apply. `DecidedOnce` then follows from the checks `Unapproved` and that of
`EnqueueRollback`: rows are only ever appended, and no step changes the kind of a row or what it
names (`StepOfTheTable`). What the receipts, the assignment, the health and the offered rollback say of a
disk takes `AgreeingInv`, which adds to `SwitchingInv` that the control plane and the runner of each
checkout agree (`Agreement`): the operation in flight is the last row of its checkout; a result in the hands of the
worker is true of the disk, and names the operation on top of the history (`ReportIsTrue`); the last apply that
succeeded is on top (`LatestApplyOnTop`); what a receipt calls applied is in the history at its place, or was
rolled back by a job that is expired, whose success is still out, or was lost in a crash (`ReceiptsFollowHistory`);
and a verdict follows from a report. What a committed rollback leaves behind when its job ends otherwise is
the reason for the exceptions in `ReceiptsAreReal`. A commit whose result is lost needs no exception where it is an
apply's: a receipt is only written for the operation that a result names, which is the one committed last.
None of the five is inductive without it, as each reads
a row of the control plane and means a disk that moved while the result was on its way.

**Library.** A transaction reads, waits and inserts at its commit. `LibraryInv` says which locks
it holds where it stands (`Standing`, `Holding`), that nobody else holds them (`Exclusive`), and what it read that
is still so because of them (`Checked`), up to its commit; with it the revisions of a Setup are the
numbers from 1 on, each once (`Whole`), and an answer that was given stays true. The refinement maps these rows to
sequences: `ChainIn` is the sequence of a Setup's revisions, and `GrownChain` says that an insert appends to it.

`NobodyWaitsForEver` is the argument for locks taken in one order, which the requests keep: a job or a
project first, then a Setup or the name of a new one. `InOrder` says where a transaction stands that holds a lock of each kind. Who
holds a Setup or a name is past its last wait; who waits for one waits for such a holder; and who waits for a job or
a project waits for one that is past it. So of any transactions under way one waits for nobody.

**Skills page.** `HubInv` (types, and that rows belong to managed skills) and `GroupOfPath` (the
rows of detected tools at one path are the group that a command marks) carry what a single command
does. What a whole handler did takes `PageInv`. Its part `Progress` says of a handler that is alone with the library
and has not failed: what it has sent was done (`DoneAfter`) and still is (`DoneKept`), as nothing that
comes after undoes it. That rests on the lists the handlers start with (`Startable`, `Coherent`), a lemma for
each handler; for bulk synchronization it is that a tool which shares its directory with a chosen one is not
unsynchronized. The proof found the module wrong in two ways that its run did not reach: enabling a skill that another tab
has deleted is an error (`skill_store.rs:407`), and with a stale list a target may stay disabled (above).

**Updates.** `SwapInv` adds to the types that the new folder stays in the staging directory until it is
in place (`StagedUntilPlaced`), which is what makes the removal of the old one harmless. For
`EditsAreKept`, `EditsInv` says that an update which got past `check_owned_targets` has none of the
person's work among the copies it writes: the work of a person is never what a recorded hash
says (`Accept`). For the success, `PropagationInv` says that a copy is right or is still to be
written. The first attempt at `EditsAreKept` failed for a reason: a target that is removed and
edited again while its copy is being written is the person's second work, not the one that the
update met, and `before` had to lose what the person changes.

**Enrollment.** `CodesAreSpent` says that a code which registered a device is claimed; as only a code that waits can be
claimed, the next device finds another one.
`ConnectionInv` adds what polls in flight carry: an answer about a code that says "claimed" names the computer that
claimed it, and stays true, and it never says that the computer is unknown (`TrueReply`, `ClaimsAreKnown`). `SettledStays` is
the half of `ClaimSettles` that is a safety property: once the tab shows the computer and every poll of the
current generation is about its code, only a reload or the answer of a choice can change that. The
condition on the polls is needed: without it the counterexample is the late poll under *Choosing a computer*.

**Switch screen.** `ScreenInv` needs, beside types and the bounds of every operation number, three facts about calls in
flight. `PollIsLatest`: the poll that can still be adopted is the only one, asked for after everything that the screen
tracks, which is `NoWayBack`. `RecoveryIsHandled`: an operation that is recovered from, or will be by a `refreshState`
under way, was handled before, and only one such call is out. `LockHeld`: the lock of the screen
belongs to a call that will let it go, and is free in a screen that was left.

**Project scan.** `ScanInv` relates the tab to calls that may be answered at any time. A call of the current context is about
what the tab shows (`FitsTab`), and an answer, once read, stays true (`Honest`): a scan keeps its project and its end, and
the first revision of a Default its content (`Kept`). `ReviewIsKept` takes two more: `ScanIsAlone`, that nobody
polls while a new scan is asked for, and `NewestIsAlone`, that no poll can be adopted once the end of the scan is shown. The
second holds because an interval that sees an end has seen it in the newest poll, and an error
of the newest poll cannot follow an end.

**Only model-checked.** Liveness under fairness is out of the prover's reach: `EveryJobEnds`, `ClaimSettles`,
`ScanEndIsShown`, `DueUpdatesRun`, `RevocationTakesEffect`. Half of
`ClaimSettles`, that what it comes to stays, is `SettledStays`; that it comes to it is left to TLC. `ENABLED` is out of reach as
well, in `SomeRequestProceeds` (a step of a request can be taken); what it says of the locks is proved as
`NobodyWaitsForEver`. Every other property of a passing run has a theorem.

## What is not modelled

- **Views and forms**: `SkillDetailView`, `ToolsPage`, `SettingsPage`, `ExplorePage`, `UpdatesPage`, the layout of
  `SkillsHub.tsx` and of `ProjectSwitchWorkspace.tsx`, `SetupLibrary.tsx`, `SetupEvaluation.tsx`, and the
  1,268 lines of texts in `i18n/resources.ts`. They hold no state beyond a form, and send
  one request each. They are more than half of the lines of the web application.
- **Network and disk as such**: fetching from git and GitHub, HTTP parsing, spawning evaluation
  sessions. They are nondeterministic outcomes where a module needs them.
- **Request validation, browser sessions, tenancy.** Every query filters on the organization; modules have
  one. Validators refuse before anything changes.
- **Artifact bundles by digest**, on either side: content is compared by hashes whose collisions a model
  would have to invent; what is left is one rename.
- **Repetitions and budget of an evaluation**: one job of `JobDelivery`, started once; what it measures is its data.
- **The worker's process**: its lock and stop file, reconnecting to another workspace (which resets
  `runner.db`), and the helper that supervises it. `JobDelivery`, `SetupApply` and `SkillUpdate` have one worker.
- **Two operations on one checkout at a time.** The project lock is assumed by `SetupApply`.
- **In-memory repositories** are test doubles; **protocol types and migrations** are the sets of kinds and columns in
  the modules.

## Plan

Done: the modules above; of every safety property that a run checks there is a theorem. What would add most next is
a module of the worker's process (lock, stop file, restart, reconnect), on which `JobDelivery` would rest, with the
theorem that its steps keep one worker at a time; and `Execute` of `SetupSwitching` restated over `AtomicSetups`, so
that what the control plane is told of is, by refinement, what `SetupApply` does file by file.
