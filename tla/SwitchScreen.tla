----------------------------- MODULE SwitchScreen -----------------------------
(* The screen on which a person switches the Setup of one checkout: the hook *)
(* useSetupSwitch and the buttons of ProjectSwitchWorkspace, over a control  *)
(* plane of which only the operations of the checkout matter here (they are  *)
(* SetupSwitching): one at a time, asked for by this screen and by others.   *)
(*                                                                           *)
(* The screen polls the operations every 1.5 seconds and the job it tracks   *)
(* 750 ms after each answer about it, sends what the person clicks, and goes *)
(* on with the answer of each when it lands, in any order.  What is asked    *)
(* about the operations carries a sequence number, of which here remains     *)
(* whether it is still the last one (call.fresh).  The project can be left   *)
(* and selected again, which resets the screen but gives it the same context *)
(* key: answers that land in between are dropped, later ones are not.        *)
(*                                                                           *)
(* Left out: the health, which disables some buttons, error texts, which     *)
(* revision is selected in a screen opened for none (any may be prepared),   *)
(* the Setup composer, and the answer planDigestMismatch of an approval: it  *)
(* sends the digest of the plan it names.                                    *)
EXTENDS Integers, Sequences

CONSTANTS
    Revisions, NoRevision,
    Slots,         \* the calls that can be in flight at once
    MaxJobs        \* bound on the operations of the checkout

ASSUME ScreenAssumption == NoRevision \notin Revisions /\ MaxJobs \in Nat

VARIABLES
    job,           \* the operations of the checkout, oldest first
    requested,     \* requestedRevisionId: the revision the screen was opened for
    here,          \* the project of the checkout is the one selected
    loading, submitting,
    known,         \* state: the revisions of the project were read
    operations, activeJob, jobStatus, plan,
    outcome,       \* receipt or restored
    conflict,      \* operationConflict
    dismissed,     \* dismissedReviewedPlanJobId
    handled,       \* handledTerminalJobs
    locked,        \* refreshingJob
    armed,         \* the timer of the next job poll runs
    call,          \* call[s]: what the screen waits for in slot s
    recovered      \* the applies for which refreshJob asked for a new plan, since the
                   \* project was selected

shown == <<loading, submitting, known, operations, activeJob, jobStatus, plan, outcome, conflict>>
refs == <<dismissed, handled, locked, armed>>
vars == <<job, requested, here, shown, refs, call, recovered>>

\* A cancelled operation is a failed one here, but that it hides an outcome shown.
Ends == {"succeeded", "failed", "mismatch"}

\* An operation; "of" is the plan an apply was asked for, or the apply a rollback.
Jobs == [kind : {"plan", "apply", "rollback"}, rev : Revisions \cup {NoRevision},
         of : 0 .. MaxJobs, state : Ends \cup {"running"}]

\* Operations are numbered in their order; 0 is none.
Last == Len(job)
Running == IF Last > 0 /\ job[Last].state = "running" THEN Last ELSE 0
Ended(kind) == {n \in DOMAIN job : job[n].kind = kind /\ job[n].state = "succeeded"}
Asked(kind, r, n) ==
    job' = Append(job, [kind |-> kind, rev |-> r, of |-> n, state |-> "running"])

\* A screen that was opened for no revision treats all alike.
Distinct == IF requested = NoRevision THEN {NoRevision} ELSE Revisions

\* What the control plane says of the checkout: the operation in flight, the plan to
\* review, which any later operation hides, and the apply that can be rolled back.
View == [active |-> Running,
         reviewed |-> IF Last \in Ended("plan") THEN Last ELSE 0,
         latest |-> IF \E n \in Ended("apply") : \A m \in n + 1 .. Last : job[m].kind = "plan"
                    THEN CHOOSE n \in Ended("apply") : \A m \in n + 1 .. Last : job[m].kind = "plan"
                    ELSE 0]
NoView == [active |-> 0, reviewed |-> 0, latest |-> 0]
NoStatus == [job |-> 0, state |-> "none"]

\* A call.  "fresh": the sequence number it took is still the last; "owns": it is
\* the one that holds refreshingJob; "then": what follows a refreshState; "view":
\* what was read, or in its "active" the job of the answer.
NoCall == [kind |-> "none", fresh |-> FALSE, owns |-> FALSE, job |-> 0, rev |-> NoRevision,
           then |-> "none", reply |-> "none", view |-> NoView]
CallOf(kind) == [NoCall EXCEPT !.kind = kind, !.fresh = kind \in {"operations", "state"}]
Free(s) == call[s] = NoCall
Answered(s, kind) == here /\ call[s].kind = kind /\ call[s].reply # "none"

Init ==
    /\ job \in {<<>>, <<[kind |-> "apply", rev |-> NoRevision, of |-> 0, state |-> "succeeded"]>>}
    /\ requested \in Revisions \cup {NoRevision}
    /\ here = FALSE /\ loading = TRUE /\ submitting = FALSE
    /\ known = FALSE /\ operations = NoView
    /\ activeJob = 0 /\ jobStatus = NoStatus /\ plan = 0 /\ outcome = "none" /\ conflict = 0
    /\ dismissed = 0 /\ handled = {} /\ locked = FALSE /\ armed = FALSE
    /\ call = [s \in Slots |-> NoCall] /\ recovered = <<>>

------------------------------------------------------------------------------
(* The operations of the checkout.                                           *)

\* Another browser asks for a plan.
OtherAsks ==
    /\ Running = 0 /\ Last < MaxJobs
    /\ \E r \in Distinct : Asked("plan", r, 0)
    /\ UNCHANGED <<requested, here, shown, refs, call, recovered>>

\* The operation in flight ends; an apply may find that its plan no longer holds.
OperationEnds ==
    /\ Running # 0
    /\ \E end \in Ends :
        /\ end = "mismatch" => job[Last].kind = "apply"
        /\ job' = [job EXCEPT ![Last].state = end]
    /\ UNCHANGED <<requested, here, shown, refs, call, recovered>>

------------------------------------------------------------------------------
(* What the screen tracks.                                                   *)

Tracked(active, ops) == IF active # 0 THEN active ELSE ops.active
Settled(status) == status.state \in Ends

InProgress ==
    LET j == Tracked(activeJob, operations) IN
    /\ j # 0
    /\ IF jobStatus.job = j THEN ~Settled(jobStatus) ELSE operations.active # 0

Working == submitting \/ InProgress

\* The effect that arms the timer of the job polls.
Rearm ==
    LET j == Tracked(activeJob', operations')
    IN  armed' = (j # 0 /\ ~(jobStatus'.job = j /\ Settled(jobStatus')))

\* It runs when an object it depends on was replaced: an operation in flight that
\* arrives is a new object each time, none in flight is the same as before.
RearmIf(replaced) ==
    IF replaced \/ activeJob' # activeJob THEN Rearm ELSE UNCHANGED armed

\* Mutant: the plan of any revision is adopted.
FitsAny(j) == TRUE

Fits(j) == requested = NoRevision \/ job[j].rev = requested

\* adoptOperations, in a screen that no longer tracks the operation "ended".
Reviewable(view) ==
    view.active = 0 /\ view.reviewed # 0 /\ Fits(view.reviewed) /\ view.reviewed # dismissed

Adopt(view, ended) ==
    /\ operations' = view
    /\ activeJob' = IF view.active # 0 THEN view.active
                    ELSE IF activeJob = ended THEN 0 ELSE activeJob
    /\ plan' = IF view.active # 0 THEN plan ELSE IF Reviewable(view) THEN view.reviewed ELSE 0
    /\ RearmIf(view.active # 0 \/ operations.active # 0)

\* Mutant: an operation that was queued leaves the polls in flight as they are.
OutdateNone(calls) == calls

\* operationsRequestSequence: the answer to what was asked about the operations
\* before is ignored; a refreshState goes on without it.
Outdate(calls) ==
    [s \in Slots |->
        CASE calls[s].kind = "operations" -> NoCall
          [] calls[s].kind = "state" -> [calls[s] EXCEPT !.fresh = FALSE, !.view = NoView]
          [] OTHER -> calls[s]]

GoesOn(s, c) == [call EXCEPT ![s] = c]
Done(s) == GoesOn(s, NoCall)

\* The finally of refreshJob.
Release(s) == locked' = (locked /\ ~call[s].owns)

------------------------------------------------------------------------------
(* Coming and going.                                                         *)

\* The project of the checkout is selected: the screen starts to read.
Open(s) ==
    /\ ~here /\ Free(s)
    /\ here' = TRUE /\ call' = GoesOn(s, CallOf("state"))
    /\ UNCHANGED <<job, requested, shown, refs, recovered>>

\* Another project is selected: all is reset, and what is under way is outdated.
Leave ==
    /\ here /\ requested = NoRevision /\ here' = FALSE
    /\ loading' = TRUE /\ submitting' = FALSE /\ known' = FALSE /\ operations' = NoView
    /\ activeJob' = 0 /\ jobStatus' = NoStatus /\ plan' = 0 /\ outcome' = "none" /\ conflict' = 0
    /\ dismissed' = 0 /\ handled' = {} /\ locked' = FALSE /\ armed' = FALSE
    /\ call' = [s \in Slots |-> [Outdate(call)[s] EXCEPT !.owns = FALSE]]
    /\ recovered' = <<>>
    /\ UNCHANGED <<job, requested>>

\* An answer lands meanwhile, or goes missing.
Dropped(s) ==
    /\ ~here /\ ~Free(s)
    /\ call' = Done(s)
    /\ UNCHANGED <<job, requested, here, shown, refs, recovered>>

------------------------------------------------------------------------------
(* The polls.                                                                *)

\* refreshOperations, by its timer or when the window is focused; what it reads it
\* reads at once (if something outdates it before, it has no effect).
PollOperations(s) ==
    /\ here /\ Free(s)
    /\ call' = [Outdate(call) EXCEPT ![s] = [CallOf("operations") EXCEPT !.reply = "read", !.view = View]]
    /\ UNCHANGED <<job, requested, here, shown, refs, recovered>>

\* refreshJob, by its timer; it does nothing while another one runs.
PollJob(s) ==
    /\ here /\ armed /\ (locked \/ Free(s))
    /\ armed' = FALSE /\ locked' = TRUE
    /\ call' = IF locked THEN call
               ELSE GoesOn(s, [CallOf("job") EXCEPT !.job = Tracked(activeJob, operations),
                                                   !.owns = TRUE])
    /\ UNCHANGED <<job, requested, here, shown, dismissed, handled, recovered>>

\* The control plane reads the operations for a refreshState.
Read(s) ==
    /\ call[s].kind = "state" /\ call[s].reply = "none"
    /\ call' = GoesOn(s, [call[s] EXCEPT !.reply = "read",
                                         !.view = IF call[s].fresh THEN View ELSE NoView])
    /\ UNCHANGED <<job, requested, here, shown, refs, recovered>>

OperationsLand(s) ==
    /\ Answered(s, "operations")
    /\ call' = Done(s) /\ UNCHANGED jobStatus
    /\ Adopt(call[s].view, 0)
    /\ UNCHANGED <<job, requested, here, loading, known, submitting, outcome, conflict, dismissed,
                   handled, locked, recovered>>

\* What a job that ended leaves on the screen.
EndShown(j, end) ==
    /\ plan' = IF job[j].kind = "apply" THEN 0
               ELSE IF job[j].kind = "plan" /\ end = "succeeded" /\ Fits(j) THEN j ELSE plan
    /\ outcome' \in
        CASE end = "succeeded" /\ job[j].kind = "apply" /\ Fits(j) -> {"receipt"}
          [] end = "succeeded" /\ job[j].kind = "rollback" /\ requested = NoRevision -> {"restored"}
          [] end = "failed" /\ Fits(j) -> {outcome, "none"}
          [] OTHER -> {outcome}

\* Mutant: the ended operations are not remembered.
SeenEndedNever(j) == FALSE

SeenEnded(j) == j \in handled

\* The answer of refreshJob, read as it lands: an operation that ends stays so, and to
\* read it earlier is to land earlier.  When it has ended, refreshState comes next.
JobLands(s) ==
    LET c == call[s]
        status == [job |-> c.job, state |-> job[c.job].state]
    IN
    /\ here /\ c.kind = "job"
    /\ jobStatus' = status
    /\ IF Settled(status) /\ ~SeenEnded(c.job)
       THEN /\ handled' = handled \cup {c.job} /\ EndShown(c.job, status.state)
            /\ loading' = TRUE
            /\ call' = [Outdate(call) EXCEPT ![s] =
                    [CallOf("state") EXCEPT !.job = c.job, !.then = "ended", !.owns = c.owns]]
            /\ UNCHANGED locked
       ELSE /\ call' = Done(s) /\ Release(s)
            /\ UNCHANGED <<handled, plan, outcome, loading>>
    /\ UNCHANGED <<operations, activeJob>> /\ Rearm
    /\ UNCHANGED <<job, requested, here, known, submitting, conflict, dismissed, recovered>>

\* An apply failed because its plan no longer held: a new plan is asked for.
Recovers(c) ==
    /\ c.then = "ended" /\ requested = NoRevision
    /\ job[c.job].kind = "apply" /\ job[c.job].state = "mismatch"

\* refreshState returns, having read or not, and its caller goes on.
StateReturns(s, read) ==
    LET c == call[s]
        ended == IF c.then = "ended" THEN c.job ELSE 0
    IN
    /\ IF read THEN Answered(s, "state") ELSE here /\ c.kind = "state"
    /\ loading' = FALSE /\ submitting' = (submitting /\ c.then # "superseded")
    /\ UNCHANGED jobStatus
    /\ IF read /\ c.fresh THEN Adopt(c.view, ended)
       ELSE /\ activeJob' = IF activeJob = ended THEN operations.active ELSE activeJob
            /\ UNCHANGED <<operations, plan>> /\ RearmIf(FALSE)
    /\ known' = (known \/ read)
    /\ IF Recovers(c)
       THEN /\ call' = GoesOn(s, [CallOf("plan") EXCEPT !.job = c.job, !.owns = c.owns,
                                     !.rev = job[c.job].rev, !.then = "recover"])
            /\ recovered' = IF c.owns THEN Append(recovered, c.job) ELSE recovered
            /\ UNCHANGED locked
       ELSE call' = Done(s) /\ Release(s) /\ UNCHANGED recovered
    /\ UNCHANGED <<job, requested, here, outcome, conflict, dismissed, handled>>

------------------------------------------------------------------------------
(* The clicks.                                                               *)

\* selectRevision; an operation in flight is tracked again at once.
PickRevision ==
    /\ here /\ requested = NoRevision /\ ~loading /\ ~Working /\ outcome \notin {"receipt", "restored"}
    /\ dismissed' = plan
    /\ activeJob' = operations.active /\ jobStatus' = NoStatus
    /\ plan' = 0 /\ outcome' = "none" /\ conflict' = 0
    /\ UNCHANGED <<job, requested, here, loading, known, submitting, operations, handled, locked,
                   call, recovered>>
    /\ Rearm

\* A click sends a request.
Send(s, c) ==
    /\ here /\ Free(s)
    /\ submitting' = TRUE /\ call' = GoesOn(s, c)
    /\ UNCHANGED <<job, requested, here, loading, known, operations, activeJob, jobStatus, plan,
                   outcome, conflict, refs, recovered>>

\* preparePlan, for the revision selected, the default, or the one assigned.
PreparePlan(s, r) ==
    /\ ~submitting /\ (InProgress => outcome = "restored")
    /\ requested # NoRevision =>
        r = requested /\ ~loading /\ known /\ activeJob = 0 /\ operations.active = 0
    /\ Send(s, [CallOf("plan") EXCEPT !.rev = r])

\* applyPlan.
ApplyPlan(s) ==
    /\ plan # 0 /\ ~Working /\ ~loading /\ outcome \notin {"receipt", "restored"}
    /\ requested # NoRevision =>
        job[plan].rev = requested /\ known /\ activeJob = 0 /\ operations.active = 0
    /\ Send(s, [CallOf("apply") EXCEPT !.job = plan])

\* rollback, of the operation that recoverableOperationId names.
Rollback(s) ==
    /\ operations.latest # 0 /\ operations.active = 0 /\ ~Working
    /\ Send(s, [CallOf("rollback") EXCEPT !.job = operations.latest])

\* cancelActiveOperation, while an operation runs or stands in the way.
CancelOperation(s) ==
    /\ Tracked(activeJob, operations) # 0 /\ (InProgress \/ conflict # 0) /\ ~submitting
    /\ Send(s, [CallOf("cancel") EXCEPT !.job = Tracked(activeJob, operations)])

KeepRunning ==
    /\ conflict # 0 /\ conflict' = 0
    /\ UNCHANGED <<job, requested, here, loading, known, submitting, operations, activeJob,
                   jobStatus, plan, outcome, refs, call, recovered>>

\* The control plane takes a request: it queues the operation, has done so before
\* for the same plan or operation, or answers 409.
Take(s) ==
    LET c == call[s]
        repeated == {n \in DOMAIN job : job[n].of = c.job /\ job[n].kind = c.kind}
        answer(reply, n) ==
            call' = GoesOn(s, [c EXCEPT !.reply = reply, !.view = [NoView EXCEPT !.active = n]])
    IN
    /\ c.reply = "none" /\ c.kind \in {"plan", "apply", "rollback"}
    /\ CASE c.kind # "plan" /\ repeated # {} ->
                answer("queued", CHOOSE n \in repeated : TRUE) /\ UNCHANGED job
         [] OTHER ->
                IF Running # 0 THEN answer("conflict", Running) /\ UNCHANGED job
                ELSE IF \/ c.kind = "apply" /\ View.reviewed # c.job
                        \/ c.kind = "rollback" /\ View.latest # c.job
                THEN answer("refused", 0) /\ UNCHANGED job
                ELSE /\ Last < MaxJobs /\ answer("queued", Last + 1)
                     /\ Asked(c.kind, CASE c.kind = "plan" -> c.rev
                                        [] c.kind = "apply" -> job[c.job].rev
                                        [] OTHER -> NoRevision,
                              IF c.kind = "plan" THEN 0 ELSE c.job)
    /\ UNCHANGED <<requested, here, shown, refs, recovered>>

\* What every answer to a request ends with: submitting, or the lock of refreshJob.
Finally(s) ==
    IF call[s].then = "recover" THEN Release(s) /\ UNCHANGED submitting
    ELSE submitting' = FALSE /\ UNCHANGED locked

\* An operation was queued, and is tracked from now on.
Queued(s) ==
    LET c == call[s] IN
    /\ here /\ c.reply = "queued"
    /\ activeJob' = c.view.active
    /\ jobStatus' = [job |-> c.view.active, state |-> "running"]
    /\ IF c.kind = "plan" /\ c.then # "recover"
       THEN dismissed' = 0 /\ outcome' = "none" /\ plan' = 0
       ELSE UNCHANGED <<dismissed, outcome, plan>>
    /\ call' = Outdate(Done(s)) /\ Finally(s)
    /\ UNCHANGED operations /\ Rearm
    /\ UNCHANGED <<job, requested, here, loading, known, conflict, handled, recovered>>

\* adoptOperationConflict: another operation is in flight.
Conflicts(s) ==
    LET n == call[s].view.active IN
    /\ here /\ call[s].reply = "conflict"
    /\ conflict' = n /\ activeJob' = n
    /\ operations' = [operations EXCEPT !.active = n]
    /\ call' = Outdate(Done(s)) /\ Finally(s)
    /\ UNCHANGED jobStatus /\ Rearm
    /\ UNCHANGED <<job, requested, here, loading, known, plan, outcome, dismissed, handled, recovered>>

\* An approval of a plan that was superseded reads the state again; a rollback
\* that is no longer possible says so.
Refused(s) ==
    /\ here /\ call[s].reply = "refused"
    /\ IF call[s].kind = "apply"
       THEN /\ call' = [Outdate(call) EXCEPT ![s] = [CallOf("state") EXCEPT !.then = "superseded"]]
            /\ loading' = TRUE /\ UNCHANGED <<submitting, locked>>
       ELSE call' = Done(s) /\ Finally(s) /\ UNCHANGED loading
    /\ UNCHANGED <<job, requested, here, known, operations, activeJob, jobStatus, plan, outcome,
                   conflict, dismissed, handled, armed, recovered>>

\* The cancellation was recorded; what becomes of it, the operation decides.
CancelLands(s) ==
    /\ here /\ call[s].kind = "cancel"
    /\ conflict' = 0 /\ call' = Outdate(Done(s)) /\ Finally(s)
    /\ UNCHANGED <<job, requested, here, loading, known, operations, activeJob, jobStatus, plan,
                   outcome, dismissed, handled, recovered>>
    /\ RearmIf(jobStatus.job = call[s].job \/ operations.active = call[s].job)

\* The network fails, before the control plane or after it; for refreshState see above.
CallFails(s) ==
    /\ here /\ ~Free(s) /\ call[s].kind # "state"
    /\ call' = Done(s)
    /\ IF call[s].kind \in {"operations", "job"} THEN Release(s) /\ UNCHANGED submitting
       ELSE Finally(s)
    /\ UNCHANGED <<job, requested, here, loading, known, operations, activeJob, jobStatus, plan,
                   outcome, conflict, dismissed, handled, armed, recovered>>

------------------------------------------------------------------------------
Lands(s) ==
    \/ OperationsLand(s) \/ JobLands(s) \/ StateReturns(s, TRUE)
    \/ Queued(s) \/ Conflicts(s) \/ Refused(s) \/ CancelLands(s)

Next ==
    \/ OtherAsks \/ OperationEnds \/ Leave \/ KeepRunning \/ PickRevision
    \/ \E s \in Slots :
        \/ Open(s) \/ Dropped(s) \/ PollOperations(s) \/ PollJob(s) \/ Read(s) \/ Take(s)
        \/ Lands(s) \/ StateReturns(s, FALSE) \/ CallFails(s)
        \/ ApplyPlan(s) \/ Rollback(s) \/ CancelOperation(s)
        \/ \E r \in Distinct : PreparePlan(s, r)

Spec == Init /\ [][Next]_vars

------------------------------------------------------------------------------
\* Type correctness; the lock of refreshJob has an owner.
TypeOK ==
    /\ job \in Seq(Jobs)
    /\ requested \in Revisions \cup {NoRevision}
    /\ {here, loading, known, submitting, locked, armed} \subseteq BOOLEAN
    /\ {activeJob, plan, conflict, dismissed, jobStatus.job} \cup handled \subseteq 0 .. Last
    /\ outcome \in {"none", "receipt", "restored"}
    /\ locked => \E s \in Slots : call[s].owns

\* A poll of the operations never takes the screen back to an earlier operation,
\* however late it is answered and whatever was asked for or ended meanwhile.
NoWayBack ==
    [][\A s \in Slots : OperationsLand(s) /\ activeJob' # 0 => activeJob' >= activeJob]_vars

\* A plan that stopped holding is prepared anew once for each apply that failed of
\* it, also when that apply is tracked again because the answer to its approval is
\* late.  (When the project is left and selected again, answers of before count anew.)
RecoversOnce ==
    \A m, n \in DOMAIN recovered : recovered[m] = recovered[n] => m = n

\* A screen opened for one revision never shows, and so never approves, the plan of
\* another one, whatever others prepare meanwhile.
OnlyTheRequestedPlan ==
    requested # NoRevision /\ plan # 0 => job[plan].rev = requested

==============================================================================
