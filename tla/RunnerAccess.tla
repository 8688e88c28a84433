---------------------------- MODULE RunnerAccess ----------------------------
(* The transport service in front of one device's mailbox: authentication,   *)
(* revocation, the long poll of claimJob and its JobSignal, over the         *)
(* transactions of JobMailbox.                                               *)
(*                                                                           *)
(* A call of the runner is not a transaction.  It authenticates with one     *)
(* query and acts with another, and a long poll acts twice with a wait of up *)
(* to 25 seconds in between; browsers enqueue, cancel and revoke meanwhile.  *)
(* JobSignal lives in the memory of a server process, so a job enqueued      *)
(* through one process does not wake a poll that waits in another, and       *)
(* enqueuing commits before it signals.  The runner of the model supports    *)
(* every kind of job, and is seen often enough to count as online.           *)
(*                                                                           *)
(* A repeated approval or rollback signals again: what that does to a poll,  *)
(* the timer of its waiter does too.                                         *)
EXTENDS JobMailbox

CONSTANTS
    Servers,     \* the processes that serve the API over one database
    Requests,    \* the calls of the runner that can be in progress at once
    NoServer

ASSUME ServerAssumption == NoServer \notin Servers

VARIABLES
    deviceStatus, \* runner_devices.status of the device
    generations,  \* generations[s]: JobSignal.generation(device) in s
    checked,     \* plans asked for whose requireAvailable has passed
    queuedAt,    \* queuedAt[j]: the server that enqueued j, or NoServer
    unsignalled, \* <<j, s>>: s committed a request for j and has yet to notify
    stage,       \* stage[c]: where the handler of call c stands
    at,          \* at[c]: the server that handles c
    seen         \* seen[c]: the generation claimJob read

signalVars == <<generations, checked, queuedAt, unsignalled>>
callVars == <<stage, at, seen>>
accessVars == <<mailboxVars, deviceStatus, signalVars, callVars>>

\* "claim": before the first claim; "wait": it gave nothing, and the call is
\* about to wait; "waiting": a JobWaiter holds it; "again": before the second
\* claim; "act": an authenticated call of any other kind.
Stages == {"none", "claim", "wait", "waiting", "again", "act"}

AccessInit ==
    /\ MailboxInit
    /\ deviceStatus = "active"
    /\ generations = [s \in Servers |-> 0]
    /\ checked = {}
    /\ queuedAt = [j \in Jobs |-> NoServer]
    /\ unsignalled = {}
    /\ stage = [c \in Requests |-> "none"]
    /\ at = [c \in Requests |-> NoServer]
    /\ seen = [c \in Requests |-> 0]

Finish(c) ==
    /\ stage' = [stage EXCEPT ![c] = "none"]
    /\ at' = [at EXCEPT ![c] = NoServer]
    /\ seen' = [seen EXCEPT ![c] = 0]

Move(c, to) == stage' = [stage EXCEPT ![c] = to] /\ UNCHANGED <<at, seen>>

------------------------------------------------------------------------------
(* The runner's calls.                                                       *)

\* Mutant: a credential is looked up, but not the status of its device.
AuthenticatedAny == TRUE

\* authenticate: anything but an active device answers 401.
Authenticated == deviceStatus = "active"

\* claimJob up to its first claim: authenticated, and the generation read.
StartClaim(c, s) ==
    /\ stage[c] = "none"
    /\ Authenticated
    /\ stage' = [stage EXCEPT ![c] = "claim"]
    /\ at' = [at EXCEPT ![c] = s]
    /\ seen' = [seen EXCEPT ![c] = generations[s]]
    /\ UNCHANGED <<mailboxVars, deviceStatus, signalVars>>

\* The claim transaction gives a job, held already or leased now.
GiveJob == \E j \in Jobs : ClaimHeld(j) \/ ClaimNew(j)

\* The first claim gave a job: the call answers with it.
ClaimAtOnce(c) ==
    /\ stage[c] = "claim"
    /\ GiveJob
    /\ Finish(c)
    /\ UNCHANGED <<deviceStatus, signalVars>>

\* The first claim gave nothing: the call answers 204 unless it may wait.
ClaimNothing(c) ==
    /\ stage[c] = "claim"
    /\ ClaimNone
    /\ Finish(c) \/ Move(c, "wait")
    /\ UNCHANGED <<deviceStatus, signalVars>>

\* Mutant: wait does not compare the generation before it sleeps.
SignalledSinceIgnored(c) == FALSE

\* JobSignal.wait returns at once when the device was signalled meanwhile.
SignalledSince(c) == generations[at[c]] > seen[c]

EnterWait(c) ==
    /\ stage[c] = "wait"
    /\ Move(c, IF SignalledSince(c) THEN "again" ELSE "waiting")
    /\ UNCHANGED <<mailboxVars, deviceStatus, signalVars>>

\* The timer of the waiter.
WaitTimesOut(c) ==
    /\ stage[c] = "waiting"
    /\ Move(c, "again")
    /\ UNCHANGED <<mailboxVars, deviceStatus, signalVars>>

\* The second claim, under the authentication of the beginning.
ClaimAgain(c) ==
    /\ stage[c] = "again"
    /\ GiveJob \/ ClaimNone
    /\ Finish(c)
    /\ UNCHANGED <<deviceStatus, signalVars>>

\* acknowledgeJob, submitResult and jobControl up to their transaction.
StartAct(c, s) ==
    /\ stage[c] = "none"
    /\ Authenticated
    /\ stage' = [stage EXCEPT ![c] = "act"]
    /\ at' = [at EXCEPT ![c] = s]
    /\ UNCHANGED <<mailboxVars, deviceStatus, signalVars, seen>>

AcknowledgeLease == \E j \in Jobs, l \in 1..lastLease : AcknowledgeJob(j, l)
Submit == \E j \in Jobs, l \in 1..lastLease, r \in Results : CompleteJob(j, l, r)
Control == \E j \in Jobs, l \in 1..lastLease : JobControl(j, l)

\* Their transaction, or the 404 or 409 that leaves the rows alone.
Act(c) ==
    /\ stage[c] = "act"
    /\ AcknowledgeLease \/ Submit \/ Control \/ UNCHANGED mailboxVars
    /\ Finish(c)
    /\ UNCHANGED <<deviceStatus, signalVars>>

\* The database refuses a statement: the call answers 500 and changes nothing.
RequestFails(c) ==
    /\ stage[c] \in {"claim", "again", "act"}
    /\ Finish(c)
    /\ UNCHANGED <<mailboxVars, deviceStatus, signalVars>>

------------------------------------------------------------------------------
(* The browser's calls; membership is checked in their transaction.          *)

\* requestPlan looks at the runner first, outside its transaction.
RequireAvailable(j) ==
    /\ Kind[j] = "planSetup" /\ state[j] = "absent"
    /\ deviceStatus = "active"
    /\ checked' = checked \cup {j}
    /\ UNCHANGED <<mailboxVars, deviceStatus, generations, queuedAt, unsignalled, callVars>>

\* What a request for j knows of the device when it inserts the job: a plan what
\* it saw before, a scan nothing (enqueueScan looks at the route of the checkout
\* only), and every other one that it is active.
Admitted(j) ==
    CASE Kind[j] = "planSetup" -> j \in checked
      [] Kind[j] = "scanProject" -> TRUE
      [] OTHER -> deviceStatus = "active"

\* The transaction of a request for j at server s; the signal is due once it
\* has committed, if it inserted the job.
Enqueue(j, s) ==
    /\ Admitted(j)
    /\ EnqueueJob(j) \/ EnqueueSetupOperation(j)
    /\ checked' = checked \ {j}
    /\ IF state'[j] = "pending"
       THEN /\ queuedAt' = [queuedAt EXCEPT ![j] = s]
            /\ unsignalled' = unsignalled \cup {<<j, s>>}
       ELSE UNCHANGED <<queuedAt, unsignalled>>
    /\ UNCHANGED <<deviceStatus, generations, callVars>>

\* The waiters notify resolves.
Woken(s) == {c \in Requests : stage[c] = "waiting" /\ at[c] = s /\ seen[c] <= generations[s]}

\* notify, once the transaction has committed.
Notify(j, s) ==
    /\ <<j, s>> \in unsignalled
    /\ unsignalled' = unsignalled \ {<<j, s>>}
    /\ generations' = [generations EXCEPT ![s] = @ + 1]
    /\ stage' = [c \in Requests |-> IF c \in Woken(s) THEN "again" ELSE stage[c]]
    /\ UNCHANGED <<mailboxVars, deviceStatus, checked, queuedAt, at, seen>>

Cancel(j) ==
    /\ RequestCancellation(j)
    /\ UNCHANGED <<deviceStatus, signalVars, callVars>>

\* revokeRunner: the jobs of the device stay as they are.
RevokeRunner ==
    /\ deviceStatus = "active"
    /\ deviceStatus' = "revoked"
    /\ UNCHANGED <<mailboxVars, signalVars, callVars>>

\* A process is replaced: its calls are cut off, its signal starts anew, and
\* what it had not signalled never is.
Restart(s) ==
    /\ generations' = [generations EXCEPT ![s] = 0]
    /\ unsignalled' = {u \in unsignalled : u[2] # s}
    /\ queuedAt' = [j \in Jobs |-> IF queuedAt[j] = s THEN NoServer ELSE queuedAt[j]]
    /\ stage' = [c \in Requests |-> IF at[c] = s THEN "none" ELSE stage[c]]
    /\ seen' = [c \in Requests |-> IF at[c] = s THEN 0 ELSE seen[c]]
    /\ at' = [c \in Requests |-> IF at[c] = s THEN NoServer ELSE at[c]]
    /\ UNCHANGED <<mailboxVars, deviceStatus, checked>>

AccessTick == Tick /\ UNCHANGED <<deviceStatus, signalVars, callVars>>

------------------------------------------------------------------------------
Proceed(c) ==
    \/ ClaimAtOnce(c) \/ ClaimNothing(c) \/ EnterWait(c) \/ WaitTimesOut(c)
    \/ ClaimAgain(c) \/ Act(c) \/ RequestFails(c)

AccessNext ==
    \/ \E c \in Requests : Proceed(c) \/ \E s \in Servers : StartClaim(c, s) \/ StartAct(c, s)
    \/ \E j \in Jobs : RequireAvailable(j) \/ Cancel(j)
    \/ \E j \in Jobs, s \in Servers :
        Enqueue(j, s) \/ Notify(j, s)
    \/ RevokeRunner
    \/ \E s \in Servers : Restart(s)
    \/ AccessTick

\* A handler runs on, and the timer of a waiter fires.
AccessSpec ==
    /\ AccessInit
    /\ [][AccessNext]_accessVars
    /\ \A c \in Requests : WF_accessVars(Proceed(c))
------------------------------------------------------------------------------
\* Type correctness; a call that does not run is at no server.
AccessTypeOK ==
    /\ TypeOK
    /\ deviceStatus \in {"active", "revoked"}
    /\ generations \in [Servers -> Nat]
    /\ checked \subseteq Jobs
    /\ queuedAt \in [Jobs -> Servers \cup {NoServer}]
    /\ unsignalled \subseteq Jobs \X Servers
    /\ stage \in [Requests -> Stages]
    /\ at \in [Requests -> Servers \cup {NoServer}]
    /\ seen \in [Requests -> Nat]
    /\ \A c \in Requests : stage[c] = "none" <=> at[c] = NoServer

\* A poll does not sleep over a job: once the server that took the request has
\* signalled, none of its waiting polls was left asleep while the job is still
\* pending, whatever happened between the poll's first claim and its wait.
NoLostWakeUp ==
    \A c \in Requests, j \in Jobs :
        /\ stage[c] = "waiting"
        /\ queuedAt[j] = at[c]
        /\ <<j, at[c]>> \notin unsignalled
        => state[j] # "pending"

\* A revoked runner is cut off in the end: no call of it starts any more, and
\* the polls that were authenticated before it was revoked run out.
RevocationTakesEffect ==
    <>[](deviceStatus = "revoked" => \A c \in Requests : stage[c] = "none")
==============================================================================
