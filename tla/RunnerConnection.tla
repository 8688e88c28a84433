--------------------------- MODULE RunnerConnection ---------------------------
(* How a computer becomes a device of an organization, and which device a    *)
(* browser tab shows: one-time codes at the control plane, `ahm connect` on  *)
(* the computers, and the hook useRunnerConnection with its polls.           *)
(*                                                                           *)
(* The tab polls every two seconds and does not wait for the last poll, so   *)
(* its answers overlap and arrive in any order.  A click (choose a computer, *)
(* ask for a code) takes a new generation when it begins; the answer of a    *)
(* poll or click of another generation is dropped.  The two requests of a    *)
(* poll (the code, then the device that claimed it) are one step here.  What *)
(* the tab persists goes with the state it mirrors: sessionStorage holds     *)
(* the enrollment, localStorage the device stored.                           *)
EXTENDS Integers

CONSTANTS
    Devices, Known,    \* the devices, and those registered from the start
    Enrollments,       \* the one-time codes
    Slots,             \* the polls that can be in flight at once
    MaxGeneration,     \* bound on clicks and reloads
    NoDevice, NoEnrollment

ASSUME ConnectionAssumption ==
    /\ Known \subseteq Devices /\ NoDevice \notin Devices
    /\ NoEnrollment \notin Enrollments
    /\ MaxGeneration \in Nat \ {0}

VARIABLES
    code,        \* code[e]: runner_enrollments.state, or "none"
    overdue,     \* the codes past their expires_at
    claimedBy,   \* claimed_device_id
    row,         \* row[d]: runner_devices.status, or "absent"
    usedCode,    \* usedCode[d]: the code d was registered with
    enrollment, status, runner, stored, generation, busy, \* the hook's state
    click,       \* click[g]: the request of the click of generation g
    poll         \* poll[s]: the refresh in flight in slot s

serverVars == <<code, overdue, claimedBy, row, usedCode>>
shownVars == <<enrollment, status, runner, stored>>
vars == <<serverVars, shownVars, generation, busy, click, poll>>

NoStatus == [state |-> "none", device |-> NoDevice]
Claimed(d) == [state |-> "claimed", device |-> d]
\* runner: the device shown, and whether it was seen within 45 seconds.
NoRunner == [device |-> NoDevice, online |-> FALSE]
NoReply == [state |-> "asked", device |-> NoDevice, online |-> FALSE]
NoPoll == [gen |-> 0, enrollment |-> NoEnrollment, device |-> NoDevice, reply |-> NoReply]
NoClick == [kind |-> "none", device |-> NoDevice]

\* readPersistedRunner: a device chosen earlier counts as claimed.
Restored(d) == IF d = NoDevice THEN NoStatus ELSE Claimed(d)

Init ==
    /\ code = [e \in Enrollments |-> "none"] /\ overdue = {}
    /\ claimedBy = [e \in Enrollments |-> NoDevice]
    /\ row = [d \in Devices |-> IF d \in Known THEN "active" ELSE "absent"]
    /\ usedCode = [d \in Devices |-> NoEnrollment]
    /\ enrollment = NoEnrollment
    /\ stored \in Devices \cup {NoDevice}
    /\ status = Restored(stored) /\ runner = NoRunner
    /\ generation = 1 /\ busy = "idle"
    /\ click = [g \in 1..MaxGeneration |-> NoClick]
    /\ poll = [s \in Slots |-> NoPoll]

------------------------------------------------------------------------------
(* The control plane and the computers.                                      *)

\* Mutant: a code is looked up whatever became of it.
CodeWaitsNoMore(e) == code[e] # "none"

\* claimEnrollment takes the row of a code that still waits, under its lock.
CodeWaits(e) == code[e] = "waiting"

\* enroll, called by `ahm connect` with a code that it was given.  A late one
\* is refused and leaves the code expired; the others get 404.  The answer may
\* be lost: the device is registered all the same.
Enroll(e, d) ==
    /\ CodeWaits(e) /\ row[d] = "absent"
    /\ IF e \in overdue
       THEN code' = [code EXCEPT ![e] = "expired"] /\ UNCHANGED <<claimedBy, row, usedCode>>
       ELSE /\ code' = [code EXCEPT ![e] = "claimed"]
            /\ claimedBy' = [claimedBy EXCEPT ![e] = d]
            /\ row' = [row EXCEPT ![d] = "active"]
            /\ usedCode' = [usedCode EXCEPT ![d] = e]
    /\ UNCHANGED <<overdue, shownVars, generation, busy, click, poll>>

\* Ten minutes pass.
BecomesDue(e) ==
    /\ code[e] = "waiting" /\ e \notin overdue
    /\ overdue' = overdue \cup {e}
    /\ UNCHANGED <<code, claimedBy, row, usedCode, shownVars, generation, busy, click, poll>>

RevokeDevice(d) ==
    /\ row[d] = "active"
    /\ row' = [row EXCEPT ![d] = "revoked"]
    /\ UNCHANGED <<code, overdue, claimedBy, usedCode, shownVars, generation, busy, click, poll>>

------------------------------------------------------------------------------
(* The clicks.                                                               *)

\* What App calls connected: the dialog then offers to continue, nothing else.
Connected == status.state = "claimed" /\ runner.online

Begin(kind, d) ==
    /\ ~Connected /\ generation < MaxGeneration
    /\ generation' = generation + 1
    /\ click' = [click EXCEPT ![generation'] = [kind |-> kind, device |-> d]]
    /\ busy' = kind
    /\ UNCHANGED <<serverVars, shownVars, poll>>

\* selectRunner, offered for the computers of the list while none is selected.
SelectRunner(d) == row[d] # "absent" /\ busy # "select" /\ Begin("select", d)

\* createEnrollment, offered (and called by the dialog itself) while none is created.
CreateEnrollment == busy # "create" /\ Begin("create", NoDevice)

\* The answer of a click; that of an earlier click changes nothing in the tab.
Settle(g) ==
    /\ click[g] # NoClick
    /\ click' = [click EXCEPT ![g] = NoClick]
    /\ busy' = IF g = generation THEN "idle" ELSE busy

\* The computer is active, and was seen lately.
Selected(g) ==
    /\ click[g].kind = "select" /\ row[click[g].device] = "active"
    /\ Settle(g)
    /\ IF g = generation
       THEN /\ enrollment' = NoEnrollment
            /\ stored' = click[g].device
            /\ status' = Claimed(click[g].device)
            /\ runner' = [device |-> click[g].device, online |-> TRUE]
       ELSE UNCHANGED shownVars
    /\ UNCHANGED <<serverVars, generation, poll>>

\* The control plane has made a code.
Created(g, e) ==
    /\ click[g].kind = "create" /\ code[e] = "none"
    /\ code' = [code EXCEPT ![e] = "waiting"]
    /\ Settle(g)
    /\ IF g = generation
       THEN /\ enrollment' = e
            /\ status' = [state |-> "waiting", device |-> NoDevice]
            /\ runner' = NoRunner
       ELSE UNCHANGED <<enrollment, status, runner>>
    /\ UNCHANGED <<overdue, claimedBy, row, usedCode, stored, generation, poll>>

\* The request failed, or the computer is not available.
ClickFails(g) ==
    /\ Settle(g)
    /\ UNCHANGED <<serverVars, shownVars, generation, poll>>

\* The tab is loaded anew: what was in flight is gone, what was stored is back.
Reload ==
    /\ generation < MaxGeneration
    /\ generation' = generation + 1
    /\ status' = Restored(stored) /\ runner' = NoRunner /\ busy' = "idle"
    /\ click' = [g \in 1..MaxGeneration |-> NoClick]
    /\ poll' = [s \in Slots |-> NoPoll]
    /\ UNCHANGED <<serverVars, enrollment, stored>>

------------------------------------------------------------------------------
(* The polls.                                                                *)

\* Mutant: the polls stop once the tab has a computer.
HasTargetOnce == enrollment # NoEnrollment /\ status.state # "claimed"

\* There is something to ask about: a code, or a computer restored or chosen.
HasTarget == enrollment # NoEnrollment \/ status.state = "claimed"

\* refresh, up to its first request.
PollStarts(s) ==
    /\ poll[s] = NoPoll /\ HasTarget
    /\ poll' = [poll EXCEPT ![s] =
        [gen |-> generation, enrollment |-> enrollment,
         device |-> IF enrollment = NoEnrollment THEN status.device ELSE NoDevice,
         reply |-> NoReply]]
    /\ UNCHANGED <<serverVars, shownVars, generation, busy, click>>

\* What the control plane answers about a device; 404 for one it does not know.
AboutDevice(d, online) ==
    IF row[d] = "absent" THEN [state |-> "missing", device |-> NoDevice, online |-> FALSE]
    ELSE [state |-> "claimed", device |-> d, online |-> online /\ row[d] = "active"]

\* What it answers about a code, once a late one is marked expired.
AboutCode(e, online) ==
    IF code'[e] = "claimed" THEN AboutDevice(claimedBy[e], online)
    ELSE [state |-> code'[e], device |-> NoDevice, online |-> FALSE]

\* enrollmentStatus and runnerStatus, or only the latter.
PollRead(s) ==
    LET p == poll[s] IN
    /\ p # NoPoll /\ p.reply = NoReply
    /\ code' = IF p.enrollment \in overdue /\ code[p.enrollment] = "waiting"
               THEN [code EXCEPT ![p.enrollment] = "expired"] ELSE code
    /\ \E online \in BOOLEAN :
        poll' = [poll EXCEPT ![s].reply =
            IF p.enrollment = NoEnrollment THEN AboutDevice(p.device, online)
            ELSE AboutCode(p.enrollment, online)]
    /\ UNCHANGED <<overdue, claimedBy, row, usedCode, shownVars, generation, busy, click>>

\* 404: everything is forgotten.
Forget ==
    /\ enrollment' = NoEnrollment /\ stored' = NoDevice
    /\ status' = NoStatus /\ runner' = NoRunner

\* The state of another code leaves the computer shown where it is.
Adopt(reply) ==
    /\ status' = [state |-> reply.state, device |-> reply.device]
    /\ IF reply.state = "claimed"
       THEN /\ stored' = reply.device
            /\ runner' = [device |-> reply.device, online |-> reply.online]
       ELSE UNCHANGED <<stored, runner>>
    /\ UNCHANGED enrollment

\* The answer of a poll; that of an earlier generation is dropped.
PollLands(s) ==
    LET p == poll[s] IN
    /\ p # NoPoll /\ p.reply # NoReply
    /\ poll' = [poll EXCEPT ![s] = NoPoll]
    /\ IF p.gen # generation THEN UNCHANGED shownVars
       ELSE IF p.reply.state = "missing" THEN Forget
       ELSE Adopt(p.reply)
    /\ UNCHANGED <<serverVars, generation, busy, click>>

\* The network fails: the tab keeps what it shows.
PollFails(s) ==
    /\ poll[s] # NoPoll
    /\ poll' = [poll EXCEPT ![s] = NoPoll]
    /\ UNCHANGED <<serverVars, shownVars, generation, busy, click>>

\* 45 seconds pass without a report of the computer shown, or the error of a
\* failed poll hides the connection until the next answer.
GoesOffline ==
    /\ runner.online
    /\ runner' = [runner EXCEPT !.online = FALSE]
    /\ UNCHANGED <<serverVars, enrollment, status, stored, generation, busy, click, poll>>

------------------------------------------------------------------------------
Next ==
    \/ \E e \in Enrollments : BecomesDue(e) \/ \E d \in Devices : Enroll(e, d)
    \/ \E d \in Devices : RevokeDevice(d) \/ SelectRunner(d)
    \/ CreateEnrollment \/ Reload \/ GoesOffline
    \/ \E g \in 1..MaxGeneration :
        Selected(g) \/ ClickFails(g) \/ \E e \in Enrollments : Created(g, e)
    \/ \E s \in Slots : PollStarts(s) \/ PollRead(s) \/ PollLands(s) \/ PollFails(s)

\* The timer of the polls runs, and not every request fails.
Spec ==
    /\ Init /\ [][Next]_vars
    /\ \A s \in Slots : WF_vars(PollStarts(s)) /\ SF_vars(PollRead(s)) /\ SF_vars(PollLands(s))
------------------------------------------------------------------------------
\* Type correctness; a status names a device when it is claimed, and only then.
ConnectionTypeOK ==
    /\ code \in [Enrollments -> {"none", "waiting", "claimed", "expired"}]
    /\ overdue \subseteq Enrollments
    /\ claimedBy \in [Enrollments -> Devices \cup {NoDevice}]
    /\ row \in [Devices -> {"absent", "active", "revoked"}]
    /\ usedCode \in [Devices -> Enrollments \cup {NoEnrollment}]
    /\ enrollment \in Enrollments \cup {NoEnrollment}
    /\ status \in [state : {"none", "waiting", "claimed", "expired"}, device : Devices \cup {NoDevice}]
    /\ runner \in [device : Devices \cup {NoDevice}, online : BOOLEAN]
    /\ stored \in Devices \cup {NoDevice}
    /\ generation \in 1..MaxGeneration
    /\ busy \in {"idle", "select", "create"}
    /\ \A s \in Slots : poll[s].gen <= generation
    /\ status.state = "claimed" <=> status.device # NoDevice

\* A one-time code registers one computer, however many try it, retry it after a
\* lost answer, or try it while the tab's poll finds that it has expired.
CodeUsedOnce ==
    \A d1, d2 \in Devices :
        usedCode[d1] = usedCode[d2] /\ usedCode[d1] # NoEnrollment => d1 = d2

\* A tab whose code has been claimed comes to show the computer that claimed it,
\* and stays with it, whatever the order of its overlapping answers.
ClaimSettles ==
    \A e \in Enrollments :
        <>[](enrollment = e /\ code[e] = "claimed") => <>[](runner.device = claimedBy[e])

==============================================================================
