-------------------------- MODULE RunnerJobsProofs --------------------------
(* The mailbox, the transport service in front of it, the worker and the     *)
(* codes that make a computer a device keep their promises for any jobs,     *)
(* checkouts, servers, concurrent calls, computers and codes, any deadlines  *)
(* and leases, and any number of lost calls and crashes.                     *)
EXTENDS JobDelivery, RunnerAccess, RunnerConnection, TLAPS

------------------------------------------------------------------------------
(* JobMailbox: what the rows keep, whoever runs the transactions.            *)

\* The states a result leads to; only an unbound one could pass for a value.
LEMMA TerminalStateRange ==
    ASSUME NEW r \in Results
    PROVE  /\ TerminalState(r) \in {"succeeded", "failed", "cancelled"}
           /\ TerminalState(r) = "succeeded" => r \in {"value", "unbound"}
BY DEF TerminalState, Results

\* Every column keeps its type, whatever a step does.
LEMMA TypeStep ==
    ASSUME TypeOK, [MailboxNext]_mailboxVars
    PROVE  TypeOK'
<1> USE TimeAssumption, KindAssumption DEF TypeOK, Active, Terminal
<1>1. ASSUME NEW j \in Jobs, EnqueueJob(j) PROVE TypeOK'
    BY <1>1 DEF EnqueueJob
<1>2. ASSUME NEW j \in Jobs, EnqueueSetupOperation(j) PROVE TypeOK'
    <2>1. state' \in [Jobs -> {"absent"} \cup Active \cup Terminal]
        BY <1>2 DEF EnqueueSetupOperation
    <2>2. expiresAt' \in [Jobs -> Nat]
        BY <1>2 DEF EnqueueSetupOperation
    <2> QED BY <1>2, <2>1, <2>2 DEF EnqueueSetupOperation
<1>3. ASSUME NEW j \in Jobs, RequestCancellation(j) PROVE TypeOK'
    BY <1>3 DEF RequestCancellation
<1>4. ExpireOverdue \in [Jobs -> {"absent"} \cup Active \cup Terminal]
    BY DEF ExpireOverdue
<1>5. CASE ClaimNone
    BY <1>4, <1>5 DEF ClaimNone
<1>6. ASSUME NEW j \in Jobs, ClaimHeld(j) PROVE TypeOK'
    BY <1>4, <1>6 DEF ClaimHeld
<1>7. ASSUME NEW j \in Jobs, ClaimNew(j) PROVE TypeOK'
    BY <1>4, <1>7 DEF ClaimNew, NextLease
<1>8. ASSUME NEW j \in Jobs, NEW l \in 1..lastLease, AcknowledgeJob(j, l)
      PROVE  TypeOK'
    BY <1>8 DEF AcknowledgeJob
<1>9. ASSUME NEW j \in Jobs, NEW l \in 1..lastLease, JobControl(j, l)
      PROVE  TypeOK'
    BY <1>9 DEF JobControl
<1>10. ASSUME NEW j \in Jobs, NEW l \in 1..lastLease, NEW r \in Results,
             CompleteJob(j, l, r)
      PROVE  TypeOK'
    BY <1>10, TerminalStateRange DEF CompleteJob
<1>11. CASE Tick
    BY <1>11 DEF Tick
<1>12. CASE UNCHANGED mailboxVars
    BY <1>12 DEF mailboxVars
<1> QED
    BY <1>1, <1>2, <1>3, <1>5, <1>6, <1>7, <1>8, <1>9, <1>10, <1>11, <1>12
    DEF MailboxNext, Browser, Runner

\* Every column keeps its type.
THEOREM TypeCorrect == MailboxSpec => []TypeOK
<1>1. MailboxInit => TypeOK
    BY DEF MailboxInit, TypeOK, Results, NoResult
<1>2. TypeOK /\ [MailboxNext]_mailboxVars => TypeOK'
    BY TypeStep
<1> QED BY <1>1, <1>2, PTL DEF MailboxSpec

------------------------------------------------------------------------------
\* What a step does to the state and the result of one job: nothing, an
\* insertion, an end by cancellation or by expiry before anything was
\* delivered, a move between the active states, or a completion.
Inserted(k) == state[k] = "absent" /\ state'[k] = "pending"

Moved(k) == state[k] \in Active /\ state'[k] \in Active

Dropped(k) == state[k] \in {"pending", "leased"} /\ state'[k] \in {"expired", "cancelled"}

CompletedBy(k, r) ==
    /\ state[k] = "acknowledged" /\ result[k] = NoResult
    /\ ResultMatchesJob(k, r)
    /\ state'[k] = TerminalState(r) /\ result'[k] = r

\* What a claim leaves of the jobs it does not lease.
LEMMA ExpiryDrops ==
    ASSUME TypeOK, NEW k \in Jobs, state'[k] = ExpireOverdue[k]
    PROVE  state'[k] = state[k] \/ Dropped(k)
BY DEF ExpireOverdue, Overdue, Dropped, TypeOK

\* Every step does one of these things to every job.
LEMMA StepOfOneJob ==
    ASSUME TypeOK, [MailboxNext]_mailboxVars, NEW k \in Jobs
    PROVE  \/ /\ result'[k] = result[k]
              /\ \/ state'[k] = state[k]
                 \/ Inserted(k) \/ Moved(k) \/ Dropped(k)
           \/ \E r \in Results : CompletedBy(k, r)
<1> DEFINE Goal == \/ /\ result'[k] = result[k]
                      /\ \/ state'[k] = state[k]
                         \/ Inserted(k) \/ Moved(k) \/ Dropped(k)
                   \/ \E r \in Results : CompletedBy(k, r)
<1>1. ASSUME NEW j \in Jobs, EnqueueJob(j) PROVE Goal
    BY <1>1 DEF EnqueueJob, Inserted, TypeOK
<1>2. ASSUME NEW j \in Jobs, EnqueueSetupOperation(j) PROVE Goal
    <2>1. \/ k \in StalePending(InstanceOf[j]) /\ state'[k] = "expired"
          \/ k = j /\ state'[k] = "pending"
          \/ state'[k] = state[k]
        BY <1>2 DEF EnqueueSetupOperation
    <2>2. k \in StalePending(InstanceOf[j]) => state[k] = "pending"
        BY DEF StalePending
    <2>3. state[j] = "absent" /\ result' = result
        BY <1>2 DEF EnqueueSetupOperation
    <2> QED BY <2>1, <2>2, <2>3 DEF Inserted, Dropped
<1>3. ASSUME NEW j \in Jobs, RequestCancellation(j) PROVE Goal
    BY <1>3 DEF RequestCancellation, Dropped, TypeOK
<1>4. CASE ClaimNone
    BY <1>4, ExpiryDrops DEF ClaimNone
<1>5. ASSUME NEW j \in Jobs, ClaimHeld(j) PROVE Goal
    BY <1>5, ExpiryDrops DEF ClaimHeld
<1>6. ASSUME NEW j \in Jobs, ClaimNew(j) PROVE Goal
    <2>1. state[j] \in Active
        BY <1>6 DEF ClaimNew, Oldest, Claimable, Active
    <2>2. /\ state'[j] = "leased"
          /\ k # j => state'[k] = ExpireOverdue[k]
          /\ result' = result
        BY <1>6 DEF ClaimNew, ExpireOverdue
    <2> QED BY <2>1, <2>2, ExpiryDrops DEF Moved, Active
<1>7. ASSUME NEW j \in Jobs, NEW l \in 1..lastLease, AcknowledgeJob(j, l) PROVE Goal
    BY <1>7 DEF AcknowledgeJob, CanAcknowledge, Moved, Active, TypeOK
<1>8. ASSUME NEW j \in Jobs, NEW l \in 1..lastLease, JobControl(j, l) PROVE Goal
    BY <1>8 DEF JobControl
<1>9. ASSUME NEW j \in Jobs, NEW l \in 1..lastLease, NEW r \in Results,
             CompleteJob(j, l, r)
      PROVE  Goal
    BY <1>9 DEF CompleteJob, CanComplete, CompletedBy, TypeOK
<1>10. CASE Tick \/ UNCHANGED mailboxVars
    BY <1>10 DEF Tick, mailboxVars
<1> QED
    BY <1>1, <1>2, <1>3, <1>4, <1>5, <1>6, <1>7, <1>8, <1>9, <1>10
    DEF MailboxNext, Browser, Runner

\* A stored result explains the terminal state of its job.
THEOREM ResultsExplained == MailboxSpec => []ResultExplainsState
<1>1. MailboxInit => ResultExplainsState
    BY DEF MailboxInit, ResultExplainsState, NoResult
<1>2. TypeOK /\ ResultExplainsState /\ [MailboxNext]_mailboxVars => ResultExplainsState'
    <2> SUFFICES ASSUME TypeOK, ResultExplainsState, [MailboxNext]_mailboxVars,
                        NEW k \in Jobs
                 PROVE  /\ state'[k] = "succeeded" <=> result'[k] = "value"
                        /\ state'[k] = "failed" <=> result'[k] = "error"
                        /\ result'[k] \in {"jobCancelled", "cancellationReceipt"}
                               => state'[k] = "cancelled"
                        /\ result'[k] # "unbound"
                        /\ result'[k] = "cancellationReceipt" =>
                               Kind[k] \in {"applyPlan", "rollbackOperation"}
        BY DEF ResultExplainsState
    <2>1. CASE result'[k] = result[k] /\ state'[k] = state[k]
        BY <2>1 DEF ResultExplainsState
    <2>2. CASE result'[k] = result[k] /\ (Inserted(k) \/ Moved(k) \/ Dropped(k))
        <3>1. result[k] \notin {"value", "error", "jobCancelled", "cancellationReceipt", "unbound"}
            BY <2>2 DEF ResultExplainsState, Inserted, Moved, Dropped, Active
        <3>2. state'[k] \notin {"succeeded", "failed"}
            BY <2>2 DEF Inserted, Moved, Dropped, Active
        <3> QED BY <2>2, <3>1, <3>2
    <2>3. ASSUME NEW r \in Results, CompletedBy(k, r)
          PROVE  /\ state'[k] = "succeeded" <=> result'[k] = "value"
                 /\ state'[k] = "failed" <=> result'[k] = "error"
                 /\ result'[k] \in {"jobCancelled", "cancellationReceipt"}
                        => state'[k] = "cancelled"
                 /\ result'[k] # "unbound"
                 /\ result'[k] = "cancellationReceipt" =>
                        Kind[k] \in {"applyPlan", "rollbackOperation"}
        BY <2>3 DEF CompletedBy, ResultMatchesJob, TerminalState, Results
    <2> QED BY <2>1, <2>2, <2>3, StepOfOneJob
<1> QED BY <1>1, <1>2, TypeCorrect, PTL DEF MailboxSpec

\* A job that ended stays as it ended.
THEOREM EndsAreFinal == MailboxSpec => EndIsFinal
<1>1. TypeOK /\ [MailboxNext]_mailboxVars =>
          [\A j \in Jobs : state[j] \in Terminal =>
               state'[j] = state[j] /\ result'[j] = result[j]]_mailboxVars
    BY StepOfOneJob DEF Inserted, Moved, Dropped, CompletedBy, Active, Terminal
<1> QED BY <1>1, TypeCorrect, PTL DEF MailboxSpec, EndIsFinal

------------------------------------------------------------------------------
\* A job that becomes active was inserted by this step, alone: only the
\* operations that enqueue make a job active, and they enqueue one.
LEMMA NewSetupOperationIsAlone ==
    ASSUME TypeOK, NEW j \in Jobs, EnqueueSetupOperation(j),
           NEW k \in Jobs, state'[k] \in Active
    PROVE  /\ state[k] \in Active \/ k = j
           /\ state[k] \in Active /\ Kind[k] \in SetupKinds /\ InstanceOf[k] = InstanceOf[j]
                  => state'[j] = state[j]
<1>1. k \notin StalePending(InstanceOf[j])
    BY DEF EnqueueSetupOperation, Active, TypeOK
<1>2. state[k] \in Active \/ k = j
    BY <1>1 DEF EnqueueSetupOperation, TypeOK
<1>3. ASSUME state[k] \in Active, Kind[k] \in SetupKinds, InstanceOf[k] = InstanceOf[j]
      PROVE  state'[j] = state[j]
    <2>1. k \in ActiveSetup(InstanceOf[j])
        BY <1>1, <1>3 DEF ActiveSetup, SetupJobsOf
    <2>2. j \notin StalePending(InstanceOf[j])
        BY DEF EnqueueSetupOperation, StalePending
    <2> QED BY <2>1, <2>2 DEF EnqueueSetupOperation, TypeOK
<1> QED BY <1>2, <1>3

\* A checkout never has two setup operations in flight.
THEOREM SingleFlightHolds == MailboxSpec => []SingleFlight
<1>1. MailboxInit => SingleFlight
    BY DEF MailboxInit, SingleFlight, Active
<1>2. TypeOK /\ SingleFlight /\ [MailboxNext]_mailboxVars => SingleFlight'
    <2> SUFFICES ASSUME TypeOK, SingleFlight, [MailboxNext]_mailboxVars,
                        NEW j \in Jobs, NEW k \in Jobs,
                        Kind[j] \in SetupKinds, Kind[k] \in SetupKinds,
                        InstanceOf[j] = InstanceOf[k],
                        state'[j] \in Active, state'[k] \in Active
                 PROVE  j = k
        BY DEF SingleFlight
    <2>1. CASE state[j] \in Active /\ state[k] \in Active
        BY <2>1 DEF SingleFlight
    <2>2. ASSUME NEW n \in Jobs, EnqueueSetupOperation(n) PROVE j = k
        <3>1. state[n] = "absent"
            BY <2>2 DEF EnqueueSetupOperation
        <3>2. /\ state[j] \in Active \/ j = n
              /\ state[k] \in Active \/ k = n
            BY <2>2, NewSetupOperationIsAlone
        <3>3. CASE j = n /\ state[k] \in Active
            BY <2>2, <3>1, <3>3, NewSetupOperationIsAlone DEF Active
        <3>4. CASE k = n /\ state[j] \in Active
            BY <2>2, <3>1, <3>4, NewSetupOperationIsAlone DEF Active
        <3> QED BY <2>1, <3>2, <3>3, <3>4
    <2>3. ASSUME NEW n \in Jobs, EnqueueJob(n) PROVE j = k
        <3>1. j # n /\ k # n
            BY <2>3 DEF EnqueueJob
        <3> QED BY <2>1, <2>3, <3>1 DEF EnqueueJob, TypeOK
    <2>4. CASE ~\E n \in Jobs : EnqueueSetupOperation(n) \/ EnqueueJob(n)
        <3>1. ASSUME NEW i \in {j, k}, Inserted(i) PROVE FALSE
            <4>1. state[i] = "absent" /\ state'[i] = "pending" /\ i \in Jobs
                BY <3>1 DEF Inserted
            <4>2. ~ClaimNone /\ \A n \in Jobs : ~ClaimHeld(n) /\ ~ClaimNew(n)
                BY <4>1 DEF ClaimNone, ClaimHeld, ClaimNew, ExpireOverdue, Overdue, TypeOK
            <4>3. \A n \in Jobs : ~RequestCancellation(n)
                BY <4>1 DEF RequestCancellation, TypeOK
            <4>4. ~Tick /\ ~UNCHANGED mailboxVars
                BY <4>1 DEF Tick, mailboxVars
            <4>5. \A n \in Jobs, l \in 1..lastLease :
                      ~AcknowledgeJob(n, l) /\ ~JobControl(n, l)
                BY <4>1 DEF AcknowledgeJob, JobControl, TypeOK
            <4>6. \A n \in Jobs, l \in 1..lastLease, r \in Results : ~CompleteJob(n, l, r)
                BY <4>1, TerminalStateRange DEF CompleteJob, TypeOK
            <4> QED
                BY <2>4, <4>2, <4>3, <4>4, <4>5, <4>6 DEF MailboxNext, Browser, Runner
        <3>2. state[j] \in Active
            BY <3>1, StepOfOneJob, TerminalStateRange
            DEF Moved, Dropped, CompletedBy, Active
        <3>3. state[k] \in Active
            BY <3>1, StepOfOneJob, TerminalStateRange
            DEF Moved, Dropped, CompletedBy, Active
        <3> QED BY <2>1, <3>2, <3>3
    <2> QED BY <2>2, <2>3, <2>4
<1> QED BY <1>1, <1>2, TypeCorrect, PTL DEF MailboxSpec

------------------------------------------------------------------------------
\* Leases are numbered in the order they are handed out, and a job that is held
\* carries one of them.
LeasesIssued ==
    \A j \in Jobs :
        /\ leaseId[j] <= lastLease
        /\ state[j] \in {"leased", "acknowledged"} => leaseId[j] > 0

\* Every step preserves that, and only a claim hands out a lease.
LEMMA LeaseStep ==
    ASSUME TypeOK, LeasesIssued, LeaseNamesOneJob, [MailboxNext]_mailboxVars
    PROVE  LeasesIssued' /\ LeaseNamesOneJob'
<1>1. ASSUME NEW j \in Jobs, ClaimNew(j) PROVE LeasesIssued' /\ LeaseNamesOneJob'
    <2>1. /\ lastLease' = lastLease + 1
          /\ \A k \in Jobs : leaseId'[k] = (IF k = j THEN lastLease + 1 ELSE leaseId[k])
          /\ \A k \in Jobs \ {j} : state'[k] \in {state[k], "expired"}
        BY <1>1 DEF ClaimNew, NextLease, ExpireOverdue, TypeOK
    <2>2. \A k \in Jobs : leaseId[k] \in Nat /\ leaseId[k] <= lastLease
        BY DEF TypeOK, LeasesIssued
    <2>3. LeasesIssued'
        BY <2>1, <2>2 DEF LeasesIssued, TypeOK
    <2>4. LeaseNamesOneJob'
        BY <2>1, <2>2 DEF LeaseNamesOneJob, TypeOK
    <2> QED BY <2>3, <2>4
<1>2. ASSUME UNCHANGED <<leaseId, lastLease>>,
             \A k \in Jobs : state'[k] \in {"leased", "acknowledged"}
                                => state[k] \in {"leased", "acknowledged"}
      PROVE  LeasesIssued' /\ LeaseNamesOneJob'
    BY <1>2 DEF LeasesIssued, LeaseNamesOneJob
<1>3. ASSUME NEW j \in Jobs,
             \/ EnqueueJob(j) \/ EnqueueSetupOperation(j) \/ RequestCancellation(j)
      PROVE  LeasesIssued' /\ LeaseNamesOneJob'
    BY <1>2, <1>3 DEF EnqueueJob, EnqueueSetupOperation, RequestCancellation, TypeOK
<1>4. ASSUME ClaimNone \/ \E j \in Jobs : ClaimHeld(j)
      PROVE  LeasesIssued' /\ LeaseNamesOneJob'
    BY <1>2, <1>4 DEF ClaimNone, ClaimHeld, ExpireOverdue
<1>5. ASSUME NEW j \in Jobs, NEW l \in 1..lastLease, AcknowledgeJob(j, l) \/ JobControl(j, l)
      PROVE  LeasesIssued' /\ LeaseNamesOneJob'
    BY <1>2, <1>5 DEF AcknowledgeJob, CanAcknowledge, JobControl, TypeOK
<1>6. ASSUME NEW j \in Jobs, NEW l \in 1..lastLease, NEW r \in Results, CompleteJob(j, l, r)
      PROVE  LeasesIssued' /\ LeaseNamesOneJob'
    BY <1>2, <1>6, TerminalStateRange DEF CompleteJob, TypeOK
<1>7. CASE Tick \/ UNCHANGED mailboxVars
    BY <1>2, <1>7 DEF Tick, mailboxVars
<1> QED
    BY <1>1, <1>3, <1>4, <1>5, <1>6, <1>7 DEF MailboxNext, Browser, Runner

\* No two jobs carry the same lease: a new one is above every lease in use.
THEOREM LeasesNameJobs == MailboxSpec => []LeaseNamesOneJob
<1> DEFINE Inv == LeasesIssued /\ LeaseNamesOneJob
<1>1. MailboxInit => Inv
    BY DEF MailboxInit, LeasesIssued, LeaseNamesOneJob
<1>2. TypeOK /\ Inv /\ [MailboxNext]_mailboxVars => Inv'
    BY LeaseStep
<1> QED BY <1>1, <1>2, TypeCorrect, PTL DEF MailboxSpec

------------------------------------------------------------------------------
(* RunnerAccess: the service runs the mailbox's transactions, and loses no   *)
(* wake-up.                                                                  *)

\* What the calls of the runner do to the rows.
LEMMA GiveJobIsClaim ==
    ASSUME GiveJob PROVE Runner
BY DEF GiveJob, Runner

LEMMA ActedIsRunner ==
    ASSUME AcknowledgeLease \/ Submit \/ Control PROVE Runner
BY DEF AcknowledgeLease, Submit, Control, Runner

\* A step of the service is one transaction of the mailbox, or none.
LEMMA StepIsMailboxStep ==
    ASSUME [AccessNext]_accessVars
    PROVE  [MailboxNext]_mailboxVars
<1> USE DEF MailboxNext
<1>1. ASSUME NEW c \in Requests, Proceed(c) PROVE [MailboxNext]_mailboxVars
    <2>1. CASE ClaimAtOnce(c)
        BY <2>1, GiveJobIsClaim DEF ClaimAtOnce
    <2>2. CASE ClaimNothing(c)
        BY <2>2 DEF ClaimNothing, Runner
    <2>3. CASE EnterWait(c)
        BY <2>3 DEF EnterWait
    <2>4. CASE WaitTimesOut(c)
        BY <2>4 DEF WaitTimesOut
    <2>5. CASE ClaimAgain(c)
        BY <2>5, GiveJobIsClaim DEF ClaimAgain, Runner
    <2>6. CASE Act(c)
        BY <2>6, ActedIsRunner DEF Act
    <2>7. CASE RequestFails(c)
        BY <2>7 DEF RequestFails
    <2> QED BY <1>1, <2>1, <2>2, <2>3, <2>4, <2>5, <2>6, <2>7 DEF Proceed
<1>2. ASSUME NEW c \in Requests, NEW s \in Servers, StartClaim(c, s) \/ StartAct(c, s)
      PROVE  [MailboxNext]_mailboxVars
    BY <1>2 DEF StartClaim, StartAct
<1>3. ASSUME NEW j \in Jobs, RequireAvailable(j) \/ Cancel(j) PROVE [MailboxNext]_mailboxVars
    BY <1>3 DEF RequireAvailable, Cancel, Browser
<1>4. ASSUME NEW j \in Jobs, NEW s \in Servers, Enqueue(j, s) \/ Notify(j, s)
      PROVE  [MailboxNext]_mailboxVars
    BY <1>4 DEF Enqueue, Notify, Browser
<1>5. CASE RevokeRunner
    BY <1>5 DEF RevokeRunner
<1>6. ASSUME NEW s \in Servers, Restart(s) PROVE [MailboxNext]_mailboxVars
    BY <1>6 DEF Restart
<1>7. CASE AccessTick
    BY <1>7 DEF AccessTick
<1>8. CASE UNCHANGED accessVars
    BY <1>8 DEF accessVars
<1> QED BY <1>1, <1>2, <1>3, <1>4, <1>5, <1>6, <1>7, <1>8 DEF AccessNext

\* Authentication, long polling, signals and revocation only ever run the
\* mailbox's own transactions, so what is proved of it holds behind the API.
THEOREM AccessImplementsMailbox == AccessSpec => MailboxSpec
<1>1. AccessInit => MailboxInit
    BY DEF AccessInit
<1>2. [AccessNext]_accessVars => [MailboxNext]_mailboxVars
    BY StepIsMailboxStep
<1> QED BY <1>1, <1>2, PTL DEF AccessSpec, MailboxSpec

------------------------------------------------------------------------------
\* The step from one authenticated call to the next keeps the types.
LEMMA AccessTypeStep ==
    ASSUME AccessTypeOK, [AccessNext]_accessVars
    PROVE  AccessTypeOK'
<1>1. TypeOK'
    BY StepIsMailboxStep, TypeStep DEF AccessTypeOK
<1> USE <1>1, ServerAssumption DEF AccessTypeOK, Stages
<1>2. ASSUME NEW c \in Requests, Proceed(c) PROVE AccessTypeOK'
    <2>1. CASE ClaimAtOnce(c) \/ ClaimAgain(c) \/ Act(c) \/ RequestFails(c)
        BY <2>1 DEF ClaimAtOnce, ClaimAgain, Act, RequestFails, Finish, signalVars
    <2>2. CASE ClaimNothing(c)
        BY <2>2 DEF ClaimNothing, Finish, Move, signalVars
    <2>3. CASE EnterWait(c) \/ WaitTimesOut(c)
        BY <2>3 DEF EnterWait, WaitTimesOut, Move, signalVars
    <2> QED BY <1>2, <2>1, <2>2, <2>3 DEF Proceed
<1>3. ASSUME NEW c \in Requests, NEW s \in Servers, StartClaim(c, s) \/ StartAct(c, s)
      PROVE  AccessTypeOK'
    BY <1>3 DEF StartClaim, StartAct, signalVars
<1>4. ASSUME NEW j \in Jobs, RequireAvailable(j) \/ Cancel(j) PROVE AccessTypeOK'
    BY <1>4 DEF RequireAvailable, Cancel, signalVars, callVars
<1>5. ASSUME NEW j \in Jobs, NEW s \in Servers, Enqueue(j, s) PROVE AccessTypeOK'
    BY <1>5 DEF Enqueue, callVars
<1>6. ASSUME NEW j \in Jobs, NEW s \in Servers, Notify(j, s) PROVE AccessTypeOK'
    BY <1>6 DEF Notify, Woken
<1>7. CASE RevokeRunner \/ AccessTick
    BY <1>7 DEF RevokeRunner, AccessTick, signalVars, callVars
<1>8. ASSUME NEW s \in Servers, Restart(s) PROVE AccessTypeOK'
    BY <1>8 DEF Restart
<1>9. CASE UNCHANGED accessVars
    BY <1>9 DEF accessVars, signalVars, callVars
<1> QED BY <1>2, <1>3, <1>4, <1>5, <1>6, <1>7, <1>8, <1>9 DEF AccessNext

\* The state of the service keeps its types, and no call that ended keeps its
\* server.
THEOREM AccessTypeCorrect == AccessSpec => []AccessTypeOK
<1>1. AccessInit => AccessTypeOK
    <2>1. MailboxInit => TypeOK
        BY DEF MailboxInit, TypeOK, Results, NoResult
    <2> QED BY <2>1 DEF AccessInit, AccessTypeOK, Stages
<1>2. AccessTypeOK /\ [AccessNext]_accessVars => AccessTypeOK'
    BY AccessTypeStep
<1> QED BY <1>1, <1>2, PTL DEF AccessSpec

------------------------------------------------------------------------------
\* A pending job whose server has signalled it.
Announced(j, s) == queuedAt[j] = s /\ <<j, s>> \notin unsignalled /\ state[j] = "pending"

\* The argument of the long poll.  A call reads the generation before it
\* claims; what is announced after its first claim came back empty was signalled
\* after that, so the generation has moved on before the call can sleep.
WakeInv ==
    \A c \in Requests :
        /\ stage[c] \in {"claim", "wait", "waiting"} => seen[c] <= generations[at[c]]
        /\ stage[c] = "wait" =>
               \A j \in Jobs : Announced(j, at[c]) => SignalledSince(c)
        /\ stage[c] = "waiting" => \A j \in Jobs : ~ Announced(j, at[c])

\* A claim that gives nothing leaves nothing pending.
LEMMA ClaimNoneLeavesNone ==
    ASSUME TypeOK, ClaimNone, NEW j \in Jobs
    PROVE  state'[j] # "pending"
BY DEF ClaimNone, Claimable, ExpireOverdue, TypeOK

\* Only a request makes a job pending.
LEMMA RunnerMakesNothingPending ==
    ASSUME TypeOK, Runner, NEW k \in Jobs, state'[k] = "pending"
    PROVE  state[k] = "pending"
<1> USE DEF TypeOK
<1>1. CASE ClaimNone
    BY <1>1 DEF ClaimNone, ExpireOverdue
<1>2. ASSUME NEW j \in Jobs, ClaimHeld(j) PROVE state[k] = "pending"
    BY <1>2 DEF ClaimHeld, ExpireOverdue
<1>3. ASSUME NEW j \in Jobs, ClaimNew(j) PROVE state[k] = "pending"
    BY <1>3 DEF ClaimNew, ExpireOverdue
<1>4. ASSUME NEW j \in Jobs, NEW l \in 1..lastLease, AcknowledgeJob(j, l)
      PROVE  state[k] = "pending"
    BY <1>4 DEF AcknowledgeJob
<1>5. ASSUME NEW j \in Jobs, NEW l \in 1..lastLease, JobControl(j, l)
      PROVE  state[k] = "pending"
    BY <1>5 DEF JobControl
<1>6. ASSUME NEW j \in Jobs, NEW l \in 1..lastLease, NEW r \in Results, CompleteJob(j, l, r)
      PROVE  state[k] = "pending"
    BY <1>6, TerminalStateRange DEF CompleteJob
<1> QED BY <1>1, <1>2, <1>3, <1>4, <1>5, <1>6 DEF Runner

\* A call that starts, ends or moves on disturbs no other, as long as no job
\* becomes pending and the signals stand still.
LEMMA OneCallMoves ==
    ASSUME AccessTypeOK, WakeInv, NEW c \in Requests,
           \A k \in Jobs : state'[k] = "pending" => state[k] = "pending",
           UNCHANGED signalVars,
           \A d \in Requests \ {c} : stage'[d] = stage[d] /\ at'[d] = at[d] /\ seen'[d] = seen[d]
    PROVE  \A d \in Requests \ {c} :
               /\ stage'[d] \in {"claim", "wait", "waiting"} => seen'[d] <= generations'[at'[d]]
               /\ stage'[d] = "wait" =>
                      \A j \in Jobs : Announced(j, at[d])' => SignalledSince(d)'
               /\ stage'[d] = "waiting" => \A j \in Jobs : ~ Announced(j, at[d])'
BY DEF WakeInv, Announced, SignalledSince, signalVars

\* Every step keeps the argument.
LEMMA WakeStep ==
    ASSUME AccessTypeOK, WakeInv, [AccessNext]_accessVars
    PROVE  WakeInv'
<1> USE DEF AccessTypeOK, Stages
<1>1. ASSUME NEW c \in Requests, Proceed(c) PROVE WakeInv'
    <2>1. \A k \in Jobs : state'[k] = "pending" => state[k] = "pending"
        <3>1. CASE Runner
            BY <3>1, RunnerMakesNothingPending
        <3>2. CASE UNCHANGED mailboxVars
            BY <3>2 DEF mailboxVars
        <3> QED
            BY <1>1, <3>1, <3>2, GiveJobIsClaim, ActedIsRunner
            DEF Proceed, ClaimAtOnce, ClaimNothing, EnterWait, WaitTimesOut, ClaimAgain, Act,
                RequestFails, Runner
    <2>2. /\ UNCHANGED signalVars
          /\ \A d \in Requests \ {c} : stage'[d] = stage[d] /\ at'[d] = at[d] /\ seen'[d] = seen[d]
        BY <1>1 DEF Proceed, ClaimAtOnce, ClaimNothing, EnterWait, WaitTimesOut, ClaimAgain,
                    Act, RequestFails, Finish, Move
    <2>3. CASE stage'[c] \in {"none", "again"}
        BY <2>1, <2>2, <2>3, OneCallMoves DEF WakeInv
    <2>4. CASE ClaimNothing(c) /\ stage'[c] = "wait"
        <3>1. \A j \in Jobs : ~ Announced(j, at[c])'
            BY <2>4, ClaimNoneLeavesNone DEF ClaimNothing, Announced
        <3>2. seen'[c] <= generations'[at'[c]]
            BY <2>4 DEF ClaimNothing, Move, Finish, WakeInv, signalVars
        <3>3. at'[c] = at[c]
            BY <2>4 DEF ClaimNothing, Move, Finish
        <3> QED BY <2>1, <2>2, <2>4, <3>1, <3>2, <3>3, OneCallMoves DEF WakeInv, Announced
    <2>5. CASE EnterWait(c) /\ stage'[c] = "waiting"
        <3>1. stage[c] = "wait" /\ ~ SignalledSince(c) /\ UNCHANGED <<at, seen, state, signalVars>>
            BY <2>5 DEF EnterWait, Move, mailboxVars
        <3>2. \A j \in Jobs : ~ Announced(j, at[c])'
            BY <3>1 DEF WakeInv, Announced, signalVars
        <3>3. seen'[c] <= generations'[at'[c]]
            BY <3>1 DEF WakeInv, signalVars
        <3> QED BY <2>1, <2>2, <2>5, <3>1, <3>2, <3>3, OneCallMoves DEF WakeInv, Announced
    <2>6. \/ stage'[c] \in {"none", "again"}
          \/ ClaimNothing(c) /\ stage'[c] = "wait"
          \/ EnterWait(c) /\ stage'[c] = "waiting"
        BY <1>1 DEF Proceed, ClaimAtOnce, ClaimNothing, EnterWait, WaitTimesOut, ClaimAgain,
                    Act, RequestFails, Finish, Move
    <2> QED BY <2>3, <2>4, <2>5, <2>6
<1>2. ASSUME NEW c \in Requests, NEW s \in Servers, StartClaim(c, s) \/ StartAct(c, s)
      PROVE  WakeInv'
    <2>1. /\ stage'[c] \in {"claim", "act"}
          /\ stage'[c] = "claim" => at'[c] = s /\ seen'[c] = generations[s]
          /\ UNCHANGED <<state, signalVars>>
          /\ \A d \in Requests \ {c} : stage'[d] = stage[d] /\ at'[d] = at[d] /\ seen'[d] = seen[d]
        BY <1>2 DEF StartClaim, StartAct, mailboxVars
    <2>2. stage'[c] = "claim" => seen'[c] <= generations'[at'[c]]
        BY <2>1 DEF signalVars
    <2> QED BY <2>1, <2>2, OneCallMoves DEF WakeInv
<1>3. ASSUME NEW j \in Jobs, RequireAvailable(j) \/ Cancel(j) PROVE WakeInv'
    <2>1. UNCHANGED <<generations, queuedAt, unsignalled, callVars>>
        BY <1>3 DEF RequireAvailable, Cancel, signalVars
    <2>2. \A k \in Jobs : state'[k] = "pending" => state[k] = "pending"
        BY <1>3 DEF RequireAvailable, Cancel, RequestCancellation, mailboxVars, TypeOK
    <2> QED BY <2>1, <2>2 DEF WakeInv, Announced, SignalledSince, callVars
<1>4. ASSUME NEW j \in Jobs, NEW s \in Servers, Enqueue(j, s) PROVE WakeInv'
    <2>1. UNCHANGED <<generations, callVars>>
        BY <1>4 DEF Enqueue
    <2>2. \A k \in Jobs \ {j} : state'[k] = "pending" => state[k] = "pending"
        BY <1>4 DEF Enqueue, EnqueueJob, EnqueueSetupOperation, TypeOK
    <2>3. \A k \in Jobs, t \in Servers : Announced(k, t)' => Announced(k, t)
        <3>1. state[j] = "absent"
            BY <1>4 DEF Enqueue, EnqueueJob, EnqueueSetupOperation
        <3> QED BY <1>4, <2>2, <3>1 DEF Enqueue, Announced
    <2> QED BY <2>1, <2>3 DEF WakeInv, Announced, SignalledSince, callVars
<1>5. ASSUME NEW j \in Jobs, NEW s \in Servers, Notify(j, s) PROVE WakeInv'
    <2>1. /\ generations'[s] = generations[s] + 1
          /\ \A t \in Servers \ {s} : generations'[t] = generations[t]
          /\ unsignalled' = unsignalled \ {<<j, s>>}
          /\ UNCHANGED <<state, queuedAt, at, seen>>
          /\ \A c \in Requests : stage'[c] = IF c \in Woken(s) THEN "again" ELSE stage[c]
        BY <1>5 DEF Notify, mailboxVars
    <2>2. \A k \in Jobs, t \in Servers \ {s} : Announced(k, t)' => Announced(k, t)
        BY <2>1 DEF Announced
    <2>3. ASSUME NEW c \in Requests, stage'[c] \in {"claim", "wait", "waiting"}
          PROVE  /\ stage[c] = stage'[c] /\ at[c] \in Servers /\ at'[c] = at[c]
                 /\ seen'[c] = seen[c] /\ seen[c] <= generations[at[c]]
                 /\ stage[c] = "waiting" => at[c] # s
        BY <2>1, <2>3 DEF WakeInv, Woken
    <2>4. ASSUME NEW c \in Requests, stage'[c] \in {"claim", "wait", "waiting"}
          PROVE  /\ seen'[c] <= generations'[at'[c]]
                 /\ at[c] = s => SignalledSince(c)'
                 /\ at[c] # s => generations'[at[c]] = generations[at[c]]
        BY <2>1, <2>3, <2>4 DEF SignalledSince
    <2>5. ASSUME NEW c \in Requests, stage'[c] = "wait", NEW k \in Jobs, Announced(k, at[c])'
          PROVE  SignalledSince(c)'
        <3>1. CASE at[c] = s
            BY <2>4, <2>5, <3>1
        <3>2. CASE at[c] # s
            BY <2>2, <2>3, <2>4, <2>5, <3>2 DEF WakeInv, SignalledSince, Announced
        <3> QED BY <3>1, <3>2
    <2>6. ASSUME NEW c \in Requests, stage'[c] = "waiting", NEW k \in Jobs
          PROVE  ~ Announced(k, at[c])'
        BY <2>2, <2>3, <2>6 DEF WakeInv, Announced
    <2> QED BY <2>4, <2>5, <2>6 DEF WakeInv
<1>6. CASE RevokeRunner \/ AccessTick \/ UNCHANGED accessVars
    <2>1. UNCHANGED <<state, signalVars, callVars>>
        BY <1>6 DEF RevokeRunner, AccessTick, Tick, accessVars, mailboxVars
    <2> QED BY <2>1 DEF WakeInv, Announced, SignalledSince, signalVars, callVars
<1>7. ASSUME NEW s \in Servers, Restart(s) PROVE WakeInv'
    <2>1. ASSUME NEW c \in Requests, stage'[c] # "none"
          PROVE  /\ stage'[c] = stage[c] /\ at'[c] = at[c] /\ seen'[c] = seen[c]
                 /\ at[c] \in Servers \ {s}
                 /\ generations'[at[c]] = generations[at[c]]
        BY <1>7, <2>1 DEF Restart
    <2>2. \A k \in Jobs, t \in Servers \ {s} : Announced(k, t)' => Announced(k, t)
        BY <1>7, ServerAssumption DEF Restart, Announced, mailboxVars
    <2> QED BY <2>1, <2>2 DEF WakeInv, Announced, SignalledSince
<1> QED BY <1>1, <1>2, <1>3, <1>4, <1>5, <1>6, <1>7 DEF AccessNext

\* No poll sleeps over a job that its server has signalled.
THEOREM NoWakeUpIsLost == AccessSpec => []NoLostWakeUp
<1>1. AccessInit => WakeInv
    BY DEF AccessInit, WakeInv
<1>2. AccessTypeOK /\ WakeInv /\ [AccessNext]_accessVars => WakeInv'
    BY WakeStep
<1>3. WakeInv => NoLostWakeUp
    BY DEF WakeInv, NoLostWakeUp, Announced
<1> QED BY <1>1, <1>2, <1>3, AccessTypeCorrect, PTL DEF AccessSpec

------------------------------------------------------------------------------
(* JobDelivery: the worker implements the mailbox, commits before it sends,  *)
(* and never runs a job again once its result is durable.                    *)

\* The places of run_once with a lease in hand, and those with a result too.
InHand == {"begin", "acknowledge", "control", "prepare", "execute", "run",
           "checkpoint", "publish", "finish"}

Concluded == {"checkpoint", "publish", "finish"}

\* The frame of run_once holds what its place in the code needs.
FrameOK ==
    /\ pc \in Pcs
    /\ todo \subseteq Jobs
    /\ cur \in Leases \cup {Idle}
    /\ curResult \in Results \cup {NoResult}
    /\ pc \in InHand => cur \in Leases
    /\ pc # "submit" => todo = {}
    /\ \A j \in todo : outbox[j] = "queued"
    /\ pc \in Concluded => curResult \in Results

\* What the journal says of the job in hand.
InHandJournaled ==
    /\ pc \in InHand \ {"begin"} => journal[cur.job] # "none"
    /\ pc \in {"control", "prepare", "publish", "finish"} =>
           journal[cur.job] \in {"started", "captured"}
    /\ pc \in {"execute", "run", "checkpoint"} => journal[cur.job] = "started"
    /\ pc = "checkpoint" => Kind[cur.job] = "snapshotSkill"
    /\ pc \in {"acknowledge", "control", "prepare"} /\ journal[cur.job] = "captured" =>
           curResult = jresult[cur.job]

\* A value in hand is of work that was done.
ValueInHand ==
    pc \in Concluded /\ curResult = "value" /\ Kind[cur.job] # "evaluateSetups" =>
        work[cur.job] >= 1

\* An evaluation whose sessions were paid for is not on its way to run.
EvaluationsRunOnce ==
    \A j \in Jobs : Kind[j] = "evaluateSetups" /\ work[j] > 0 =>
        /\ journal[j] # "none"
        /\ pc \in InHand /\ cur.job = j =>
             \/ pc = "begin"
             \/ pc \in Concluded
             \/ pc = "acknowledge" /\ (journal[j] = "started" => curResult # NoResult)

FrameInv == FrameOK /\ InHandJournaled /\ ValueInHand /\ EvaluationsRunOnce

\* The rows of runner.db, and the work done.
RowTypes ==
    /\ journal \in [Jobs -> {"none", "started", "captured", "done"}]
    /\ jresult \in [Jobs -> Results \cup {NoResult}]
    /\ outbox \in [Jobs -> {"none", "queued", "delivered"}]
    /\ outLease \in [Jobs -> Nat]
    /\ due \in [Jobs -> BOOLEAN]
    /\ work \in [Jobs -> Nat]

\* A row that has a result has one to send, of work that was done, and only
\* terminal rows are queued.
RowsOK ==
    \A j \in Jobs :
        /\ journal[j] \in {"captured", "done"} => jresult[j] \in Results
        /\ journal[j] = "captured" => Kind[j] = "snapshotSkill"
        /\ outbox[j] # "none" => journal[j] = "done"
        /\ jresult[j] = "value" /\ Kind[j] # "evaluateSetups" => work[j] >= 1

\* What a timed-out call may still do is covered by the journal.
NetworkOK ==
    /\ delayed \subseteq Calls
    /\ timeouts \in Nat /\ crashes \in Nat
    /\ \A c \in delayed :
          /\ c.op = "acknowledge" => journal[c.job] # "none"
          /\ c.op = "submit" => journal[c.job] = "done" /\ jresult[c.job] = c.result

\* An apply that has no terminal row, and whose result is not in hand, has lost the
\* result of each of its commits to a crash.
UnsavedEffects ==
    \A j \in Jobs :
        Kind[j] = "applyPlan" /\ journal[j] \in {"none", "started"} =>
            work[j] <= crashes \/ (pc = "finish" /\ cur.job = j)

EffectsInv == RepeatedOnlyByCrash /\ UnsavedEffects

\* What holds between the worker and the mailbox.
BothSides == CommittedBeforeSent /\ DeliveredIsStored /\ SuccessIsReal

\* The inductive invariant.
DeliveryInv ==
    /\ TypeOK /\ LeasesIssued /\ LeaseNamesOneJob
    /\ RowTypes /\ RowsOK /\ NetworkOK
    /\ FrameInv
    /\ BothSides
    /\ EffectsInv

------------------------------------------------------------------------------
\* The mailbox under the worker's calls.

\* A mailbox step that stores no result and acknowledges nothing.
QuietMailbox ==
    /\ [MailboxNext]_mailboxVars
    /\ result' = result
    /\ \A j \in Jobs : /\ state'[j] = "acknowledged" => state[j] = "acknowledged"
                       /\ state'[j] = "succeeded" => state[j] = "succeeded"

\* Everything but an acknowledgement and a result is quiet.
LEMMA QuietCalls ==
    ASSUME TypeOK, LeasesIssued,
           \/ KeepMailbox
           \/ ClaimNone
           \/ \E j \in Jobs : ClaimHeld(j) \/ ClaimNew(j)
           \/ \E j \in Jobs, l \in Nat : JobControl(j, l)
           \/ Tick \/ Browser
    PROVE  QuietMailbox
<1>1. CASE KeepMailbox
    BY <1>1 DEF KeepMailbox, QuietMailbox, mailboxVars
<1>2. \A j \in Jobs : ExpireOverdue[j] \in {state[j], "expired"}
    BY DEF ExpireOverdue
<1>3. CASE ClaimNone
    BY <1>2, <1>3 DEF ClaimNone, QuietMailbox, MailboxNext, Runner
<1>4. ASSUME NEW j \in Jobs, ClaimHeld(j) PROVE QuietMailbox
    BY <1>2, <1>4 DEF ClaimHeld, QuietMailbox, MailboxNext, Runner
<1>5. ASSUME NEW j \in Jobs, ClaimNew(j) PROVE QuietMailbox
    BY <1>2, <1>5 DEF ClaimNew, ExpireOverdue, QuietMailbox, MailboxNext, Runner
<1>6. ASSUME NEW j \in Jobs, NEW l \in Nat, JobControl(j, l) PROVE QuietMailbox
    <2>1. l \in 1..lastLease
        BY <1>6 DEF JobControl, HoldsLease, LeasesIssued, TypeOK
    <2> QED BY <1>6, <2>1 DEF JobControl, QuietMailbox, MailboxNext, Runner
<1>7. CASE Tick
    BY <1>7 DEF Tick, QuietMailbox, MailboxNext
<1>8. ASSUME NEW j \in Jobs, EnqueueJob(j) PROVE QuietMailbox
    BY <1>8 DEF EnqueueJob, QuietMailbox, MailboxNext, Browser, TypeOK
<1>9. ASSUME NEW j \in Jobs, EnqueueSetupOperation(j) PROVE QuietMailbox
    BY <1>9 DEF EnqueueSetupOperation, QuietMailbox, MailboxNext, Browser, TypeOK
<1>10. ASSUME NEW j \in Jobs, RequestCancellation(j) PROVE QuietMailbox
    BY <1>10 DEF RequestCancellation, QuietMailbox, MailboxNext, Browser, TypeOK
<1> QED BY <1>1, <1>3, <1>4, <1>5, <1>6, <1>7, <1>8, <1>9, <1>10 DEF Browser

\* An acknowledgement is the mailbox's, and is of one job.
LEMMA AcknowledgeCall ==
    ASSUME TypeOK, LeasesIssued, NEW j \in Jobs, NEW l \in Nat, AcknowledgeJob(j, l)
    PROVE  /\ [MailboxNext]_mailboxVars
           /\ result' = result
           /\ \A k \in Jobs \ {j} : state'[k] = state[k]
           /\ state'[j] = "acknowledged"
<1>1. l \in 1..lastLease
    BY DEF AcknowledgeJob, CanAcknowledge, LeasesIssued, TypeOK
<1> QED BY <1>1 DEF AcknowledgeJob, MailboxNext, Runner, TypeOK

\* A result is the mailbox's, and is of one job.
LEMMA CompleteCall ==
    ASSUME TypeOK, LeasesIssued, NEW j \in Jobs, NEW l \in Nat, NEW r \in Results,
           CompleteJob(j, l, r)
    PROVE  /\ [MailboxNext]_mailboxVars
           /\ result' = [result EXCEPT ![j] = r]
           /\ \A k \in Jobs \ {j} : state'[k] = state[k]
           /\ state'[j] = TerminalState(r)
<1>1. l \in 1..lastLease
    BY DEF CompleteJob, CanComplete, LeasesIssued, TypeOK
<1> QED BY <1>1 DEF CompleteJob, MailboxNext, Runner, TypeOK

\* The mailbox keeps its own part of the invariant.
LEMMA MailboxPart ==
    ASSUME DeliveryInv, [MailboxNext]_mailboxVars
    PROVE  TypeOK' /\ LeasesIssued' /\ LeaseNamesOneJob'
BY TypeStep, LeaseStep DEF DeliveryInv

------------------------------------------------------------------------------
\* A step that only forgets nothing: rows that were committed stay, terminal
\* ones as they are, and work is not undone.
NothingForgotten ==
    \A j \in Jobs :
        /\ journal[j] # "none" => journal'[j] # "none"
        /\ journal[j] = "done" => journal'[j] = "done" /\ jresult'[j] = jresult[j]
        /\ outbox'[j] = "delivered" => outbox[j] = "delivered"
        /\ work'[j] >= work[j]

\* With a quiet mailbox, such a step keeps the two sides in agreement.
LEMMA QuietSides ==
    ASSUME DeliveryInv, RowTypes', QuietMailbox, NothingForgotten
    PROVE  BothSides'
<1> USE DEF QuietMailbox, NothingForgotten
<1>1. CommittedBeforeSent'
    BY DEF DeliveryInv, BothSides, CommittedBeforeSent
<1>2. DeliveredIsStored'
    BY DEF DeliveryInv, BothSides, DeliveredIsStored, RowsOK
<1>3. SuccessIsReal'
    BY DEF DeliveryInv, BothSides, SuccessIsReal, RowTypes
<1> QED BY <1>1, <1>2, <1>3 DEF BothSides

\* A step of the frame alone.
LEMMA FrameStep ==
    ASSUME DeliveryInv, QuietMailbox, KeepRunnerDb, KeepNetwork, work' = work, FrameInv',
           pc # "finish"
    PROVE  [MailboxNext]_mailboxVars /\ DeliveryInv'
<1>1. RowTypes' /\ RowsOK' /\ NetworkOK' /\ EffectsInv'
    BY DEF DeliveryInv, KeepRunnerDb, KeepNetwork, networkVars, RowTypes, RowsOK,
       NetworkOK, EffectsInv, RepeatedOnlyByCrash, UnsavedEffects
<1>2. NothingForgotten
    BY DEF DeliveryInv, KeepRunnerDb, NothingForgotten, RowTypes
<1>3. BothSides'
    BY <1>1, <1>2, QuietSides
<1>4. TypeOK' /\ LeasesIssued' /\ LeaseNamesOneJob'
    BY MailboxPart DEF QuietMailbox
<1> QED BY <1>1, <1>3, <1>4 DEF DeliveryInv, QuietMailbox

\* The end of a cycle leaves a frame with nothing in hand.
LEMMA CycleEnds ==
    ASSUME EndCycle,
           \A j \in Jobs : Kind[j] = "evaluateSetups" /\ work'[j] > 0 => journal'[j] # "none"
    PROVE  FrameInv'
<1>1. FrameOK'
    BY DEF EndCycle, FrameOK, Pcs, InHand, Concluded
<1>2. InHandJournaled' /\ ValueInHand'
    BY DEF EndCycle, InHandJournaled, ValueInHand, InHand, Concluded
<1>3. EvaluationsRunOnce'
    BY DEF EndCycle, EvaluationsRunOnce, InHand
<1> QED BY <1>1, <1>2, <1>3 DEF FrameInv

\* The steps of run_once that commit nothing.
LEMMA FrameSteps ==
    ASSUME DeliveryInv,
           \/ StartFlush \/ Claim \/ ReadControl \/ Prepare \/ StartExecution
           \/ RunFails \/ RunCancelled \/ Publish \/ KeepAlive
    PROVE  [MailboxNext]_mailboxVars /\ DeliveryInv'
<1> USE DEF KeepRunnerDb, KeepNetwork, networkVars, GoTo, EndCycle, Conclude
<1>0. /\ TypeOK /\ LeasesIssued
      /\ FrameOK /\ InHandJournaled /\ ValueInHand /\ EvaluationsRunOnce
      /\ RowTypes /\ RowsOK
    BY DEF DeliveryInv, FrameInv
<1>1. CASE StartFlush
    <2>1. QuietMailbox
        BY <1>0, <1>1, QuietCalls DEF StartFlush
    <2>2. FrameInv'
        BY <1>0, <1>1 DEF StartFlush, FrameInv, FrameOK, InHandJournaled, ValueInHand,
           EvaluationsRunOnce, InHand, Concluded, Pcs
    <2> QED BY <1>1, <2>1, <2>2, FrameStep DEF StartFlush
<1>2. CASE Claim
    <2>1. QuietMailbox
        BY <1>0, <1>2, QuietCalls DEF Claim
    <2>2. ASSUME EndCycle PROVE FrameInv'
        BY <1>0, <1>2, <2>2, CycleEnds DEF Claim, EvaluationsRunOnce
    <2>3. ASSUME NEW j \in Jobs,
                 cur' = [job |-> j, lease |-> leaseId'[j], cancel |-> cancel[j],
                         late |-> expiresAt[j] <= now]
          PROVE  cur' \in Leases
        BY <1>0, <2>1, <2>3, MailboxPart DEF QuietMailbox, TypeOK, Leases
    <2>4. ASSUME pc' = "begin", cur' \in Leases, UNCHANGED <<todo, curResult>>
          PROVE  FrameInv'
        BY <1>0, <1>2, <2>4 DEF Claim, FrameInv, FrameOK, InHandJournaled,
           ValueInHand, EvaluationsRunOnce, InHand, Concluded, Pcs
    <2>5. FrameInv'
        BY <1>2, <2>2, <2>3, <2>4 DEF Claim
    <2> QED BY <1>2, <2>1, <2>5, FrameStep DEF Claim
<1>3. CASE ReadControl
    <2>1. cur \in Leases /\ cur.job \in Jobs /\ cur.lease \in Nat /\ pc \in InHand
        BY <1>0, <1>3 DEF ReadControl, FrameOK, InHand, Leases
    <2>2. QuietMailbox
        BY <1>0, <1>3, <2>1, QuietCalls DEF ReadControl
    <2>3. CASE pc' = "prepare" /\ cur' \in Leases /\ cur'.job = cur.job
               /\ UNCHANGED <<todo, curResult>>
        <3>1. FrameInv'
            BY <1>0, <1>3, <2>1, <2>3 DEF ReadControl, FrameInv, FrameOK, InHandJournaled,
               ValueInHand, EvaluationsRunOnce, InHand, Concluded, Pcs
        <3> QED BY <1>3, <2>2, <3>1, FrameStep DEF ReadControl
    <2>4. CASE EndCycle
        <3>1. FrameInv'
            BY <1>0, <1>3, <2>4, CycleEnds DEF ReadControl, EvaluationsRunOnce
        <3> QED BY <1>3, <2>2, <3>1, FrameStep DEF ReadControl
    <2> QED BY <1>0, <1>3, <2>1, <2>3, <2>4 DEF ReadControl, Leases, TypeOK
<1>4. CASE Prepare
    <2>1. cur \in Leases /\ cur.job \in Jobs /\ pc \in InHand
        BY <1>0, <1>4 DEF Prepare, FrameOK, InHand, Leases
    <2>2. QuietMailbox
        BY <1>0, <1>4, QuietCalls DEF Prepare
    <2>3. FrameOK'
        BY <1>0, <1>4, <2>1 DEF Prepare, FrameOK, InHandJournaled, RowsOK, ArtifactPending,
           InHand, Concluded, Pcs, Results, NoResult
    <2>4. InHandJournaled' /\ ValueInHand'
        BY <1>0, <1>4, <2>1 DEF Prepare, InHandJournaled, ValueInHand, RowsOK, ArtifactPending,
           InHand, Concluded
    <2>5. EvaluationsRunOnce'
        BY <1>0, <1>4, <2>1 DEF Prepare, EvaluationsRunOnce, InHand, Concluded
    <2> QED BY <1>4, <2>2, <2>3, <2>4, <2>5, FrameStep DEF Prepare, FrameInv
<1>5. CASE StartExecution
    <2>1. /\ cur \in Leases /\ cur.job \in Jobs /\ cur.lease \in Nat /\ pc \in InHand
          /\ CancelledResult(cur.job) \in Results
          /\ CancelledResult(cur.job) = "value" => Kind[cur.job] = "evaluateSetups"
        BY <1>0, <1>5 DEF StartExecution, FrameOK, InHand, Leases, CancelledResult, Results
    <2>2. QuietMailbox
        BY <1>0, <1>5, <2>1, QuietCalls DEF StartExecution
    <2>3. FrameInv'
        BY <1>0, <1>5, <2>1 DEF StartExecution, FrameInv, FrameOK, InHandJournaled,
           ValueInHand, EvaluationsRunOnce, InHand, Concluded, Pcs, Results
    <2> QED BY <1>5, <2>2, <2>3, FrameStep DEF StartExecution
<1>6. CASE RunFails \/ RunCancelled
    <2>1. cur \in Leases /\ cur.job \in Jobs /\ cur.lease \in Nat /\ pc \in InHand
        BY <1>0, <1>6 DEF RunFails, RunCancelled, FrameOK, InHand, Leases
    <2>2. QuietMailbox
        BY <1>0, <1>6, <2>1, QuietCalls DEF RunFails, RunCancelled
    <2>3. FrameInv'
        BY <1>0, <1>6, <2>1 DEF RunFails, RunCancelled, FrameInv, FrameOK, InHandJournaled,
           ValueInHand, EvaluationsRunOnce, InHand, Concluded, Pcs, Results
    <2> QED BY <1>6, <2>2, <2>3, FrameStep DEF RunFails, RunCancelled
<1>7. CASE Publish
    <2>1. cur \in Leases /\ cur.job \in Jobs /\ pc \in InHand
        BY <1>0, <1>7 DEF Publish, FrameOK, InHand, Leases
    <2>2. QuietMailbox
        BY <1>0, <1>7, QuietCalls DEF Publish
    <2>3. FrameInv'
        BY <1>0, <1>7, <2>1 DEF Publish, FrameInv, FrameOK, InHandJournaled,
           ValueInHand, EvaluationsRunOnce, InHand, Concluded, Pcs, Results
    <2> QED BY <1>7, <2>2, <2>3, FrameStep DEF Publish
<1>8. CASE KeepAlive
    <2>1. cur.job \in Jobs /\ cur.lease \in Nat
        BY <1>0, <1>8 DEF KeepAlive, FrameOK, InHand, Leases
    <2>2. QuietMailbox
        BY <1>0, <1>8, <2>1, QuietCalls DEF KeepAlive
    <2>3. FrameInv'
        BY <1>0, <1>8 DEF KeepAlive, workerVars, FrameInv, FrameOK, InHandJournaled,
           ValueInHand, EvaluationsRunOnce
    <2> QED BY <1>8, <2>2, <2>3, FrameStep DEF KeepAlive, workerVars
<1> QED BY <1>1, <1>2, <1>3, <1>4, <1>5, <1>6, <1>7, <1>8

------------------------------------------------------------------------------
\* begin_job commits the claim, or queues the terminal row again.
LEMMA BeginJobStep ==
    ASSUME DeliveryInv, BeginJob
    PROVE  [MailboxNext]_mailboxVars /\ DeliveryInv'
<1>0. /\ TypeOK /\ LeasesIssued /\ RowTypes /\ RowsOK /\ NetworkOK /\ EffectsInv
      /\ FrameOK /\ InHandJournaled /\ ValueInHand /\ EvaluationsRunOnce
    BY DEF DeliveryInv, FrameInv
<1>1. /\ cur \in Leases /\ cur.job \in Jobs /\ cur.lease \in Nat /\ pc = "begin"
      /\ pc' = "acknowledge" /\ UNCHANGED <<jresult, work, todo, cur, delayed,
         timeouts, crashes>>
      /\ todo = {}
    BY <1>0 DEF BeginJob, FrameOK, InHand, Leases, KeepNetwork, networkVars
<1>2. QuietMailbox
    BY <1>0, QuietCalls DEF BeginJob
<1>3. /\ \A j \in Jobs : journal'[j] = IF j = cur.job /\ journal[j] = "none" THEN "started"
                                        ELSE journal[j]
      /\ \A j \in Jobs : outbox'[j] = IF j = cur.job /\ journal[j] = "done" THEN "queued"
                                       ELSE outbox[j]
    BY <1>0, <1>1 DEF BeginJob, Completed, RowTypes
<1>4. RowTypes'
    BY <1>0, <1>1 DEF BeginJob, RowTypes
<1>5. RowsOK' /\ NetworkOK' /\ EffectsInv' /\ NothingForgotten
    BY <1>0, <1>1, <1>3 DEF RowsOK, NetworkOK, EffectsInv, RepeatedOnlyByCrash,
       UnsavedEffects, NothingForgotten, RowTypes, Calls
<1>6. BothSides'
    BY <1>2, <1>4, <1>5, QuietSides
<1>7. curResult' = IF journal[cur.job] = "started" /\ Kind[cur.job] = "evaluateSetups" THEN "value"
                   ELSE IF journal[cur.job] = "captured" THEN jresult[cur.job]
                   ELSE NoResult
    BY DEF BeginJob, Interrupted, ArtifactPending
<1>8. FrameOK'
    BY <1>0, <1>1, <1>7 DEF FrameOK, RowTypes, InHand, Concluded, Pcs, Results
<1>9. InHandJournaled' /\ ValueInHand'
    BY <1>0, <1>1, <1>3, <1>7 DEF InHandJournaled, ValueInHand, RowTypes, InHand, Concluded
<1>10. EvaluationsRunOnce'
    BY <1>0, <1>1, <1>3, <1>7 DEF EvaluationsRunOnce, RowTypes, InHand, Concluded, NoResult
<1>11. TypeOK' /\ LeasesIssued' /\ LeaseNamesOneJob'
    BY <1>2, MailboxPart DEF QuietMailbox
<1> QED
    BY <1>2, <1>4, <1>5, <1>6, <1>8, <1>9, <1>10, <1>11 DEF DeliveryInv, FrameInv, QuietMailbox

\* The acknowledgement comes after the claim was committed.
LEMMA AcknowledgeStep ==
    ASSUME DeliveryInv, Acknowledge
    PROVE  [MailboxNext]_mailboxVars /\ DeliveryInv'
<1>0. /\ TypeOK /\ LeasesIssued /\ RowTypes /\ RowsOK /\ NetworkOK /\ EffectsInv
      /\ FrameOK /\ InHandJournaled /\ ValueInHand /\ EvaluationsRunOnce /\ BothSides
    BY DEF DeliveryInv, FrameInv
<1>1. /\ cur \in Leases /\ cur.job \in Jobs /\ cur.lease \in Nat /\ pc = "acknowledge"
      /\ todo = {} /\ journal[cur.job] # "none"
      /\ UNCHANGED <<journal, jresult, outbox, outLease, due, work, delayed,
         timeouts, crashes>>
    BY <1>0 DEF Acknowledge, FrameOK, InHandJournaled, InHand, Leases, KeepNetwork,
       networkVars, KeepRunnerDb
<1>2. FrameInv'
    <2>1. CASE EndCycle
        BY <1>0, <1>1, <2>1, CycleEnds DEF EvaluationsRunOnce
    <2>2. CASE Interrupted(cur.job) /\ curResult # NoResult /\ GoTo("finish")
        BY <1>0, <1>1, <2>2 DEF Interrupted, GoTo, FrameInv, FrameOK, InHandJournaled,
           ValueInHand, EvaluationsRunOnce, InHand, Concluded, Pcs
    <2>3. CASE /\ ~Completed(cur.job) /\ ~(Interrupted(cur.job) /\ curResult # NoResult)
               /\ GoTo("control")
        <3>1. journal[cur.job] \in {"started", "captured"}
            BY <1>0, <1>1, <2>3 DEF Completed, RowTypes
        <3>2. FrameOK' /\ InHandJournaled' /\ ValueInHand'
            BY <1>0, <1>1, <2>3, <3>1 DEF GoTo, FrameOK, InHandJournaled, ValueInHand,
               InHand, Concluded, Pcs
        <3>3. EvaluationsRunOnce'
            BY <1>0, <1>1, <2>3, <3>1 DEF Interrupted, GoTo, RowsOK, EvaluationsRunOnce,
               InHand, Concluded
        <3> QED BY <3>2, <3>3 DEF FrameInv
    <2> QED BY <2>1, <2>2, <2>3 DEF Acknowledge
<1>3. [MailboxNext]_mailboxVars /\ BothSides'
    <2>1. CASE AcknowledgeJob(cur.job, cur.lease)
        <3>1. /\ [MailboxNext]_mailboxVars /\ result' = result
              /\ \A k \in Jobs \ {cur.job} : state'[k] = state[k]
              /\ state'[cur.job] = "acknowledged"
            BY <1>0, <1>1, <2>1, AcknowledgeCall
        <3>2. CommittedBeforeSent'
            BY <1>0, <1>1, <3>1 DEF BothSides, CommittedBeforeSent
        <3>3. DeliveredIsStored' /\ SuccessIsReal'
            BY <1>0, <1>1, <3>1 DEF BothSides, DeliveredIsStored, SuccessIsReal
        <3> QED BY <3>1, <3>2, <3>3 DEF BothSides
    <2>2. CASE KeepMailbox
        <3>1. QuietMailbox
            BY <1>0, <2>2, QuietCalls
        <3>2. RowTypes' /\ NothingForgotten
            BY <1>0, <1>1 DEF NothingForgotten, RowTypes
        <3> QED BY <3>1, <3>2, QuietSides DEF QuietMailbox
    <2> QED BY <2>1, <2>2 DEF Acknowledge
<1>4. TypeOK' /\ LeasesIssued' /\ LeaseNamesOneJob'
    BY <1>3, MailboxPart
<1>5. RowTypes' /\ RowsOK' /\ NetworkOK' /\ EffectsInv'
    BY <1>0, <1>1 DEF RowTypes, RowsOK, NetworkOK, EffectsInv, RepeatedOnlyByCrash,
       UnsavedEffects
<1> QED BY <1>2, <1>3, <1>4, <1>5 DEF DeliveryInv

\* The steps that commit and make no call: the work, and what records it.
LEMMA CommitSteps ==
    ASSUME DeliveryInv, RunSucceeds \/ Checkpoint \/ FinishJob
    PROVE  [MailboxNext]_mailboxVars /\ DeliveryInv'
<1> USE DEF KeepRunnerDb, KeepNetwork, networkVars, GoTo, EndCycle, Conclude
<1>0. /\ TypeOK /\ LeasesIssued /\ RowTypes /\ RowsOK /\ NetworkOK /\ EffectsInv
      /\ FrameOK /\ InHandJournaled /\ ValueInHand /\ EvaluationsRunOnce /\ BothSides
    BY DEF DeliveryInv, FrameInv
<1>1. /\ cur \in Leases /\ cur.job \in Jobs /\ cur.lease \in Nat /\ todo = {}
      /\ pc \in {"run", "checkpoint", "finish"}
      /\ journal[cur.job] \in {"started", "captured"}
    BY <1>0 DEF RunSucceeds, Checkpoint, FinishJob, FrameOK, InHandJournaled, InHand, Leases
<1>2. QuietMailbox
    BY <1>0, QuietCalls DEF RunSucceeds, Checkpoint, FinishJob
<1>3. TypeOK' /\ LeasesIssued' /\ LeaseNamesOneJob'
    BY <1>2, MailboxPart DEF QuietMailbox
<1>4. UNCHANGED <<delayed, timeouts, crashes>>
    BY DEF RunSucceeds, Checkpoint, FinishJob
<1>5. ASSUME RowTypes', RowsOK', NothingForgotten, FrameInv', EffectsInv',
             \A j \in Jobs : journal[j] \in {"done", "captured"} /\ j # cur.job =>
                            jresult'[j] = jresult[j]
      PROVE  [MailboxNext]_mailboxVars /\ DeliveryInv'
    <2>1. BothSides'
        BY <1>2, <1>5, QuietSides
    <2>2. NetworkOK'
        BY <1>0, <1>4, <1>5 DEF NetworkOK, NothingForgotten, Calls
    <2> QED BY <1>2, <1>3, <1>5, <2>1, <2>2 DEF DeliveryInv, QuietMailbox
<1>6. CASE RunSucceeds
    <2>1. /\ pc = "run" /\ pc' = NextAfterWork(cur.job) /\ curResult' = "value"
          /\ UNCHANGED <<journal, jresult, outbox, outLease, due, todo, cur>>
          /\ \A j \in Jobs : work'[j] = IF j = cur.job THEN work[j] + 1 ELSE work[j]
          /\ work' \in [Jobs -> Nat]
        BY <1>0, <1>1, <1>6 DEF RunSucceeds, RowTypes
    <2>2. RowTypes' /\ RowsOK' /\ NothingForgotten
        BY <1>0, <2>1 DEF RowTypes, RowsOK, NothingForgotten
    <2>3. Kind[cur.job] \in {"rollbackOperation", "evaluateSetups"} => work[cur.job] = 0
        BY <1>0, <1>1, <1>6, <2>1 DEF RunSucceeds, CanTakeEffect, EvaluationsRunOnce, RowTypes,
           InHand, Concluded
    <2>4. EffectsInv'
        <3>1. /\ Kind[cur.job] = "applyPlan" => work[cur.job] <= crashes /\ pc' = "finish"
              /\ crashes' = crashes /\ crashes \in Nat
            BY <1>0, <1>1, <1>4, <2>1 DEF EffectsInv, UnsavedEffects, InHandJournaled,
               NextAfterWork, Publishes, NetworkOK
        <3>2. RepeatedOnlyByCrash'
            BY <1>0, <2>1, <2>3, <3>1 DEF EffectsInv, RepeatedOnlyByCrash, RowTypes
        <3>3. UnsavedEffects'
            BY <1>0, <2>1, <3>1 DEF EffectsInv, UnsavedEffects, RowTypes
        <3> QED BY <3>2, <3>3 DEF EffectsInv
    <2>5. /\ pc' \in {"checkpoint", "publish", "finish"}
          /\ Kind[cur.job] = "evaluateSetups" => pc' = "finish"
          /\ pc' = "checkpoint" => Kind[cur.job] = "snapshotSkill"
        BY <2>1 DEF NextAfterWork, Publishes
    <2>6. FrameOK' /\ InHandJournaled' /\ ValueInHand'
        BY <1>0, <1>1, <2>1, <2>5 DEF FrameOK, InHandJournaled, ValueInHand, InHand,
           Concluded, Pcs, Results, RowTypes
    <2>7. EvaluationsRunOnce'
        BY <1>0, <1>1, <2>1, <2>5 DEF EvaluationsRunOnce, InHand, Concluded, RowTypes
    <2> QED BY <1>5, <2>1, <2>2, <2>4, <2>6, <2>7 DEF FrameInv
<1>7. CASE Checkpoint
    <2>1. /\ pc = "checkpoint" /\ pc' = "publish" /\ curResult \in Results
          /\ UNCHANGED <<outbox, outLease, due, work, todo, cur, curResult>>
          /\ journal' = [journal EXCEPT ![cur.job] = "captured"]
          /\ jresult' = [jresult EXCEPT ![cur.job] = curResult]
          /\ journal[cur.job] = "started"
        BY <1>0, <1>7 DEF Checkpoint, FrameOK, InHandJournaled, Concluded
    <2>2. RowTypes'
        BY <1>0, <2>1 DEF RowTypes
    <2>3. RowsOK' /\ NothingForgotten
        BY <1>0, <1>1, <2>1 DEF RowTypes, RowsOK, NothingForgotten, ValueInHand, Concluded,
           InHandJournaled
    <2>4. FrameOK' /\ InHandJournaled' /\ ValueInHand'
        BY <1>0, <1>1, <2>1 DEF FrameOK, InHandJournaled, ValueInHand, InHand, Concluded,
           Pcs, RowTypes
    <2>5. EvaluationsRunOnce' /\ EffectsInv'
        <3>1. \A j \in Jobs : journal'[j] = IF j = cur.job THEN "captured" ELSE journal[j]
            BY <1>0, <1>1, <2>1 DEF RowTypes
        <3>2. EvaluationsRunOnce'
            BY <1>0, <1>1, <2>1, <3>1 DEF EvaluationsRunOnce, InHand, Concluded
        <3>3. EffectsInv'
            BY <1>0, <1>1, <1>4, <2>1, <3>1 DEF EffectsInv, RepeatedOnlyByCrash,
               UnsavedEffects
        <3> QED BY <3>2, <3>3
    <2> QED BY <1>0, <1>5, <2>1, <2>2, <2>3, <2>4, <2>5 DEF FrameInv, RowTypes
<1>8. CASE FinishJob
    <2>1. /\ pc = "finish" /\ curResult \in Results /\ UNCHANGED work
          /\ journal' = [journal EXCEPT ![cur.job] = "done"]
          /\ jresult' = [jresult EXCEPT ![cur.job] = curResult]
          /\ outbox' = [outbox EXCEPT ![cur.job] = "queued"]
          /\ outLease' = [outLease EXCEPT ![cur.job] = cur.lease]
          /\ due' = [due EXCEPT ![cur.job] = TRUE]
          /\ EndCycle
        BY <1>0, <1>8 DEF FinishJob, FinishedJournal, FrameOK, Concluded
    <2>2. RowTypes'
        BY <1>0, <1>1, <2>1 DEF RowTypes
    <2>3. RowsOK' /\ NothingForgotten
        BY <1>0, <1>1, <2>1 DEF RowTypes, RowsOK, NothingForgotten, ValueInHand, Concluded
    <2>4. FrameInv' /\ EffectsInv'
        <3>1. \A j \in Jobs : journal'[j] = IF j = cur.job THEN "done" ELSE journal[j]
            BY <1>0, <1>1, <2>1 DEF RowTypes
        <3>2. FrameInv'
            BY <1>0, <2>1, <3>1, CycleEnds DEF EvaluationsRunOnce
        <3>3. EffectsInv'
            BY <1>0, <1>1, <1>4, <2>1, <3>1 DEF EffectsInv, RepeatedOnlyByCrash,
               UnsavedEffects
        <3> QED BY <3>2, <3>3
    <2> QED BY <1>0, <1>5, <2>1, <2>2, <2>3, <2>4 DEF RowTypes
<1> QED BY <1>6, <1>7, <1>8

------------------------------------------------------------------------------
\* A result reaches the mailbox: whoever delivers it, it is the journal's.
LEMMA ResultArrives ==
    ASSUME DeliveryInv, NEW j \in Jobs, NEW l \in Nat, CompleteJob(j, l, jresult[j]),
           journal[j] = "done", UNCHANGED <<journal, jresult, work>>,
           outbox' \in [Jobs -> {"none", "queued", "delivered"}],
           \A k \in Jobs : outbox'[k] = "delivered" => outbox[k] = "delivered" \/ k = j
    PROVE  [MailboxNext]_mailboxVars /\ BothSides'
<1>0. TypeOK /\ LeasesIssued /\ RowTypes /\ RowsOK /\ BothSides
    BY DEF DeliveryInv
<1>1. jresult[j] \in Results
    BY <1>0 DEF RowsOK
<1>2. /\ [MailboxNext]_mailboxVars
      /\ result' = [result EXCEPT ![j] = jresult[j]]
      /\ \A k \in Jobs \ {j} : state'[k] = state[k]
      /\ state'[j] = TerminalState(jresult[j])
    BY <1>0, <1>1, CompleteCall
<1>3. \A k \in Jobs : result'[k] = IF k = j THEN jresult[j] ELSE result[k]
    BY <1>0, <1>2 DEF TypeOK
<1>4. state'[j] # "acknowledged"
    BY <1>1, <1>2, TerminalStateRange
<1>5. CommittedBeforeSent' /\ DeliveredIsStored'
    BY <1>0, <1>1, <1>2, <1>3, <1>4 DEF BothSides, CommittedBeforeSent, DeliveredIsStored,
       Results, NoResult
<1>6. state'[j] = "succeeded" => jresult[j] = "value"
    BY <1>1, <1>2, TerminalStateRange DEF CompleteJob, CanComplete, ResultMatchesJob
<1>7. SuccessIsReal'
    BY <1>0, <1>2, <1>6 DEF BothSides, SuccessIsReal, RowsOK
<1> QED BY <1>2, <1>5, <1>7 DEF BothSides

\* flush_outbox sends what the journal holds, and marks what was stored.
LEMMA SubmitStep ==
    ASSUME DeliveryInv, NEW j \in Jobs, SubmitResult(j)
    PROVE  [MailboxNext]_mailboxVars /\ DeliveryInv'
<1>0. /\ TypeOK /\ LeasesIssued /\ RowTypes /\ RowsOK /\ NetworkOK /\ EffectsInv
      /\ FrameOK /\ EvaluationsRunOnce /\ BothSides
    BY DEF DeliveryInv, FrameInv
<1>1. /\ pc = "submit" /\ j \in todo /\ outbox[j] = "queued" /\ journal[j] = "done"
      /\ jresult[j] \in Results
      /\ UNCHANGED <<journal, jresult, outLease, work, cur, curResult, delayed,
         timeouts, crashes>>
      /\ todo' = todo \ {j} /\ pc' \in {"claim", "submit"} /\ (pc' = "claim" => todo' = {})
      /\ outbox' = IF Accepted(j) THEN [outbox EXCEPT ![j] = "delivered"] ELSE outbox
      /\ due' \in [Jobs -> BOOLEAN]
    BY <1>0 DEF SubmitResult, AfterSubmit, Defer, KeepNetwork, networkVars, FrameOK,
       RowsOK, RowTypes
<1>2. RowTypes' /\ RowsOK' /\ NetworkOK' /\ EffectsInv'
    BY <1>0, <1>1 DEF RowTypes, RowsOK, NetworkOK, EffectsInv, RepeatedOnlyByCrash,
       UnsavedEffects
<1>3. FrameInv'
    BY <1>0, <1>1 DEF FrameInv, FrameOK, InHandJournaled, ValueInHand, EvaluationsRunOnce,
       InHand, Concluded, Pcs, RowTypes
<1>4. [MailboxNext]_mailboxVars /\ BothSides'
    <2>1. CASE CompleteJob(j, outLease[j], jresult[j])
        BY <1>0, <1>1, <1>2, <2>1, ResultArrives DEF RowTypes
    <2>2. CASE ~CanComplete(j, outLease[j], jresult[j]) /\ KeepMailbox
        <3>1. [MailboxNext]_mailboxVars /\ UNCHANGED <<state, result>>
            BY <2>2 DEF KeepMailbox, mailboxVars
        <3>2. outbox'[j] = "delivered" => result[j] = jresult[j]
            BY <1>0, <1>1, <2>2 DEF Accepted, RowTypes
        <3>3. \A k \in Jobs \ {j} : outbox'[k] = outbox[k]
            BY <1>0, <1>1 DEF RowTypes
        <3> QED
            BY <1>0, <1>1, <3>1, <3>2, <3>3 DEF BothSides, CommittedBeforeSent,
               DeliveredIsStored, SuccessIsReal, Results, NoResult
    <2> QED BY <2>1, <2>2 DEF SubmitResult
<1>5. TypeOK' /\ LeasesIssued' /\ LeaseNamesOneJob'
    BY <1>4, MailboxPart
<1> QED BY <1>2, <1>3, <1>4, <1>5 DEF DeliveryInv

\* What users, the clock and the backoff do is none of the worker's business.
LEMMA EnvironmentSteps ==
    ASSUME DeliveryInv, Users \/ Backoff \/ UNCHANGED deliveryVars
    PROVE  [MailboxNext]_mailboxVars /\ DeliveryInv'
<1>0. /\ TypeOK /\ LeasesIssued /\ RowTypes /\ RowsOK /\ NetworkOK /\ EffectsInv /\ FrameInv
    BY DEF DeliveryInv
<1>1. /\ UNCHANGED <<journal, jresult, outbox, outLease, work, pc, todo, cur, curResult,
                     delayed, timeouts, crashes>>
      /\ due' \in [Jobs -> BOOLEAN]
    BY <1>0 DEF Users, Backoff, BackoffEnds, workerVars, networkVars, deliveryVars,
           KeepNetwork, RowTypes
<1>2. QuietMailbox
    BY <1>0, QuietCalls DEF Users, Backoff, BackoffEnds, KeepMailbox, deliveryVars
<1>3. RowTypes' /\ RowsOK' /\ NetworkOK' /\ EffectsInv' /\ NothingForgotten
    BY <1>0, <1>1 DEF RowTypes, RowsOK, NetworkOK, EffectsInv, RepeatedOnlyByCrash,
       UnsavedEffects, NothingForgotten
<1>4. FrameInv'
    BY <1>0, <1>1 DEF FrameInv, FrameOK, InHandJournaled, ValueInHand, EvaluationsRunOnce
<1>5. BothSides'
    BY <1>2, <1>3, QuietSides
<1>6. TypeOK' /\ LeasesIssued' /\ LeaseNamesOneJob'
    BY <1>2, MailboxPart DEF QuietMailbox
<1> QED BY <1>2, <1>3, <1>4, <1>5, <1>6 DEF DeliveryInv, QuietMailbox

\* A crash takes the frame, and nothing else.
LEMMA CrashStep ==
    ASSUME DeliveryInv, Crash
    PROVE  [MailboxNext]_mailboxVars /\ DeliveryInv'
<1>0. /\ TypeOK /\ LeasesIssued /\ RowTypes /\ RowsOK /\ NetworkOK /\ EffectsInv
      /\ FrameOK /\ InHandJournaled /\ EvaluationsRunOnce
    BY DEF DeliveryInv, FrameInv
<1>1. QuietMailbox
    BY <1>0, QuietCalls DEF Crash
<1>2. /\ UNCHANGED <<journal, jresult, outbox, outLease, due, delayed>>
      /\ timeouts' = timeouts /\ crashes' = crashes + 1 /\ EndCycle
    BY DEF Crash, KeepRunnerDb
<1>3. /\ work' \in [Jobs -> Nat]
      /\ \A j \in Jobs : work'[j] >= work[j]
      /\ \A j \in Jobs : work'[j] # work[j] =>
             /\ work'[j] = work[j] + 1 /\ pc = "run" /\ j = cur.job
             /\ Kind[j] = "evaluateSetups"
    <2>1. CASE work' = work
        BY <1>0, <2>1 DEF RowTypes
    <2>2. CASE /\ pc = "run" /\ Kind[cur.job] = "evaluateSetups"
               /\ work' = [work EXCEPT ![cur.job] = @ + 1]
        <3>1. cur.job \in Jobs
            BY <1>0, <2>2 DEF FrameOK, InHand, Leases
        <3>2. \A j \in Jobs : work'[j] = IF j = cur.job THEN work[j] + 1 ELSE work[j]
            BY <1>0, <2>2, <3>1 DEF RowTypes
        <3> QED BY <1>0, <2>2, <3>1, <3>2 DEF RowTypes
    <2> QED BY <2>1, <2>2 DEF Crash
<1>4. RowTypes' /\ RowsOK' /\ NetworkOK' /\ NothingForgotten
    BY <1>0, <1>2, <1>3 DEF RowTypes, RowsOK, NetworkOK, NothingForgotten
<1>5. \A j \in Jobs : work'[j] # work[j] => work[j] = 0 /\ journal[j] # "none"
    BY <1>0, <1>3 DEF EvaluationsRunOnce, InHandJournaled, InHand, Concluded, RowTypes
<1>6. EffectsInv'
    <2>1. /\ crashes \in Nat /\ crashes' = crashes + 1 /\ journal' = journal
          /\ \A j \in Jobs : work[j] \in Nat
          /\ \A j \in Jobs : Kind[j] = "applyPlan" => work'[j] = work[j]
        BY <1>0, <1>2, <1>3 DEF NetworkOK, RowTypes
    <2>2. RepeatedOnlyByCrash'
        BY <1>0, <1>3, <1>5, <2>1 DEF EffectsInv, RepeatedOnlyByCrash
    <2>3. UnsavedEffects'
        BY <1>0, <2>1 DEF EffectsInv, RepeatedOnlyByCrash, UnsavedEffects
    <2> QED BY <2>2, <2>3 DEF EffectsInv
<1>7. FrameInv'
    BY <1>0, <1>2, <1>5, CycleEnds DEF EvaluationsRunOnce, RowTypes
<1>8. BothSides'
    BY <1>1, <1>4, QuietSides
<1>9. TypeOK' /\ LeasesIssued' /\ LeaseNamesOneJob'
    BY <1>1, MailboxPart DEF QuietMailbox
<1> QED BY <1>1, <1>4, <1>6, <1>7, <1>8, <1>9 DEF DeliveryInv, QuietMailbox

\* A call that is given up leaves the worker where it can try again, and the
\* request somewhere in the network.
LEMMA CallFailsStep ==
    ASSUME DeliveryInv, CallFails
    PROVE  [MailboxNext]_mailboxVars /\ DeliveryInv'
<1>0. /\ TypeOK /\ LeasesIssued /\ RowTypes /\ RowsOK /\ NetworkOK /\ EffectsInv
      /\ FrameOK /\ InHandJournaled /\ ValueInHand /\ EvaluationsRunOnce
    BY DEF DeliveryInv, FrameInv
<1>1. QuietMailbox
    BY <1>0, QuietCalls DEF CallFails
<1>2. /\ UNCHANGED <<journal, jresult, outbox, outLease, work>>
      /\ due' \in [Jobs -> BOOLEAN]
      /\ timeouts' \in Nat /\ crashes' = crashes
    <2>1. timeouts' \in Nat /\ crashes' = crashes
        BY <1>0 DEF CallFails, NetworkOK
    <2>2. ASSUME NEW j \in todo, Defer(j), AfterSubmit(j)
          PROVE  /\ UNCHANGED <<journal, jresult, outbox, outLease, work>>
                 /\ due' \in [Jobs -> BOOLEAN]
        BY <1>0, <2>2 DEF AfterSubmit, Defer, RowTypes
    <2>3. ASSUME KeepRunnerDb, work' = work
          PROVE  /\ UNCHANGED <<journal, jresult, outbox, outLease, work>>
                 /\ due' \in [Jobs -> BOOLEAN]
        BY <1>0, <2>3 DEF KeepRunnerDb, RowTypes
    <2> QED BY <2>1, <2>2, <2>3 DEF CallFails
<1>3. FrameInv'
    <2>1. ASSUME NEW j \in todo, pc = "submit", AfterSubmit(j) PROVE FrameInv'
        BY <1>0, <1>2, <2>1 DEF AfterSubmit, FrameInv, FrameOK, InHandJournaled, ValueInHand,
           EvaluationsRunOnce, InHand, Concluded, Pcs
    <2>2. ASSUME EndCycle PROVE FrameInv'
        BY <1>0, <1>2, <2>2, CycleEnds DEF EvaluationsRunOnce
    <2>3. ASSUME pc = "execute", Conclude("error", "finish") PROVE FrameInv'
        BY <1>0, <1>2, <2>3 DEF Conclude, FrameInv, FrameOK, InHandJournaled, ValueInHand,
           EvaluationsRunOnce, InHand, Concluded, Pcs, Results
    <2> QED BY <2>1, <2>2, <2>3 DEF CallFails
<1>4. NetworkOK'
    <2>1. ASSUME NEW j \in todo, pc = "submit", delayed' = delayed \cup {Request(j)}
          PROVE  NetworkOK'
        <3>1. /\ j \in Jobs /\ journal[j] = "done" /\ jresult[j] \in Results
              /\ outLease[j] \in Nat
            BY <1>0, <2>1 DEF FrameOK, RowsOK, RowTypes
        <3>2. Request(j) = [op |-> "submit", job |-> j, lease |-> outLease[j],
                            result |-> jresult[j]]
            BY <2>1 DEF Request
        <3> QED BY <1>0, <1>2, <2>1, <3>1, <3>2 DEF NetworkOK, Calls
    <2>2. ASSUME pc = "claim", delayed' = delayed \cup {Request(Idle)} PROVE NetworkOK'
        <3>1. Request(Idle) = [op |-> "claim"]
            BY <2>2 DEF Request
        <3> QED BY <1>0, <1>2, <2>2, <3>1 DEF NetworkOK, Calls
    <2>3. ASSUME pc = "acknowledge", delayed' = delayed \cup {Request(Idle)} PROVE NetworkOK'
        <3>1. cur.job \in Jobs /\ cur.lease \in Nat /\ journal[cur.job] # "none"
            BY <1>0, <2>3 DEF FrameOK, InHandJournaled, InHand, Leases
        <3>2. Request(Idle) = [op |-> "acknowledge", job |-> cur.job, lease |-> cur.lease]
            BY <2>3 DEF Request
        <3> QED BY <1>0, <1>2, <2>3, <3>1, <3>2 DEF NetworkOK, Calls
    <2>4. ASSUME pc \in {"control", "execute"}, delayed' = delayed \cup {Request(Idle)}
          PROVE  NetworkOK'
        <3>1. cur.job \in Jobs /\ cur.lease \in Nat
            BY <1>0, <2>4 DEF FrameOK, InHand, Leases
        <3>2. Request(Idle) = [op |-> "control", job |-> cur.job, lease |-> cur.lease]
            BY <2>4 DEF Request
        <3> QED BY <1>0, <1>2, <2>4, <3>1, <3>2 DEF NetworkOK, Calls
    <2>5. ASSUME delayed' = delayed PROVE NetworkOK'
        BY <1>0, <1>2, <2>5 DEF NetworkOK
    <2> QED BY <2>1, <2>2, <2>3, <2>4, <2>5 DEF CallFails
<1>5. RowTypes' /\ RowsOK' /\ EffectsInv' /\ NothingForgotten
    <2>1. pc # "finish"
        BY DEF CallFails
    <2>2. EffectsInv'
        BY <1>0, <1>2, <2>1 DEF EffectsInv, RepeatedOnlyByCrash, UnsavedEffects
    <2> QED BY <1>0, <1>2, <2>2 DEF RowTypes, RowsOK, NothingForgotten
<1>6. BothSides'
    BY <1>1, <1>5, QuietSides
<1>7. TypeOK' /\ LeasesIssued' /\ LeaseNamesOneJob'
    BY <1>1, MailboxPart DEF QuietMailbox
<1> QED BY <1>1, <1>3, <1>4, <1>5, <1>6, <1>7 DEF DeliveryInv, QuietMailbox

\* A call that arrives after all does what it would have done in time.
LEMMA LateArrivalStep ==
    ASSUME DeliveryInv, LateArrival
    PROVE  [MailboxNext]_mailboxVars /\ DeliveryInv'
<1>0. /\ TypeOK /\ LeasesIssued /\ RowTypes /\ RowsOK /\ NetworkOK /\ EffectsInv
      /\ FrameInv /\ BothSides
    BY DEF DeliveryInv
<1>1. /\ UNCHANGED <<journal, jresult, outbox, outLease, due, work, pc, todo, cur, curResult>>
      /\ timeouts' = timeouts /\ crashes' = crashes /\ delayed' \subseteq delayed
    BY DEF LateArrival, workerVars
<1>2. RowTypes' /\ RowsOK' /\ NetworkOK' /\ EffectsInv' /\ NothingForgotten
    BY <1>0, <1>1 DEF RowTypes, RowsOK, NetworkOK, EffectsInv, RepeatedOnlyByCrash,
       UnsavedEffects, NothingForgotten
<1>3. FrameInv'
    BY <1>0, <1>1 DEF FrameInv, FrameOK, InHandJournaled, ValueInHand, EvaluationsRunOnce
<1>4. ASSUME QuietMailbox PROVE [MailboxNext]_mailboxVars /\ BothSides'
    BY <1>2, <1>4, QuietSides DEF QuietMailbox
<1>5. ASSUME NEW c \in delayed, c.op = "acknowledge", AcknowledgeJob(c.job, c.lease)
      PROVE  [MailboxNext]_mailboxVars /\ BothSides'
    <2>1. c.job \in Jobs /\ c.lease \in Nat /\ journal[c.job] # "none"
        BY <1>0, <1>5 DEF NetworkOK, Calls
    <2>2. /\ [MailboxNext]_mailboxVars /\ result' = result
          /\ \A k \in Jobs \ {c.job} : state'[k] = state[k]
          /\ state'[c.job] = "acknowledged"
        BY <1>0, <1>5, <2>1, AcknowledgeCall
    <2>3. CommittedBeforeSent' /\ DeliveredIsStored' /\ SuccessIsReal'
        BY <1>0, <1>1, <2>1, <2>2
        DEF BothSides, CommittedBeforeSent, DeliveredIsStored, SuccessIsReal
    <2> QED BY <2>2, <2>3 DEF BothSides
<1>6. ASSUME NEW c \in delayed, c.op = "submit", CompleteJob(c.job, c.lease, c.result)
      PROVE  [MailboxNext]_mailboxVars /\ BothSides'
    <2>1. /\ c.job \in Jobs /\ c.lease \in Nat /\ journal[c.job] = "done"
          /\ jresult[c.job] = c.result
        BY <1>0, <1>6 DEF NetworkOK, Calls
    <2> QED BY <1>0, <1>1, <1>6, <2>1, ResultArrives DEF RowTypes
<1>7. ASSUME NEW c \in delayed, c.op = "control", JobControl(c.job, c.lease)
      PROVE  QuietMailbox
    <2>1. c.job \in Jobs /\ c.lease \in Nat
        BY <1>0, <1>7 DEF NetworkOK, Calls
    <2> QED BY <1>0, <1>7, <2>1, QuietCalls
<1>8. PICK c \in delayed :
          \/ ClaimNone \/ (\E j \in Jobs : ClaimHeld(j) \/ ClaimNew(j)) \/ KeepMailbox
          \/ c.op = "acknowledge" /\ AcknowledgeJob(c.job, c.lease)
          \/ c.op = "control" /\ JobControl(c.job, c.lease)
          \/ c.op = "submit" /\ CompleteJob(c.job, c.lease, c.result)
    <2>1. PICK c \in delayed :
              CASE c.op = "claim" ->
                        ClaimNone \/ \E j \in Jobs : ClaimHeld(j) \/ ClaimNew(j)
                 [] c.op = "acknowledge" ->
                        \/ AcknowledgeJob(c.job, c.lease)
                        \/ ~CanAcknowledge(c.job, c.lease) /\ KeepMailbox
                 [] c.op = "control" ->
                        \/ JobControl(c.job, c.lease)
                        \/ ~HoldsLease(c.job, c.lease) /\ KeepMailbox
                 [] c.op = "submit" ->
                        \/ CompleteJob(c.job, c.lease, c.result)
                        \/ ~CanComplete(c.job, c.lease, c.result) /\ KeepMailbox
        BY DEF LateArrival
    <2>2. c.op \in {"claim", "acknowledge", "control", "submit"}
        BY <1>0 DEF NetworkOK, Calls
    <2> QED BY <2>1, <2>2
<1>9. [MailboxNext]_mailboxVars /\ BothSides'
    BY <1>0, <1>4, <1>5, <1>6, <1>7, <1>8, QuietCalls
<1>10. TypeOK' /\ LeasesIssued' /\ LeaseNamesOneJob'
    BY <1>9, MailboxPart
<1> QED BY <1>2, <1>3, <1>9, <1>10 DEF DeliveryInv

------------------------------------------------------------------------------
\* The invariant holds at first, and every step keeps it.
LEMMA DeliveryStart == DeliveryInit => DeliveryInv
<1> SUFFICES ASSUME DeliveryInit PROVE DeliveryInv
    OBVIOUS
<1>1. TypeOK /\ LeasesIssued /\ LeaseNamesOneJob
    BY DEF DeliveryInit, MailboxInit, TypeOK, LeasesIssued, LeaseNamesOneJob
<1>2. RowTypes /\ RowsOK /\ NetworkOK
    BY DEF DeliveryInit, RowTypes, RowsOK, NetworkOK, NoResult
<1>3. FrameInv
    BY DEF DeliveryInit, FrameInv, FrameOK, InHandJournaled, ValueInHand, EvaluationsRunOnce,
       InHand, Concluded, Pcs
<1>4. BothSides /\ EffectsInv
    BY DEF DeliveryInit, MailboxInit, BothSides, CommittedBeforeSent, DeliveredIsStored,
       SuccessIsReal, EffectsInv, RepeatedOnlyByCrash, UnsavedEffects
<1> QED BY <1>1, <1>2, <1>3, <1>4 DEF DeliveryInv

LEMMA DeliveryStep ==
    DeliveryInv /\ [DeliveryNext]_deliveryVars => [MailboxNext]_mailboxVars /\ DeliveryInv'
BY FrameSteps, BeginJobStep, AcknowledgeStep, CommitSteps, SubmitStep, EnvironmentSteps,
   CrashStep, CallFailsStep, LateArrivalStep
DEF DeliveryNext, Worker

\* The inductive invariant is one.
THEOREM DeliveryInvariant == DeliverySpec => []DeliveryInv
BY DeliveryStart, DeliveryStep, PTL DEF DeliverySpec

\* The worker's state keeps its types.
THEOREM DeliveryTypeCorrect == DeliverySpec => []DeliveryTypeOK
<1>1. DeliveryInv => DeliveryTypeOK
    BY DEF DeliveryInv, FrameInv, FrameOK, RowTypes, NetworkOK, DeliveryTypeOK
<1> QED BY <1>1, DeliveryInvariant, PTL

\* The claim is committed before it is acknowledged, and the result before it
\* is sent.
THEOREM CommitsBeforeSending == DeliverySpec => []CommittedBeforeSent
<1>1. DeliveryInv => CommittedBeforeSent
    BY DEF DeliveryInv, BothSides
<1> QED BY <1>1, DeliveryInvariant, PTL

\* The outbox drops nothing the control plane has not stored.
THEOREM DeliversWhatIsStored == DeliverySpec => []DeliveredIsStored
<1>1. DeliveryInv => DeliveredIsStored
    BY DEF DeliveryInv, BothSides
<1> QED BY <1>1, DeliveryInvariant, PTL

\* Evaluations and rollbacks take effect once, and every further commit of an
\* apply takes a crash of its own.
THEOREM CrashesAloneRepeat == DeliverySpec => []RepeatedOnlyByCrash
<1>1. DeliveryInv => RepeatedOnlyByCrash
    BY DEF DeliveryInv, EffectsInv
<1> QED BY <1>1, DeliveryInvariant, PTL

\* A reported success is of work that was done.
THEOREM SuccessesAreReal == DeliverySpec => []SuccessIsReal
<1>1. DeliveryInv => SuccessIsReal
    BY DEF DeliveryInv, BothSides
<1> QED BY <1>1, DeliveryInvariant, PTL

\* Whatever the worker and the network do, the mailbox sees one of its own
\* operations, or nothing: the detailed model implements the mailbox.
THEOREM DeliveryImplementsMailbox == DeliverySpec => ImplementsMailbox
<1>1. DeliveryInit => MailboxInit
    BY DEF DeliveryInit
<1> QED BY <1>1, DeliveryStep, DeliveryInvariant, PTL
       DEF DeliverySpec, MailboxSpec, ImplementsMailbox

\* A job whose result is durable does not run again, and keeps that result.
THEOREM ResultsEndExecution == DeliverySpec => ResultEndsExecution
<1> DEFINE Kept ==
        \A j \in Jobs :
            /\ journal[j] \in {"captured", "done"} => work'[j] = work[j]
            /\ journal[j] = "done" => journal'[j] = "done" /\ jresult'[j] = jresult[j]
<1>1. DeliveryInv /\ [DeliveryNext]_deliveryVars => Kept
    <2> SUFFICES ASSUME DeliveryInv, [DeliveryNext]_deliveryVars PROVE Kept
        OBVIOUS
    <2>0. RowTypes /\ FrameOK /\ InHandJournaled
        BY DEF DeliveryInv, FrameInv
    <2>1. CASE RunSucceeds \/ Crash
        <3>1. pc = "run" => cur.job \in Jobs /\ journal[cur.job] = "started"
            BY <2>0 DEF FrameOK, InHandJournaled, InHand, Leases
        <3>2. \A j \in Jobs : work'[j] # work[j] => pc = "run" /\ j = cur.job
            BY <2>0, <2>1, <3>1 DEF RunSucceeds, Crash, RowTypes
        <3> QED BY <2>1, <3>1, <3>2 DEF RunSucceeds, Crash, KeepRunnerDb
    <2>2. CASE BeginJob
        BY <2>0, <2>2 DEF BeginJob, RowTypes
    <2>3. CASE Checkpoint \/ FinishJob
        <3>1. journal[cur.job] \in {"started", "captured"}
            BY <2>0, <2>3 DEF Checkpoint, FinishJob, InHandJournaled
        <3> QED BY <2>0, <2>3, <3>1 DEF Checkpoint, FinishJob, FinishedJournal, RowTypes
    <2>4. CASE UNCHANGED <<journal, jresult, work>>
        BY <2>4
    <2>5. \/ RunSucceeds \/ Crash \/ BeginJob \/ Checkpoint \/ FinishJob
          \/ UNCHANGED <<journal, jresult, work>>
        BY DEF DeliveryNext, Worker, Users, Backoff, StartFlush, SubmitResult, Claim,
           Acknowledge, ReadControl, Prepare, StartExecution, RunFails, RunCancelled, Publish,
           KeepAlive, BackoffEnds, CallFails, LateArrival, AfterSubmit, Defer, KeepRunnerDb,
           workerVars, networkVars, deliveryVars
    <2> QED BY <2>1, <2>2, <2>3, <2>4, <2>5
<1> QED BY <1>1, DeliveryInvariant, PTL DEF DeliverySpec, ResultEndsExecution

------------------------------------------------------------------------------
(* RunnerConnection: the codes that make a computer a device.                *)

\* A code that registered a device is claimed, and claimed for good.
CodesAreSpent ==
    /\ code \in [Enrollments -> {"none", "waiting", "claimed", "expired"}]
    /\ usedCode \in [Devices -> Enrollments \cup {NoEnrollment}]
    /\ \A d \in Devices : usedCode[d] # NoEnrollment => code[usedCode[d]] = "claimed"
    /\ CodeUsedOnce

\* Codes change without a device: none that is claimed changes.
LEMMA ClaimedStaysClaimed ==
    ASSUME CodesAreSpent, usedCode' = usedCode,
           code' \in [Enrollments -> {"none", "waiting", "claimed", "expired"}],
           \A e \in Enrollments : code[e] = "claimed" => code'[e] = "claimed"
    PROVE  CodesAreSpent'
<1>1. CodeUsedOnce'
    BY DEF CodesAreSpent, CodeUsedOnce
<1>2. ASSUME NEW d \in Devices, usedCode[d] # NoEnrollment PROVE code'[usedCode[d]] = "claimed"
    BY <1>2 DEF CodesAreSpent
<1> QED BY <1>1, <1>2 DEF CodesAreSpent

LEMMA EnrollSpendsCode ==
    ASSUME CodesAreSpent, NEW e \in Enrollments, NEW d \in Devices, Enroll(e, d)
    PROVE  CodesAreSpent'
<1>1. code[e] = "waiting"
    BY DEF Enroll, CodeWaits
<1>2. CASE e \in overdue
    BY <1>1, <1>2, ClaimedStaysClaimed DEF Enroll, CodesAreSpent
<1>3. CASE e \notin overdue
    <2>1. code' = [code EXCEPT ![e] = "claimed"] /\ usedCode' = [usedCode EXCEPT ![d] = e]
        BY <1>3 DEF Enroll
    <2>2. \A d2 \in Devices : usedCode[d2] = e => e = NoEnrollment
        BY <1>1 DEF CodesAreSpent
    <2>3. /\ usedCode'[d] = e /\ code'[e] = "claimed"
          /\ \A d2 \in Devices : d2 # d => usedCode'[d2] = usedCode[d2]
          /\ \A e2 \in Enrollments : code[e2] = "claimed" => code'[e2] = "claimed"
        BY <2>1 DEF CodesAreSpent
    <2>4. CodeUsedOnce'
        BY <2>2, <2>3 DEF CodesAreSpent, CodeUsedOnce
    <2>5. \A d2 \in Devices : usedCode'[d2] # NoEnrollment => code'[usedCode'[d2]] = "claimed"
        BY <2>3 DEF CodesAreSpent
    <2> QED BY <2>1, <2>4, <2>5 DEF CodesAreSpent
<1> QED BY <1>2, <1>3

LEMMA CodeStep == CodesAreSpent /\ [Next]_vars => CodesAreSpent'
<1> SUFFICES ASSUME CodesAreSpent, [Next]_vars PROVE CodesAreSpent'
    OBVIOUS
<1>1. ASSUME UNCHANGED <<code, usedCode>> PROVE CodesAreSpent'
    BY <1>1, ClaimedStaysClaimed DEF CodesAreSpent
<1>2. ASSUME NEW e \in Enrollments, NEW d \in Devices, Enroll(e, d) PROVE CodesAreSpent'
    BY <1>2, EnrollSpendsCode
<1>3. ASSUME NEW e \in Enrollments, NEW g \in 1..MaxGeneration, Created(g, e)
      PROVE  CodesAreSpent'
    BY <1>3, ClaimedStaysClaimed DEF Created, CodesAreSpent
<1>4. ASSUME NEW s \in Slots, PollRead(s) PROVE CodesAreSpent'
    BY <1>4, ClaimedStaysClaimed DEF PollRead, CodesAreSpent
<1>5. ASSUME NEW e \in Enrollments, BecomesDue(e) PROVE CodesAreSpent'
    BY <1>1, <1>5 DEF BecomesDue
<1>6. ASSUME NEW d \in Devices, RevokeDevice(d) \/ SelectRunner(d)
      PROVE  CodesAreSpent'
    BY <1>1, <1>6 DEF RevokeDevice, SelectRunner, Begin,
                      serverVars
<1>7. CASE CreateEnrollment \/ Reload \/ GoesOffline
    BY <1>1, <1>7 DEF CreateEnrollment, Begin, Reload,
                      GoesOffline, serverVars
<1>8. ASSUME NEW g \in 1..MaxGeneration, Selected(g) \/ ClickFails(g)
      PROVE  CodesAreSpent'
    BY <1>1, <1>8 DEF Selected, ClickFails, serverVars
<1>9. ASSUME NEW s \in Slots,
             PollStarts(s) \/ PollLands(s) \/ PollFails(s)
      PROVE  CodesAreSpent'
    BY <1>1, <1>9 DEF PollStarts, PollLands, PollFails,
                      serverVars
<1>10. CASE UNCHANGED vars
    BY <1>1, <1>10 DEF vars, serverVars
<1> QED BY <1>2, <1>3, <1>4, <1>5, <1>6, <1>7, <1>8, <1>9, <1>10 DEF Next

\* A one-time code registers one computer, for any codes and computers, and however
\* often it is tried, retried after a lost answer, or tried while it expires.
THEOREM CodesRegisterOnce == Spec => []CodeUsedOnce
<1>1. Init => CodesAreSpent
    BY DEF Init, CodesAreSpent, CodeUsedOnce
<1>2. CodesAreSpent => CodeUsedOnce
    BY DEF CodesAreSpent
<1> QED BY <1>1, <1>2, CodeStep, PTL DEF Spec

------------------------------------------------------------------------------
(* RunnerConnection: what a tab that has settled keeps.                      *)

CodeStates == {"none", "waiting", "claimed", "expired"}
Someone == Devices \cup {NoDevice}
Replies == [state : CodeStates \cup {"asked", "missing"}, device : Someone, online : BOOLEAN]
PollsOfTab == [gen : 0 .. MaxGeneration, enrollment : Enrollments \cup {NoEnrollment},
               device : Someone, reply : Replies]
ClicksOfTab == [kind : {"none", "select", "create"}, device : Someone]

\* An answer that was read names a computer if it says "claimed", and only then; that of a
\* code never misses a computer, and stays true: nobody else gets to use the code.
TrueReply(p) ==
    /\ p.reply # NoReply =>
          /\ p.reply.state # "asked"
          /\ p.reply.state = "claimed" <=> p.reply.device # NoDevice
    /\ p.enrollment = NoEnrollment => p.device \in Devices
    /\ p.enrollment # NoEnrollment =>
          /\ p.reply.state # "missing"
          /\ p.reply.state = "claimed" =>
                code[p.enrollment] = "claimed" /\ p.reply.device = claimedBy[p.enrollment]

PollsAreTrue == \A s \in Slots : poll[s] # NoPoll => TrueReply(poll[s])

\* Who claimed a code is registered.
ClaimsAreKnown ==
    \A e \in Enrollments :
        code[e] = "claimed" => claimedBy[e] \in Devices /\ row[claimedBy[e]] # "absent"

ConnectionInv ==
    /\ ConnectionTypeOK
    /\ poll \in [Slots -> PollsOfTab]
    /\ click \in [1 .. MaxGeneration -> ClicksOfTab]
    /\ \A g \in 1 .. MaxGeneration : click[g].kind = "select" => click[g].device \in Devices
    /\ ClaimsAreKnown
    /\ PollsAreTrue

\* The tab shows the computer that claimed its code, and every poll that it would still
\* listen to asks about that code.
SettledOn(e) ==
    /\ enrollment = e /\ code[e] = "claimed"
    /\ runner.device = claimedBy[e]
    /\ \A s \in Slots : poll[s].gen = generation => poll[s].enrollment = e

ChoosesAnew ==
    \E g \in 1 .. MaxGeneration : Selected(g) \/ \E e \in Enrollments : Created(g, e)

\* An answer is as true after a step that spends no claimed code.
LEMMA ReplyStaysTrue ==
    ASSUME ConnectionInv, NEW s \in Slots, poll[s] # NoPoll, poll'[s] = poll[s],
           \A e \in Enrollments : code[e] = "claimed" =>
               code'[e] = "claimed" /\ claimedBy'[e] = claimedBy[e]
    PROVE  TrueReply(poll[s])'
<1> USE DEF ConnectionInv, ConnectionTypeOK, PollsAreTrue
<1> SUFFICES ASSUME poll[s].enrollment # NoEnrollment, poll[s].reply.state = "claimed"
             PROVE  code'[poll[s].enrollment] = "claimed"
                    /\ poll[s].reply.device = claimedBy'[poll[s].enrollment]
    BY DEF TrueReply
<1>1. poll[s].enrollment \in Enrollments
    BY DEF PollsOfTab
<1> QED BY <1>1 DEF TrueReply

\* So what a step leaves in flight stays as it should be, if the step keeps claimed codes.
LEMMA PollsStayTrue ==
    ASSUME ConnectionInv, poll' = poll,
           \A e \in Enrollments : code[e] = "claimed" =>
               code'[e] = "claimed" /\ claimedBy'[e] = claimedBy[e]
    PROVE  PollsAreTrue'
<1> SUFFICES ASSUME NEW s \in Slots, poll[s] # NoPoll PROVE TrueReply(poll[s])'
    BY DEF PollsAreTrue
<1> QED BY ReplyStaysTrue

\* A step of the control plane or of a computer.
LEMMA ServerKeepsInv ==
    ASSUME ConnectionInv,
           \/ \E e \in Enrollments : BecomesDue(e) \/ \E d \in Devices : Enroll(e, d)
           \/ \E d \in Devices : RevokeDevice(d)
    PROVE  ConnectionInv'
<1> USE DEF ConnectionInv, ConnectionTypeOK, CodeStates, Someone
<1>1. ASSUME NEW e \in Enrollments, BecomesDue(e) PROVE ConnectionInv'
    BY <1>1, PollsStayTrue DEF BecomesDue, shownVars, ClaimsAreKnown
<1>2. ASSUME NEW d \in Devices, RevokeDevice(d) PROVE ConnectionInv'
    BY <1>2, PollsStayTrue DEF RevokeDevice, shownVars, ClaimsAreKnown
<1>3. ASSUME NEW e \in Enrollments, NEW d \in Devices, Enroll(e, d) PROVE ConnectionInv'
    <2>1. code[e] = "waiting" /\ row[d] = "absent"
        BY <1>3 DEF Enroll, CodeWaits
    <2>2. \A e2 \in Enrollments : code[e2] = "claimed" =>
              code'[e2] = "claimed" /\ claimedBy'[e2] = claimedBy[e2]
        BY <1>3, <2>1 DEF Enroll
    <2>3. ClaimsAreKnown'
        BY <1>3, <2>1 DEF Enroll, ClaimsAreKnown
    <2>4. PollsAreTrue'
        BY <1>3, <2>2, PollsStayTrue DEF Enroll
    <2> QED BY <1>3, <2>3, <2>4 DEF Enroll, shownVars
<1> QED BY <1>1, <1>2, <1>3

\* A click, its answer, a reload.
LEMMA ClicksKeepInv ==
    ASSUME ConnectionInv,
           \/ \E d \in Devices : SelectRunner(d)
           \/ CreateEnrollment \/ Reload \/ GoesOffline
           \/ \E g \in 1 .. MaxGeneration :
                 Selected(g) \/ ClickFails(g) \/ \E e \in Enrollments : Created(g, e)
    PROVE  ConnectionInv'
<1> USE ConnectionAssumption DEF ConnectionInv, ConnectionTypeOK, CodeStates, Someone
<1>1. ASSUME NEW kind \in {"select", "create"}, NEW d \in Someone, Begin(kind, d),
             kind = "select" => d \in Devices
      PROVE  ConnectionInv'
    <2>1. generation' = generation + 1 /\ generation' \in 1 .. MaxGeneration
        BY <1>1 DEF Begin
    <2>2. click' = [click EXCEPT ![generation + 1] = [kind |-> kind, device |-> d]]
        BY <1>1, <2>1 DEF Begin
    <2>3. [kind |-> kind, device |-> d] \in ClicksOfTab
        BY DEF ClicksOfTab
    <2>4. /\ click' \in [1 .. MaxGeneration -> ClicksOfTab]
          /\ \A g \in 1 .. MaxGeneration : click'[g].kind = "select" => click'[g].device \in Devices
        BY <1>1, <2>1, <2>2, <2>3
    <2>5. PollsAreTrue'
        BY <1>1, PollsStayTrue DEF Begin, serverVars
    <2>6. \A s \in Slots : poll[s].gen \in Nat
        BY DEF PollsOfTab
    <2>7. ConnectionTypeOK'
        BY <1>1, <2>1, <2>6 DEF Begin, serverVars, shownVars
    <2> QED BY <1>1, <2>4, <2>5, <2>7 DEF Begin, serverVars, ClaimsAreKnown
<1>2. ASSUME NEW d \in Devices, SelectRunner(d) PROVE ConnectionInv'
    BY <1>1, <1>2 DEF SelectRunner, Someone
<1>3. CASE CreateEnrollment
    BY <1>1, <1>3 DEF CreateEnrollment, Someone
<1>4. CASE GoesOffline
    <2>1. runner'.device = runner.device /\ runner' \in [device : Someone, online : BOOLEAN]
        BY <1>4 DEF GoesOffline, Someone
    <2>2. PollsAreTrue'
        BY <1>4, PollsStayTrue DEF GoesOffline, serverVars
    <2> QED BY <1>4, <2>1, <2>2 DEF GoesOffline, serverVars, ClaimsAreKnown, Someone
<1>5. CASE Reload
    <2>1. generation' \in 1 .. MaxGeneration
        BY <1>5 DEF Reload
    <2>2. NoPoll \in PollsOfTab /\ NoClick \in ClicksOfTab /\ NoPoll.gen = 0
        BY DEF NoPoll, NoReply, NoClick, PollsOfTab, ClicksOfTab, Replies, CodeStates, Someone
    <2>3. /\ status' \in [state : CodeStates, device : Someone]
          /\ status'.state = "claimed" <=> status'.device # NoDevice
          /\ runner' \in [device : Someone, online : BOOLEAN]
        BY <1>5 DEF Reload, Restored, NoStatus, Claimed, NoRunner
    <2>4. NoClick.kind = "none"
        BY DEF NoClick
    <2> QED BY <1>5, <2>1, <2>2, <2>3, <2>4 DEF Reload, serverVars, ClaimsAreKnown, PollsAreTrue
<1>6. ASSUME NEW g \in 1 .. MaxGeneration, Settle(g)
      PROVE  /\ click' \in [1 .. MaxGeneration -> ClicksOfTab]
             /\ \A h \in 1 .. MaxGeneration : click'[h].kind = "select" => click'[h].device \in Devices
             /\ busy' \in {"idle", "select", "create"}
    <2>1. NoClick \in ClicksOfTab /\ NoClick.kind = "none"
        BY DEF NoClick, ClicksOfTab, Someone
    <2> QED BY <1>6, <2>1 DEF Settle
<1>7. ASSUME NEW g \in 1 .. MaxGeneration, ClickFails(g) PROVE ConnectionInv'
    <2>1. PollsAreTrue'
        BY <1>7, PollsStayTrue DEF ClickFails, serverVars
    <2> QED BY <1>6, <1>7, <2>1 DEF ClickFails, serverVars, shownVars, ClaimsAreKnown
<1>8. ASSUME NEW g \in 1 .. MaxGeneration, Selected(g) PROVE ConnectionInv'
    <2>1. click[g].device \in Devices
        BY <1>8 DEF Selected
    <2>2. /\ enrollment' \in Enrollments \cup {NoEnrollment}
          /\ stored' \in Someone
          /\ status' \in [state : CodeStates, device : Someone]
          /\ status'.state = "claimed" <=> status'.device # NoDevice
          /\ runner' \in [device : Someone, online : BOOLEAN]
        <3>1. CASE g = generation
            <4>1. /\ enrollment' = NoEnrollment /\ stored' = click[g].device
                  /\ status' = [state |-> "claimed", device |-> click[g].device]
                  /\ runner' = [device |-> click[g].device, online |-> TRUE]
                BY <1>8, <3>1 DEF Selected, Claimed
            <4>2. runner' \in [device : Someone, online : BOOLEAN]
                BY <2>1, <4>1
            <4> QED BY <2>1, <4>1, <4>2
        <3>2. CASE g # generation
            BY <1>8, <3>2 DEF Selected, shownVars
        <3> QED BY <3>1, <3>2
    <2>3. PollsAreTrue'
        BY <1>8, PollsStayTrue DEF Selected, serverVars
    <2>4. Settle(g)
        BY <1>8 DEF Selected
    <2> QED BY <1>6, <1>8, <2>2, <2>3, <2>4 DEF Selected, serverVars, ClaimsAreKnown, CodeStates, Someone
<1>9. ASSUME NEW g \in 1 .. MaxGeneration, NEW e \in Enrollments, Created(g, e) PROVE ConnectionInv'
    <2>1. code[e] = "none" /\ code' = [code EXCEPT ![e] = "waiting"]
        BY <1>9 DEF Created
    <2>2. PollsAreTrue'
        BY <1>9, <2>1, PollsStayTrue DEF Created
    <2>3. ClaimsAreKnown'
        BY <1>9, <2>1 DEF Created, ClaimsAreKnown
    <2>4. /\ enrollment' \in Enrollments \cup {NoEnrollment}
          /\ status' \in [state : CodeStates, device : Someone]
          /\ status'.state = "claimed" <=> status'.device # NoDevice
          /\ runner' \in [device : Someone, online : BOOLEAN]
        <3>1. CASE g = generation
            <4>1. /\ enrollment' = e
                  /\ status' = [state |-> "waiting", device |-> NoDevice]
                  /\ runner' = [device |-> NoDevice, online |-> FALSE]
                BY <1>9, <3>1 DEF Created, NoRunner
            <4>2. runner' \in [device : Someone, online : BOOLEAN]
                BY <4>1
            <4> QED BY <4>1, <4>2
        <3>2. CASE g # generation
            BY <1>9, <3>2 DEF Created
        <3> QED BY <3>1, <3>2
    <2>5. Settle(g)
        BY <1>9 DEF Created
    <2> QED BY <1>6, <1>9, <2>1, <2>2, <2>3, <2>4, <2>5 DEF Created, CodeStates, Someone
<1> QED BY <1>2, <1>3, <1>4, <1>5, <1>7, <1>8, <1>9

\* A poll that begins is about what the tab shows, and one that is read tells the truth.
LEMMA PollsKeepInv ==
    ASSUME ConnectionInv, NEW s \in Slots,
           PollStarts(s) \/ PollRead(s) \/ PollLands(s) \/ PollFails(s)
    PROVE  ConnectionInv'
<1> USE ConnectionAssumption DEF ConnectionInv, ConnectionTypeOK, CodeStates, Someone
<1>1. NoPoll \in PollsOfTab /\ NoPoll.gen = 0 /\ NoReply \in Replies
    BY DEF NoPoll, NoReply, PollsOfTab, Replies
<1>2. ASSUME \A e \in Enrollments : code[e] = "claimed" => code'[e] = "claimed",
             claimedBy' = claimedBy, poll' = [poll EXCEPT ![s] = poll'[s]],
             poll'[s] # NoPoll => TrueReply(poll[s])'
      PROVE  PollsAreTrue'
    <2> SUFFICES ASSUME NEW t \in Slots, poll'[t] # NoPoll PROVE TrueReply(poll[t])'
        BY DEF PollsAreTrue
    <2>1. CASE t = s
        BY <1>2, <2>1
    <2>2. CASE t # s
        <3>1. poll'[t] = poll[t]
            BY <1>2, <2>2
        <3> QED BY <1>2, <3>1, ReplyStaysTrue
    <2> QED BY <2>1, <2>2
<1>3. ASSUME PollStarts(s) PROVE ConnectionInv'
    <2> DEFINE fresh == [gen |-> generation, enrollment |-> enrollment,
                         device |-> IF enrollment = NoEnrollment THEN status.device ELSE NoDevice,
                         reply |-> NoReply]
    <2>1. poll' = [poll EXCEPT ![s] = fresh] /\ poll'[s] = fresh
        BY <1>3 DEF PollStarts
    <2>2. enrollment = NoEnrollment => status.device \in Devices
        BY <1>3 DEF PollStarts, HasTarget
    <2>3. fresh \in PollsOfTab
        BY <1>1 DEF PollsOfTab
    <2>4. TrueReply(poll[s])'
        BY <2>1, <2>2 DEF TrueReply, NoReply
    <2>5. serverVars' = serverVars /\ shownVars' = shownVars
          /\ UNCHANGED <<generation, busy, click>>
        BY <1>3 DEF PollStarts
    <2> HIDE DEF fresh
    <2>6. PollsAreTrue'
        BY <1>2, <2>1, <2>4, <2>5 DEF serverVars
    <2>7. fresh.gen = generation
        BY DEF fresh
    <2>8. poll' \in [Slots -> PollsOfTab] /\ \A t \in Slots : poll'[t].gen <= generation
        BY <2>1, <2>3, <2>7
    <2> QED BY <2>5, <2>6, <2>8 DEF serverVars, shownVars, ClaimsAreKnown
<1>4. ASSUME poll' = [poll EXCEPT ![s] = NoPoll]
      PROVE  poll' \in [Slots -> PollsOfTab] /\ \A t \in Slots : poll'[t].gen <= generation
    BY <1>1, <1>4
<1>5. ASSUME PollFails(s) PROVE ConnectionInv'
    <2>1. PollsAreTrue'
        BY <1>2, <1>5 DEF PollFails, serverVars
    <2> QED BY <1>4, <1>5, <2>1 DEF PollFails, serverVars, shownVars, ClaimsAreKnown
<1>6. ASSUME PollLands(s) PROVE ConnectionInv'
    <2>1. /\ poll' = [poll EXCEPT ![s] = NoPoll]
          /\ UNCHANGED <<serverVars, generation, busy, click>>
        BY <1>6 DEF PollLands
    <2>2. PollsAreTrue'
        BY <1>2, <2>1 DEF serverVars
    <2>3. /\ enrollment' \in Enrollments \cup {NoEnrollment}
          /\ stored' \in Someone
          /\ status' \in [state : CodeStates, device : Someone]
          /\ status'.state = "claimed" <=> status'.device # NoDevice
          /\ runner' \in [device : Someone, online : BOOLEAN]
        <3> DEFINE r == poll[s].reply
        <3>1. /\ r \in Replies /\ r.state # "asked"
              /\ r.state = "claimed" <=> r.device # NoDevice
            BY <1>6 DEF PollLands, PollsAreTrue, TrueReply, PollsOfTab
        <3>2. CASE UNCHANGED shownVars
            BY <3>2 DEF shownVars
        <3>3. CASE Forget
            <4>1. NoStatus \in [state : CodeStates, device : Someone]
                  /\ NoRunner \in [device : Someone, online : BOOLEAN]
                  /\ NoStatus.state = "none" /\ NoStatus.device = NoDevice
                BY DEF NoStatus, NoRunner
            <4> QED BY <3>3, <4>1 DEF Forget
        <3>4. CASE r.state # "missing" /\ Adopt(r)
            <4> HIDE DEF r
            <4>1. [state |-> r.state, device |-> r.device] \in [state : CodeStates, device : Someone]
                BY <3>1, <3>4 DEF Replies
            <4>2. [device |-> r.device, online |-> r.online] \in [device : Someone, online : BOOLEAN]
                BY <3>1 DEF Replies
            <4>3. r.device \in Someone
                BY <3>1 DEF Replies
            <4> QED BY <3>1, <3>4, <4>1, <4>2, <4>3 DEF Adopt
        <3> QED BY <1>6, <3>2, <3>3, <3>4 DEF PollLands
    <2> QED BY <1>4, <2>1, <2>2, <2>3 DEF serverVars, ClaimsAreKnown
<1>7. ASSUME PollRead(s) PROVE ConnectionInv'
    <2> DEFINE p == poll[s]
    <2>1. p # NoPoll /\ p \in PollsOfTab /\ TrueReply(p)
        BY <1>7 DEF PollRead, PollsAreTrue
    <2>2. /\ code' \in [Enrollments -> CodeStates]
          /\ \A e \in Enrollments : code[e] = "claimed" <=> code'[e] = "claimed"
        BY <1>7, <2>1 DEF PollRead, PollsOfTab
    <2>3. UNCHANGED <<overdue, claimedBy, row, usedCode, shownVars, generation, busy, click>>
        BY <1>7 DEF PollRead
    <2>4. PICK online \in BOOLEAN :
              poll' = [poll EXCEPT ![s].reply =
                  IF p.enrollment = NoEnrollment THEN AboutDevice(p.device, online)
                  ELSE AboutCode(p.enrollment, online)]
        BY <1>7 DEF PollRead
    <2> DEFINE answer == IF p.enrollment = NoEnrollment THEN AboutDevice(p.device, online)
                         ELSE AboutCode(p.enrollment, online)
    <2>5. /\ answer \in Replies /\ answer.state # "asked"
          /\ answer.state = "claimed" <=> answer.device # NoDevice
        <3>1. ASSUME NEW d \in Devices
              PROVE  /\ AboutDevice(d, online) \in Replies
                     /\ AboutDevice(d, online).state # "asked"
                     /\ AboutDevice(d, online).state = "claimed" <=> AboutDevice(d, online).device # NoDevice
            <4>1. CASE row[d] = "absent"
                <5>1. AboutDevice(d, online) = [state |-> "missing", device |-> NoDevice, online |-> FALSE]
                    BY <4>1 DEF AboutDevice
                <5> QED BY <5>1 DEF Replies
            <4>2. CASE row[d] # "absent"
                <5> DEFINE lately == online /\ row[d] = "active"
                <5>1. AboutDevice(d, online) = [state |-> "claimed", device |-> d, online |-> lately]
                    BY <4>2 DEF AboutDevice
                <5>2. lately \in BOOLEAN
                    OBVIOUS
                <5> HIDE DEF lately
                <5> QED BY <3>1, <5>1, <5>2 DEF Replies
            <4> QED BY <4>1, <4>2
        <3>2. CASE p.enrollment = NoEnrollment
            <4>1. p.device \in Devices
                BY <2>1, <3>2 DEF TrueReply
            <4>2. answer = AboutDevice(p.device, online)
                BY <3>2
            <4> HIDE DEF answer, p
            <4> QED BY <3>1, <4>1, <4>2
        <3>3. CASE p.enrollment # NoEnrollment
            <4>1. p.enrollment \in Enrollments
                BY <2>1, <3>3 DEF PollsOfTab
            <4>2. CASE code'[p.enrollment] = "claimed"
                <5>1. claimedBy[p.enrollment] \in Devices
                    BY <2>2, <4>1, <4>2 DEF ClaimsAreKnown
                <5>2. answer = AboutDevice(claimedBy[p.enrollment], online)
                    BY <3>3, <4>2 DEF AboutCode
                <5> HIDE DEF answer, p
                <5> QED BY <3>1, <5>1, <5>2
            <4>3. CASE code'[p.enrollment] # "claimed"
                <5>1. answer = [state |-> code'[p.enrollment], device |-> NoDevice, online |-> FALSE]
                    BY <3>3, <4>3 DEF AboutCode
                <5>2. code'[p.enrollment] \in CodeStates
                    BY <2>2, <4>1
                <5> HIDE DEF answer, p
                <5> QED BY <4>3, <5>1, <5>2 DEF Replies
            <4> QED BY <4>2, <4>3
        <3> QED BY <3>2, <3>3
    <2>6. p.enrollment # NoEnrollment =>
              /\ answer.state # "missing"
              /\ answer.state = "claimed" =>
                    code[p.enrollment] = "claimed" /\ answer.device = claimedBy[p.enrollment]
        <3> SUFFICES ASSUME p.enrollment # NoEnrollment
                     PROVE  /\ answer.state # "missing"
                            /\ answer.state = "claimed" =>
                                  code[p.enrollment] = "claimed" /\ answer.device = claimedBy[p.enrollment]
            OBVIOUS
        <3>1. p.enrollment \in Enrollments
            BY <2>1 DEF PollsOfTab
        <3>2. CASE code'[p.enrollment] = "claimed"
            BY <2>2, <3>1, <3>2 DEF AboutCode, AboutDevice, ClaimsAreKnown
        <3>3. CASE code'[p.enrollment] # "claimed"
            BY <2>2, <3>1, <3>3 DEF AboutCode
        <3> QED BY <3>2, <3>3
    <2> HIDE DEF answer
    <2>7. poll' = [poll EXCEPT ![s] = poll'[s]] /\ poll'[s] = [p EXCEPT !.reply = answer]
        BY <2>4 DEF answer
    <2>8. /\ poll'[s] \in PollsOfTab
          /\ poll'[s].gen = p.gen /\ poll'[s].enrollment = p.enrollment
          /\ poll'[s].device = p.device /\ poll'[s].reply = answer
        BY <2>1, <2>5, <2>7 DEF PollsOfTab
    <2>9. TrueReply(poll[s])'
        <3>1. p.enrollment = NoEnrollment => p.device \in Devices
            BY <2>1 DEF TrueReply
        <3>2. p.enrollment \in Enrollments /\ code[p.enrollment] = "claimed" =>
                  code'[p.enrollment] = "claimed" /\ claimedBy' = claimedBy
            BY <2>2, <2>3
        <3>3. p.enrollment \in Enrollments \cup {NoEnrollment}
            BY <2>1 DEF PollsOfTab
        <3> HIDE DEF p
        <3> QED BY <2>5, <2>6, <2>8, <3>1, <3>2, <3>3 DEF TrueReply
    <2>10. PollsAreTrue'
        BY <1>2, <2>2, <2>3, <2>7, <2>9
    <2>11. poll' \in [Slots -> PollsOfTab] /\ \A t \in Slots : poll'[t].gen <= generation
        BY <2>7, <2>8
    <2> QED BY <2>2, <2>3, <2>10, <2>11 DEF shownVars, ClaimsAreKnown
<1> QED BY <1>3, <1>5, <1>6, <1>7

LEMMA ConnectionStep == ConnectionInv /\ [Next]_vars => ConnectionInv'
<1> SUFFICES ASSUME ConnectionInv, [Next]_vars PROVE ConnectionInv'
    OBVIOUS
<1>1. CASE UNCHANGED vars
    <2>1. PollsAreTrue'
        BY <1>1, PollsStayTrue DEF vars, serverVars
    <2> QED BY <1>1, <2>1
           DEF vars, serverVars, shownVars, ConnectionInv, ConnectionTypeOK, ClaimsAreKnown
<1>2. CASE Next
    BY <1>2, ServerKeepsInv, ClicksKeepInv, PollsKeepInv DEF Next
<1> QED BY <1>1, <1>2

LEMMA ConnectionInvariant == Spec => []ConnectionInv
<1>1. Init => ConnectionInv
    <2> SUFFICES ASSUME Init PROVE ConnectionInv
        OBVIOUS
    <2> USE ConnectionAssumption DEF CodeStates, Someone
    <2>1. NoPoll \in PollsOfTab /\ NoPoll.gen = 0 /\ NoClick \in ClicksOfTab /\ NoClick.kind = "none"
        BY DEF NoPoll, NoReply, NoClick, PollsOfTab, ClicksOfTab, Replies
    <2>2. /\ status \in [state : CodeStates, device : Someone]
          /\ status.state = "claimed" <=> status.device # NoDevice
          /\ runner \in [device : Someone, online : BOOLEAN]
        BY DEF Init, Restored, NoStatus, Claimed, NoRunner
    <2>3. ConnectionTypeOK
        BY <2>1, <2>2 DEF Init, ConnectionTypeOK
    <2> QED BY <2>1, <2>3 DEF Init, ConnectionInv, ClaimsAreKnown, PollsAreTrue
<1> QED BY <1>1, ConnectionStep, PTL DEF Spec

\* Types of the rows, of what the tab shows, and of what is in flight, for any computers and
\* codes; a status names a computer when it is "claimed", and only then.
THEOREM ConnectionTypeCorrect == Spec => []ConnectionTypeOK
<1>1. ConnectionInv => ConnectionTypeOK
    BY DEF ConnectionInv
<1> QED BY <1>1, ConnectionInvariant, PTL

\* A step of the control plane, of a computer, of a poll, or the beginning or failure of a
\* click leaves a tab settled.
LEMMA SettledStep ==
    ASSUME ConnectionInv, [Next]_vars, NEW e \in Enrollments, SettledOn(e), ~Reload, ~ChoosesAnew
    PROVE  SettledOn(e)'
<1> USE DEF SettledOn
<1>1. CASE UNCHANGED vars
    BY <1>1 DEF vars, serverVars, shownVars
<1>2. ASSUME NEW f \in Enrollments, BecomesDue(f) \/ \E d \in Devices : Enroll(f, d)
      PROVE  SettledOn(e)'
    BY <1>2 DEF BecomesDue, Enroll, CodeWaits, shownVars, ConnectionInv, ConnectionTypeOK
<1>3. ASSUME NEW d \in Devices, RevokeDevice(d) PROVE SettledOn(e)'
    BY <1>3 DEF RevokeDevice, shownVars
<1>4. ASSUME NEW kind, NEW d, Begin(kind, d) PROVE SettledOn(e)'
    <2>1. \A s \in Slots : poll[s].gen \in Nat /\ poll[s].gen <= generation
        BY DEF ConnectionInv, ConnectionTypeOK, PollsOfTab
    <2>2. generation' = generation + 1 /\ generation \in Nat
        BY <1>4 DEF Begin, ConnectionInv, ConnectionTypeOK
    <2>3. \A s \in Slots : poll[s].gen # generation'
        BY <2>1, <2>2
    <2> QED BY <1>4, <2>3 DEF Begin, serverVars, shownVars
<1>5. ASSUME NEW d \in Devices, SelectRunner(d) PROVE SettledOn(e)'
    BY <1>4, <1>5 DEF SelectRunner
<1>6. CASE CreateEnrollment
    BY <1>4, <1>6 DEF CreateEnrollment
<1>7. CASE GoesOffline
    <2>1. runner'.device = runner.device
        BY <1>7 DEF GoesOffline, ConnectionInv, ConnectionTypeOK
    <2> QED BY <1>7, <2>1 DEF GoesOffline, serverVars
<1>8. ASSUME NEW g \in 1 .. MaxGeneration, ClickFails(g) PROVE SettledOn(e)'
    BY <1>8 DEF ClickFails, serverVars, shownVars
<1>9. ASSUME NEW s \in Slots, PollStarts(s) PROVE SettledOn(e)'
    <2>1. /\ poll'[s].enrollment = e
          /\ \A t \in Slots : t # s => poll'[t] = poll[t]
          /\ UNCHANGED <<serverVars, shownVars, generation>>
        BY <1>9 DEF PollStarts, ConnectionInv
    <2> QED BY <2>1 DEF serverVars, shownVars
<1>10. ASSUME NEW s \in Slots, PollRead(s) PROVE SettledOn(e)'
    <2>1. /\ poll'[s].gen = poll[s].gen /\ poll'[s].enrollment = poll[s].enrollment
          /\ \A t \in Slots : t # s => poll'[t] = poll[t]
        BY <1>10 DEF PollRead, ConnectionInv, PollsOfTab
    <2>2. code'[e] = "claimed" /\ UNCHANGED <<claimedBy, shownVars, generation>>
        BY <1>10 DEF PollRead, ConnectionInv, ConnectionTypeOK
    <2> QED BY <2>1, <2>2 DEF shownVars
<1>11. ASSUME NEW s \in Slots, poll' = [poll EXCEPT ![s] = NoPoll], generation' = generation
       PROVE  \A t \in Slots : poll'[t].gen = generation' => poll'[t].enrollment = e
    <2>1. NoPoll.gen = 0 /\ generation # 0
        BY DEF NoPoll, ConnectionInv, ConnectionTypeOK
    <2> QED BY <1>11, <2>1 DEF ConnectionInv
<1>12. ASSUME NEW s \in Slots, PollFails(s) PROVE SettledOn(e)'
    BY <1>11, <1>12 DEF PollFails, serverVars, shownVars
<1>13. ASSUME NEW s \in Slots, PollLands(s) PROVE SettledOn(e)'
    <2>1. /\ poll[s] # NoPoll /\ poll' = [poll EXCEPT ![s] = NoPoll]
          /\ UNCHANGED <<serverVars, generation>>
        BY <1>13 DEF PollLands
    <2>2. enrollment' = enrollment /\ runner'.device = runner.device
        <3>1. CASE UNCHANGED shownVars
            BY <3>1 DEF shownVars
        <3>2. CASE poll[s].gen = generation
            <4>1. poll[s].enrollment = e /\ e # NoEnrollment
                BY <3>2, ConnectionAssumption
            <4>2. /\ poll[s].reply.state # "missing"
                  /\ poll[s].reply.state = "claimed" => poll[s].reply.device = claimedBy[e]
                BY <2>1, <4>1 DEF ConnectionInv, PollsAreTrue, TrueReply
            <4> QED BY <1>13, <3>2, <4>2 DEF PollLands, Adopt
        <3> QED BY <1>13, <3>1, <3>2 DEF PollLands
    <2> QED BY <1>11, <2>1, <2>2 DEF serverVars
<1> QED BY <1>1, <1>2, <1>3, <1>5, <1>6, <1>7, <1>8, <1>9, <1>10, <1>12, <1>13 DEF Next, ChoosesAnew

\* A tab that shows the computer which claimed its code, and no longer listens to a poll
\* about anything else, keeps showing it, whatever the order of its polls' answers, until it
\* is reloaded or a click is answered that chose something else: the generation that
\* useRunnerConnection compares keeps out the answers that could disturb it.
THEOREM SettledStays ==
    Spec => [][\A e \in Enrollments : SettledOn(e) => SettledOn(e)' \/ Reload \/ ChoosesAnew]_vars
<1>1. ConnectionInv /\ [Next]_vars =>
          [\A e \in Enrollments : SettledOn(e) => SettledOn(e)' \/ Reload \/ ChoosesAnew]_vars
    BY SettledStep
<1> QED BY <1>1, ConnectionInvariant, PTL DEF Spec

==============================================================================
