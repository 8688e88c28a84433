------------------------- MODULE SwitchScreenProofs --------------------------
(* The screen keeps to the revision it was opened for, recovers an apply     *)
(* once and is not taken back by late polls, for any operations of others,   *)
(* any revisions, any number of calls in flight and any order of answers.    *)
EXTENDS SwitchScreen, TLAPS

Kinds == {"none", "operations", "state", "job", "plan", "apply", "rollback", "cancel"}
Views == [active : Nat, reviewed : Nat, latest : Nat]

CallTypes ==
    [kind : Kinds, fresh : BOOLEAN, owns : BOOLEAN, job : Nat,
     rev : Revisions \cup {NoRevision}, then : {"none", "ended", "recover", "superseded"},
     reply : {"none", "read", "queued", "conflict", "refused"}, view : Views]

\* A view names operations up to the last of n.
GoodView(view, n) ==
    view \in Views /\ view.active <= n /\ view.reviewed <= n /\ view.latest <= n

\* What a call carries fits its kind; only a refreshJob, in one of its three
\* requests, holds the lock.
GoodCall(c, n) ==
    /\ c \in CallTypes
    /\ c.job <= n /\ GoodView(c.view, n)
    /\ c.kind \in {"job", "apply"} \/ c.then = "ended" => c.job # 0
    /\ c.then \in {"ended", "superseded"} => c.kind = "state"
    /\ c.then = "recover" => c.kind = "plan"
    /\ c.reply \in {"queued", "conflict", "refused"} => c.kind \in {"plan", "apply", "rollback"}
    /\ c.owns => \/ c.kind = "job"
                 \/ c.kind = "state" /\ c.then = "ended"
                 \/ c.kind = "plan" /\ c.then = "recover"

CallsTyped == DOMAIN call = Slots /\ \A s \in Slots : GoodCall(call[s], Last)

\* Types, and the bounds of all the numbers that the screen holds.
ScreenTyped ==
    /\ job \in Seq(Jobs)
    /\ requested \in Revisions \cup {NoRevision}
    /\ here \in BOOLEAN /\ loading \in BOOLEAN /\ submitting \in BOOLEAN
    /\ known \in BOOLEAN /\ locked \in BOOLEAN /\ armed \in BOOLEAN
    /\ activeJob \in 0 .. Last /\ plan \in 0 .. Last /\ conflict \in 0 .. Last
    /\ dismissed \in 0 .. Last /\ jobStatus.job \in 0 .. Last /\ handled \subseteq 0 .. Last
    /\ outcome \in {"none", "receipt", "restored"}
    /\ GoodView(operations, Last)
    /\ armed => Tracked(activeJob, operations) # 0
    /\ CallsTyped

LockHeld ==
    /\ locked => \E s \in Slots : call[s].owns
    /\ ~here => ~locked

Polls(c) == c.kind = "operations"
FreshState(c) == c.kind = "state" /\ c.fresh

\* The poll of the operations that may still be adopted is the last thing that was
\* asked about them, so it knows of whatever the screen tracks.
PollIsLatest ==
    \A s \in Slots : Polls(call[s]) =>
        /\ here
        /\ call[s].view.active # 0 =>
              call[s].view.active >= activeJob /\ call[s].view.active >= operations.active
        /\ \A t \in Slots : (Polls(call[t]) => t = s) /\ ~FreshState(call[t])

\* A refreshState that follows the end of an operation, and may recover it.
Recovering(c) == c.then = "ended" /\ c.owns

\* An operation whose end was handled recovers now, or has done so, or never will.
RecoveryIsHandled ==
    /\ recovered \in Seq(Nat)
    /\ \A n \in DOMAIN recovered : recovered[n] \in handled
    /\ \A s \in Slots : Recovering(call[s]) =>
        /\ call[s].job \in handled
        /\ \A n \in DOMAIN recovered : recovered[n] # call[s].job
        /\ \A t \in Slots : Recovering(call[t]) /\ call[t].job = call[s].job => t = s

ScreenInv ==
    /\ ScreenTyped /\ LockHeld /\ PollIsLatest
    /\ RecoveryIsHandled /\ RecoversOnce /\ OnlyTheRequestedPlan

------------------------------------------------------------------------------
(* Operations and calls.                                                     *)

\* The operations that there are stay where they are, of the revision they are of.
JobsKept ==
    /\ job' \in Seq(Jobs) /\ Last <= Last'
    /\ \A n \in 1 .. Last : job'[n].rev = job[n].rev

LEMMA AskedKeeps ==
    ASSUME job \in Seq(Jobs), NEW kind \in {"plan", "apply", "rollback"},
           NEW r \in Revisions \cup {NoRevision}, NEW n \in 0 .. MaxJobs, Asked(kind, r, n)
    PROVE  JobsKept /\ Last' = Last + 1
<1> DEFINE new == [kind |-> kind, rev |-> r, of |-> n, state |-> "running"]
<1>1. new \in Jobs
    BY DEF Jobs, Ends
<1>2. job' = Append(job, new)
    BY DEF Asked
<1> QED BY <1>1, <1>2 DEF JobsKept, Last

LEMMA EndKeeps ==
    ASSUME job \in Seq(Jobs), OperationEnds
    PROVE  JobsKept /\ Last' = Last
<1>1. PICK end \in Ends : job' = [job EXCEPT ![Last].state = end]
    BY DEF OperationEnds
<1>2. Last \in 1 .. Len(job) /\ job[Last] \in Jobs
    BY DEF OperationEnds, Running, Last
<1>3. [job[Last] EXCEPT !.state = end] \in Jobs
    BY <1>2 DEF Jobs
<1>4. job' = [job EXCEPT ![Last] = [job[Last] EXCEPT !.state = end]]
    BY <1>1
<1>5. [job[Last] EXCEPT !.state = end].rev = job[Last].rev
    BY <1>2 DEF Jobs
<1> QED BY <1>2, <1>3, <1>4, <1>5 DEF JobsKept, Last

\* What holds of a call stays true while operations are added.
LEMMA GoodStays ==
    ASSUME NEW m \in Nat, NEW n \in Nat, m <= n, NEW c, GoodCall(c, m)
    PROVE  GoodCall(c, n)
BY DEF GoodCall, GoodView, CallTypes, Views

LEMMA ViewIsGood ==
    ASSUME job \in Seq(Jobs)
    PROVE  GoodView(View, Last) /\ View.active \in {0, Last}
<1>1. Last \in Nat /\ DOMAIN job = 1 .. Last /\ Running \in {0, Last}
    BY DEF Last, Running
<1>2. View.reviewed \in {0, Last}
    BY DEF View
<1>3. View.latest \in 0 .. Last
    BY <1>1 DEF View, Ended
<1> QED BY <1>1, <1>2, <1>3 DEF View, GoodView, Views

LEMMA NoCallIsGood ==
    ASSUME NEW n \in Nat
    PROVE  /\ GoodCall(NoCall, n)
           /\ ~NoCall.owns /\ ~Polls(NoCall) /\ ~FreshState(NoCall) /\ ~Recovering(NoCall)
BY DEF GoodCall, GoodView, CallTypes, Views, NoCall, NoView, Kinds, Polls, FreshState, Recovering


LEMMA OutdateAges ==
    ASSUME NEW calls, NEW n \in Nat, NEW s \in Slots, GoodCall(calls[s], n)
    PROVE  GoodCall(Outdate(calls)[s], n) /\ (Recovering(Outdate(calls)[s]) <=> Recovering(calls[s]))
           /\ Outdate(calls)[s].owns = calls[s].owns
           /\ ~Polls(Outdate(calls)[s]) /\ ~FreshState(Outdate(calls)[s])
           /\ (Recovering(calls[s]) => Outdate(calls)[s].job = calls[s].job)
<1> DEFINE new == Outdate(calls)[s]
<1>1. CASE calls[s].kind = "operations"
    <2>1. new = NoCall
        BY <1>1 DEF Outdate
    <2>2. calls[s].owns = FALSE /\ ~Recovering(calls[s])
        BY <1>1 DEF GoodCall, Recovering, CallTypes
    <2>3. NoCall.owns = FALSE
        BY DEF NoCall
    <2> HIDE DEF new
    <2> QED BY <2>1, <2>2, <2>3, NoCallIsGood DEF new
<1>2. CASE calls[s].kind = "state"
    <2> DEFINE c == calls[s]
    <2>1. new = [c EXCEPT !.fresh = FALSE, !.view = NoView]
        BY <1>2 DEF Outdate
    <2>2. c \in CallTypes
        BY DEF GoodCall
    <2> HIDE DEF new, c
    <2>3. /\ new \in CallTypes /\ new.kind = c.kind /\ new.owns = c.owns /\ new.job = c.job
          /\ new.then = c.then /\ new.reply = c.reply /\ new.fresh = FALSE /\ new.view = NoView
        BY <2>1, <2>2 DEF CallTypes, Views, NoView
    <2>4. GoodView(NoView, n)
        BY DEF GoodView, NoView, Views
    <2>5. c.kind = "state" /\ GoodCall(c, n)
        BY <1>2 DEF c
    <2>6. GoodCall(new, n) /\ ~Polls(new) /\ ~FreshState(new) /\ (Recovering(new) <=> Recovering(c))
        BY <2>3, <2>4, <2>5 DEF GoodCall, Polls, FreshState, Recovering
    <2> QED BY <2>3, <2>6 DEF new, c
<1>3. CASE calls[s].kind \notin {"operations", "state"}
    <2>1. new = calls[s]
        BY <1>3 DEF Outdate
    <2> QED BY <2>1, <1>3 DEF Polls, FreshState
<1> QED BY <1>1, <1>2, <1>3

------------------------------------------------------------------------------
(* How a step changes the calls in flight.                                   *)

\* The calls other than that of s are the same, or were outdated.
OthersStay(s) ==
    \A t \in Slots \ {s} :
        /\ call'[t].owns = call[t].owns
        /\ Recovering(call'[t]) <=> Recovering(call[t])
        /\ Recovering(call[t]) => call'[t].job = call[t].job
        /\ Polls(call'[t]) => call'[t] = call[t]
        /\ FreshState(call'[t]) => FreshState(call[t])

OthersOutdated(s) == \A t \in Slots \ {s} : ~Polls(call'[t]) /\ ~FreshState(call'[t])

Moves(s, c) == CallsTyped' /\ call'[s] = c /\ OthersStay(s)

LEMMA Replaced ==
    ASSUME job \in Seq(Jobs), CallsTyped, JobsKept, NEW s \in Slots, NEW c, GoodCall(c, Last'),
           call' = GoesOn(s, c)
    PROVE  Moves(s, c)
<1>1. Last \in Nat /\ Last' \in Nat /\ Last <= Last'
    BY DEF Last, JobsKept
<1>2. DOMAIN call' = Slots /\ call'[s] = c /\ \A t \in Slots \ {s} : call'[t] = call[t]
    BY DEF GoesOn, CallsTyped
<1>3. \A t \in Slots : GoodCall(call'[t], Last')
    BY <1>1, <1>2, GoodStays DEF CallsTyped
<1> QED BY <1>2, <1>3 DEF Moves, CallsTyped, OthersStay

LEMMA CallsStay ==
    ASSUME job \in Seq(Jobs), CallsTyped, JobsKept, call' = call
    PROVE  CallsTyped'
<1>1. Last \in Nat /\ Last' \in Nat /\ Last <= Last'
    BY DEF Last, JobsKept
<1> QED BY <1>1, GoodStays DEF CallsTyped

LEMMA OutdatedReplaced ==
    ASSUME job \in Seq(Jobs), CallsTyped, job' = job, NEW s \in Slots, NEW c, GoodCall(c, Last),
           call' = [Outdate(call) EXCEPT ![s] = c]
    PROVE  Moves(s, c) /\ OthersOutdated(s)
<1>1. Last \in Nat /\ Last' = Last
    BY DEF Last
<1>2. \A t \in Slots : GoodCall(call[t], Last)
    BY DEF CallsTyped
<1>3. \A t \in Slots \ {s} : call'[t] = Outdate(call)[t]
    BY DEF Outdate
<1>4. DOMAIN call' = Slots /\ call'[s] = c
    BY DEF Outdate
<1>5. \A t \in Slots : GoodCall(call'[t], Last')
    BY <1>1, <1>2, <1>3, <1>4, OutdateAges
<1>6. OthersOutdated(s) /\ OthersStay(s)
    BY <1>1, <1>2, <1>3, OutdateAges DEF OthersOutdated, OthersStay
<1> QED BY <1>4, <1>5, <1>6 DEF Moves, CallsTyped

LEMMA OutdatedDone ==
    ASSUME job \in Seq(Jobs), CallsTyped, job' = job, NEW s \in Slots, call' = Outdate(Done(s))
    PROVE  Moves(s, NoCall) /\ OthersOutdated(s)
<1>1. Last \in Nat /\ Last' = Last
    BY DEF Last
<1>2. DOMAIN Done(s) = Slots /\ Done(s)[s] = NoCall /\ \A t \in Slots \ {s} : Done(s)[t] = call[t]
    BY DEF Done, GoesOn, CallsTyped
<1>3. \A t \in Slots \ {s} : GoodCall(Done(s)[t], Last)
    BY <1>2 DEF CallsTyped
<1>4. Outdate(Done(s))[s] = NoCall
    <2> DEFINE done == Done(s)
    <2>1. done[s] = NoCall /\ NoCall.kind = "none"
        BY <1>2 DEF NoCall
    <2> HIDE DEF done
    <2>2. Outdate(done)[s] = NoCall
        BY <2>1 DEF Outdate
    <2> QED BY <2>2 DEF done
<1>5. DOMAIN call' = Slots /\ call'[s] = NoCall /\ \A t \in Slots \ {s} : call'[t] = Outdate(Done(s))[t]
    BY <1>4 DEF Outdate
<1>6. \A t \in Slots : GoodCall(call'[t], Last')
    BY <1>1, <1>3, <1>5, OutdateAges, NoCallIsGood
<1>7. OthersOutdated(s) /\ OthersStay(s)
    BY <1>1, <1>2, <1>3, <1>5, OutdateAges DEF OthersOutdated, OthersStay
<1> QED BY <1>5, <1>6, <1>7 DEF Moves, CallsTyped

------------------------------------------------------------------------------
(* What each part of the invariant needs of a step.                          *)

LEMMA LockStep ==
    ASSUME LockHeld, NEW s \in Slots, NEW c, Moves(s, c), here' = here, locked' => locked,
           locked' /\ call[s].owns => c.owns
    PROVE  LockHeld'
<1>1. ASSUME locked' PROVE \E t \in Slots : call'[t].owns
    <2>1. PICK t \in Slots : call[t].owns
        BY <1>1 DEF LockHeld
    <2>2. CASE t = s
        BY <1>1, <2>1, <2>2 DEF Moves
    <2>3. CASE t # s
        BY <2>1, <2>3 DEF Moves, OthersStay
    <2> QED BY <2>2, <2>3
<1> QED BY <1>1 DEF LockHeld

LEMMA RecoveryStep ==
    ASSUME RecoveryIsHandled, RecoversOnce, NEW s \in Slots, NEW c, Moves(s, c),
           recovered' = recovered, handled \subseteq handled',
           Recovering(c) => Recovering(call[s]) /\ c.job = call[s].job
    PROVE  RecoveryIsHandled' /\ RecoversOnce'
<1>1. \A t \in Slots : Recovering(call'[t]) => Recovering(call[t]) /\ call'[t].job = call[t].job
    BY DEF Moves, OthersStay
<1> QED BY <1>1 DEF RecoveryIsHandled, RecoversOnce

LEMMA PollStep ==
    ASSUME PollIsLatest, NEW s \in Slots, NEW c, Moves(s, c), ~Polls(c),
           FreshState(c) => FreshState(call[s]), here' = here,
           activeJob' \in {activeJob, operations.active}, operations' = operations
    PROVE  PollIsLatest'
<1>1. \A t \in Slots : Polls(call'[t]) => call'[t] = call[t]
    BY DEF Moves, OthersStay
<1>2. \A t \in Slots : FreshState(call'[t]) => FreshState(call[t])
    BY DEF Moves, OthersStay
<1> QED BY <1>1, <1>2 DEF PollIsLatest

LEMMA NoPollStep ==
    ASSUME NEW s \in Slots, NEW c, Moves(s, c), ~Polls(c),
           \A t \in Slots \ {s} : ~Polls(call'[t])
    PROVE  PollIsLatest'
BY DEF Moves, PollIsLatest

LEMMA PlanStep ==
    ASSUME OnlyTheRequestedPlan, JobsKept, requested' = requested, Last \in Nat,
           NEW p \in 0 .. Last, plan' = p, p \in {0, plan} \/ Fits(p)
    PROVE  OnlyTheRequestedPlan'
BY DEF OnlyTheRequestedPlan, JobsKept, Fits

LEMMA JobStays ==
    ASSUME job \in Seq(Jobs), job' = job
    PROVE  JobsKept /\ Last' = Last /\ Last \in Nat
BY DEF JobsKept, Last

LEMMA RearmArms ==
    ASSUME Rearm
    PROVE  armed' \in BOOLEAN /\ (armed' => Tracked(activeJob', operations') # 0)
BY DEF Rearm

------------------------------------------------------------------------------
(* The actions, those that leave the screen alone first.                     *)

\* Most of what the screen holds; a number keeps its bound while operations are added.
held == <<requested, here, known, operations, activeJob, jobStatus, plan, outcome, conflict,
          dismissed, handled, armed, recovered>>

LEMMA HeldStays ==
    ASSUME ScreenTyped, JobsKept, UNCHANGED held, CallsTyped',
           loading' \in BOOLEAN, submitting' \in BOOLEAN, locked' \in BOOLEAN
    PROVE  ScreenTyped'
BY DEF ScreenTyped, JobsKept, Last, GoodView, Views, held, Tracked, CallsTyped

\* Operations that begin or end by themselves change nothing on the screen.
LEMMA OperationsStep ==
    ASSUME ScreenInv, OtherAsks \/ OperationEnds
    PROVE  ScreenInv'
<1>1. JobsKept
    <2>1. CASE OtherAsks
        BY <2>1, AskedKeeps, ScreenAssumption DEF OtherAsks, ScreenInv, ScreenTyped, Distinct
    <2>2. CASE OperationEnds
        BY <2>2, EndKeeps DEF ScreenInv, ScreenTyped
    <2> QED BY <2>1, <2>2
<1>2. UNCHANGED <<requested, here, shown, refs, call, recovered>>
    BY DEF OtherAsks, OperationEnds
<1>3. ScreenTyped'
    BY <1>1, <1>2, CallsStay, HeldStays DEF ScreenInv, ScreenTyped, held, shown, refs
<1>4. LockHeld' /\ PollIsLatest' /\ RecoveryIsHandled' /\ RecoversOnce'
    BY <1>2 DEF ScreenInv, LockHeld, PollIsLatest, RecoveryIsHandled, RecoversOnce, shown, refs
<1>5. OnlyTheRequestedPlan'
    BY <1>1, <1>2, PlanStep DEF ScreenInv, ScreenTyped, JobsKept, Last, shown
<1> QED BY <1>3, <1>4, <1>5 DEF ScreenInv

\* The calls move in one slot, and of the rest only what the screen is busy with:
\* what is sent, taken, answered in vain or dropped.
LEMMA CallStep ==
    ASSUME ScreenInv, JobsKept, NEW s \in Slots, NEW c, Moves(s, c), UNCHANGED held,
           loading' \in BOOLEAN, submitting' \in BOOLEAN, locked' \in BOOLEAN,
           ~Polls(c), (FreshState(c) => FreshState(call[s])) \/ OthersOutdated(s),
           locked' => locked, locked' /\ call[s].owns => c.owns,
           Recovering(c) => Recovering(call[s]) /\ c.job = call[s].job
    PROVE  ScreenInv'
<1>1. ScreenTyped'
    BY HeldStays DEF ScreenInv, Moves
<1>2. LockHeld'
    BY LockStep DEF ScreenInv, held
<1>3. RecoveryIsHandled' /\ RecoversOnce'
    BY RecoveryStep DEF ScreenInv, held
<1>4. PollIsLatest'
    BY PollStep, NoPollStep DEF ScreenInv, held, OthersOutdated
<1>5. OnlyTheRequestedPlan'
    BY PlanStep DEF ScreenInv, ScreenTyped, JobsKept, Last, held
<1> QED BY <1>1, <1>2, <1>3, <1>4, <1>5 DEF ScreenInv

\* A call that begins carries nothing.
Blank(c, kind) ==
    /\ c \in CallTypes /\ c.kind = kind /\ c.fresh = (kind \in {"operations", "state"})
    /\ c.owns = FALSE /\ c.job = 0 /\ c.rev = NoRevision /\ c.then = "none"
    /\ c.reply = "none" /\ c.view = NoView

LEMMA CallOfIsBlank ==
    ASSUME NEW kind \in Kinds
    PROVE  Blank(CallOf(kind), kind)
<1> DEFINE c == CallOf(kind)
<1> DEFINE fresh == kind \in {"operations", "state"}
           d == [NoCall EXCEPT !.kind = kind]
<1>1. /\ NoCall \in CallTypes /\ NoCall.owns = FALSE /\ NoCall.job = 0 /\ NoCall.then = "none"
      /\ NoCall.rev = NoRevision /\ NoCall.reply = "none" /\ NoCall.view = NoView
    BY 0 \in Nat, NoCallIsGood DEF GoodCall, NoCall
<1>2. c = [d EXCEPT !.fresh = fresh]
    BY DEF CallOf
<1>3. fresh \in BOOLEAN
    OBVIOUS
<1>4. /\ d \in CallTypes /\ d.kind = kind /\ d.owns = FALSE /\ d.job = 0 /\ d.then = "none"
      /\ d.rev = NoRevision /\ d.reply = "none" /\ d.view = NoView
    BY <1>1 DEF CallTypes
<1> HIDE DEF c, d
<1>5. /\ c \in CallTypes /\ c.kind = kind /\ c.fresh = fresh /\ c.owns = FALSE /\ c.job = 0
      /\ c.then = "none" /\ c.rev = NoRevision /\ c.reply = "none" /\ c.view = NoView
    BY <1>2, <1>3, <1>4 DEF CallTypes
<1> QED BY <1>5 DEF Blank, c

\* What is sent for a click.
LEMMA RequestIsGood ==
    ASSUME NEW n \in Nat, NEW kind \in {"plan", "apply", "rollback", "cancel"},
           NEW r \in Revisions \cup {NoRevision}, NEW j \in 0 .. n, kind = "apply" => j # 0, NEW c,
           \/ c = [CallOf(kind) EXCEPT !.rev = r] /\ kind = "plan"
           \/ c = [CallOf(kind) EXCEPT !.job = j]
    PROVE  GoodCall(c, n) /\ c.owns = FALSE /\ ~Polls(c) /\ ~FreshState(c) /\ ~Recovering(c)
<1> DEFINE d == CallOf(kind)
<1>1. /\ d \in CallTypes /\ d.kind = kind /\ d.owns = FALSE /\ d.job = 0 /\ d.then = "none"
      /\ d.reply = "none" /\ d.view = NoView
    <2>1. kind \in Kinds
        BY DEF Kinds
    <2> QED BY <2>1, CallOfIsBlank DEF Blank
<1>2. GoodView(NoView, n)
    BY DEF GoodView, NoView, Views
<1> HIDE DEF d
<1>3. /\ c \in CallTypes /\ c.kind = kind /\ c.owns = FALSE /\ c.job \in {0, j} /\ c.then = "none"
      /\ c.reply = "none" /\ c.view = NoView /\ (kind # "plan" => c.job = j)
    <2>1. CASE kind = "plan" /\ c = [d EXCEPT !.rev = r]
        BY <1>1, <2>1 DEF CallTypes
    <2>2. CASE c = [d EXCEPT !.job = j]
        BY <1>1, <2>2 DEF CallTypes
    <2> QED BY <2>1, <2>2 DEF d
<1> QED BY <1>2, <1>3 DEF GoodCall, Polls, FreshState, Recovering

LEMMA DroppedStep ==
    ASSUME ScreenInv, NEW s \in Slots, Dropped(s)
    PROVE  ScreenInv'
<1>1. JobsKept /\ Last' \in Nat /\ UNCHANGED held /\ UNCHANGED <<loading, submitting, locked>>
    BY JobStays DEF Dropped, held, shown, refs, ScreenInv, ScreenTyped
<1>2. Moves(s, NoCall)
    BY <1>1, Replaced, NoCallIsGood DEF Dropped, Done, ScreenInv, ScreenTyped
<1>3. ~locked
    BY DEF Dropped, ScreenInv, LockHeld
<1> QED BY <1>1, <1>2, <1>3, CallStep, NoCallIsGood DEF ScreenInv, ScreenTyped

LEMMA ReadStep ==
    ASSUME ScreenInv, NEW s \in Slots, Read(s)
    PROVE  ScreenInv'
<1> DEFINE old == call[s]
           seen == IF old.fresh THEN View ELSE NoView
           c == [old EXCEPT !.reply = "read", !.view = seen]
<1>1. JobsKept /\ Last \in Nat /\ Last' = Last /\ UNCHANGED held /\ UNCHANGED <<loading, submitting, locked>>
    BY JobStays DEF Read, held, shown, refs, ScreenInv, ScreenTyped
<1>2. call' = GoesOn(s, c) /\ old.kind = "state"
    BY DEF Read
<1>3. GoodView(seen, Last)
    <2>1. GoodView(NoView, Last)
        BY <1>1 DEF GoodView, NoView, Views
    <2> QED BY <2>1, ViewIsGood DEF ScreenInv, ScreenTyped
<1>4. GoodCall(old, Last)
    BY DEF ScreenInv, ScreenTyped, CallsTyped
<1> HIDE DEF old, seen
<1>5. /\ GoodCall(c, Last) /\ c.kind = old.kind /\ c.owns = old.owns /\ c.fresh = old.fresh
      /\ c.then = old.then /\ c.job = old.job
    BY <1>2, <1>3, <1>4 DEF GoodCall, GoodView, CallTypes
<1>6. ~Polls(c) /\ (FreshState(c) => FreshState(old)) /\ (Recovering(c) => Recovering(old))
    BY <1>2, <1>5 DEF Polls, FreshState, Recovering
<1> HIDE DEF c
<1>7. Moves(s, c)
    BY <1>1, <1>2, <1>5, Replaced DEF ScreenInv, ScreenTyped
<1> QED BY <1>1, <1>5, <1>6, <1>7, CallStep DEF old, ScreenInv, ScreenTyped

\* The four buttons that send a request.
LEMMA SendStep ==
    ASSUME ScreenInv, NEW s \in Slots,
           \/ \E r \in Distinct : PreparePlan(s, r)
           \/ ApplyPlan(s) \/ Rollback(s) \/ CancelOperation(s)
    PROVE  ScreenInv'
<1>1. Last \in Nat /\ plan \in 0 .. Last /\ Tracked(activeJob, operations) \in 0 .. Last
      /\ operations.latest \in 0 .. Last
    BY DEF ScreenInv, ScreenTyped, Tracked, GoodView, Views, Last
<1>2. \E kind \in {"plan", "apply", "rollback", "cancel"}, r \in Revisions \cup {NoRevision}, j \in 0 .. Last :
        /\ kind = "apply" => j # 0
        /\ \/ kind = "plan" /\ Send(s, [CallOf(kind) EXCEPT !.rev = r])
           \/ Send(s, [CallOf(kind) EXCEPT !.job = j])
    <2>1. CASE \E r \in Distinct : PreparePlan(s, r)
        BY <1>1, <2>1 DEF PreparePlan, Distinct
    <2>2. CASE ApplyPlan(s)
        BY <1>1, <2>2 DEF ApplyPlan
    <2>3. CASE Rollback(s)
        BY <1>1, <2>3 DEF Rollback
    <2>4. CASE CancelOperation(s)
        BY <1>1, <2>4 DEF CancelOperation
    <2> QED BY <2>1, <2>2, <2>3, <2>4
<1>3. PICK c : Send(s, c) /\ GoodCall(c, Last) /\ ~Polls(c) /\ ~FreshState(c) /\ ~Recovering(c)
    BY <1>1, <1>2, RequestIsGood
<1>4. JobsKept /\ Last' = Last /\ UNCHANGED held
    BY <1>3, JobStays DEF Send, held, refs, ScreenInv, ScreenTyped
<1>5. Moves(s, c)
    BY <1>3, <1>4, Replaced DEF Send, ScreenInv, ScreenTyped
<1>6. ~call[s].owns
    BY <1>3, NoCallIsGood DEF Send, Free, NoCall
<1>7. submitting' \in BOOLEAN /\ loading' \in BOOLEAN /\ locked' \in BOOLEAN /\ locked' = locked
    BY <1>3 DEF Send, refs, ScreenInv, ScreenTyped
<1> QED BY <1>3, <1>4, <1>5, <1>6, <1>7, CallStep

\* The answer of the control plane to a request.
AnswerTo(old, reply, n) == [old EXCEPT !.reply = reply, !.view = [NoView EXCEPT !.active = n]]

LEMMA AnswerIsGood ==
    ASSUME NEW m \in Nat, NEW old, GoodCall(old, m), old.kind \in {"plan", "apply", "rollback"},
           NEW reply \in {"queued", "conflict", "refused"}, NEW n \in 0 .. m
    PROVE  LET c == AnswerTo(old, reply, n) IN
           /\ GoodCall(c, m) /\ c.owns = old.owns /\ c.job = old.job
           /\ ~Polls(c) /\ ~FreshState(c) /\ (Recovering(c) => Recovering(old))
<1> DEFINE view == [NoView EXCEPT !.active = n]
           c == [old EXCEPT !.reply = reply, !.view = view]
<1>1. GoodView(view, m)
    BY DEF GoodView, NoView, Views
<1> HIDE DEF view
<1>2. /\ c \in CallTypes /\ c.kind = old.kind /\ c.owns = old.owns /\ c.then = old.then
      /\ c.job = old.job /\ c.reply = reply /\ c.view = view
    BY <1>1 DEF GoodCall, GoodView, CallTypes
<1>3. c = AnswerTo(old, reply, n)
    BY DEF AnswerTo, view
<1> HIDE DEF c
<1>4. GoodCall(c, m)
    BY <1>1, <1>2 DEF GoodCall
<1>5. ~Polls(c) /\ ~FreshState(c) /\ (Recovering(c) => Recovering(old))
    BY <1>2 DEF Polls, FreshState, Recovering
<1> QED BY <1>2, <1>3, <1>4, <1>5

\* The revision that a request asks for.
LEMMA RevisionAsked ==
    ASSUME job \in Seq(Jobs), NEW old, GoodCall(old, Last), old.kind \in {"plan", "apply", "rollback"}
    PROVE  (CASE old.kind = "plan" -> old.rev
              [] old.kind = "apply" -> job[old.job].rev
              [] OTHER -> NoRevision) \in Revisions \cup {NoRevision}
<1>1. old.kind = "plan" => old.rev \in Revisions \cup {NoRevision}
    BY DEF GoodCall, CallTypes
<1>2. ASSUME old.kind = "apply" PROVE job[old.job].rev \in Revisions \cup {NoRevision}
    <2>1. old.job \in Nat /\ old.job <= Last /\ old.job # 0
        BY <1>2 DEF GoodCall, CallTypes
    <2>2. old.job \in 1 .. Len(job)
        BY <2>1 DEF Last
    <2>3. job[old.job] \in Jobs
        BY <2>2
    <2> QED BY <2>3 DEF Jobs
<1> QED BY <1>1, <1>2

\* The control plane takes a request.
LEMMA TakeStep ==
    ASSUME ScreenInv, NEW s \in Slots, Take(s)
    PROVE  ScreenInv'
<1> DEFINE old == call[s]
<1>1. Last \in Nat /\ GoodCall(old, Last) /\ DOMAIN job = 1 .. Last /\ job \in Seq(Jobs)
    BY DEF ScreenInv, ScreenTyped, CallsTyped, Last
<1>2. old.kind \in {"plan", "apply", "rollback"}
    BY DEF Take
<1>3. \E reply \in {"queued", "conflict", "refused"}, n \in 0 .. Last' :
        call' = GoesOn(s, AnswerTo(old, reply, n)) /\ JobsKept
    <2> DEFINE repeated == {n \in DOMAIN job : job[n].of = old.job /\ job[n].kind = old.kind}
               r == CASE old.kind = "plan" -> old.rev
                      [] old.kind = "apply" -> job[old.job].rev
                      [] OTHER -> NoRevision
               of == IF old.kind = "plan" THEN 0 ELSE old.job
    <2>1. \/ /\ repeated # {} /\ call' = GoesOn(s, AnswerTo(old, "queued", CHOOSE n \in repeated : TRUE))
             /\ UNCHANGED job
          \/ Running # 0 /\ call' = GoesOn(s, AnswerTo(old, "conflict", Running)) /\ UNCHANGED job
          \/ call' = GoesOn(s, AnswerTo(old, "refused", 0)) /\ UNCHANGED job
          \/ /\ Last < MaxJobs /\ call' = GoesOn(s, AnswerTo(old, "queued", Last + 1))
             /\ Asked(old.kind, r, of)
        BY DEF Take, AnswerTo
    <2>2. job' = job => JobsKept /\ Last' = Last
        BY <1>1, JobStays
    <2>3. (CHOOSE n \in repeated : TRUE) \in 0 .. Last \/ repeated = {}
        BY <1>1
    <2>4. Running \in 0 .. Last
        BY <1>1 DEF Running
    <2>5. of \in 0 .. MaxJobs \/ ~(Last < MaxJobs)
        BY <1>1, ScreenAssumption DEF GoodCall, CallTypes
    <2>6. r \in Revisions \cup {NoRevision}
        BY <1>1, <1>2, RevisionAsked
    <2> HIDE DEF r, of, repeated
    <2>7. Asked(old.kind, r, of) /\ Last < MaxJobs => JobsKept /\ Last' = Last + 1
        BY <1>1, <1>2, <2>5, <2>6, AskedKeeps
    <2>8. CASE /\ repeated # {} /\ UNCHANGED job
               /\ call' = GoesOn(s, AnswerTo(old, "queued", CHOOSE n \in repeated : TRUE))
        BY <2>2, <2>3, <2>8
    <2>9. CASE call' = GoesOn(s, AnswerTo(old, "conflict", Running)) /\ UNCHANGED job
        BY <2>2, <2>4, <2>9
    <2>10. CASE call' = GoesOn(s, AnswerTo(old, "refused", 0)) /\ UNCHANGED job
        BY <1>1, <2>2, <2>10
    <2>11. CASE /\ Last < MaxJobs /\ call' = GoesOn(s, AnswerTo(old, "queued", Last + 1))
                /\ Asked(old.kind, r, of)
        BY <1>1, <2>7, <2>11
    <2> QED BY <2>1, <2>8, <2>9, <2>10, <2>11
<1>4. PICK reply \in {"queued", "conflict", "refused"}, n \in 0 .. Last' :
        call' = GoesOn(s, AnswerTo(old, reply, n)) /\ JobsKept
    BY <1>3
<1> DEFINE c == AnswerTo(old, reply, n)
<1>5. Last' \in Nat /\ Last <= Last' /\ UNCHANGED held /\ UNCHANGED <<loading, submitting, locked>>
    BY <1>1, <1>4 DEF Take, JobsKept, Last, held, shown, refs
<1>6. GoodCall(old, Last')
    BY <1>1, <1>5, GoodStays
<1>7. /\ GoodCall(c, Last') /\ c.owns = old.owns /\ c.job = old.job
      /\ ~Polls(c) /\ ~FreshState(c) /\ (Recovering(c) => Recovering(old))
    BY <1>2, <1>4, <1>5, <1>6, AnswerIsGood
<1> HIDE DEF c
<1>8. Moves(s, c)
    BY <1>1, <1>4, <1>7, Replaced DEF ScreenInv, ScreenTyped, c
<1> QED BY <1>4, <1>5, <1>7, <1>8, CallStep DEF ScreenInv, ScreenTyped

\* The finally of a request, and of refreshJob.
LEMMA FinallyReleases ==
    ASSUME ScreenInv, NEW s \in Slots, Finally(s), call[s].kind \notin {"job", "state"}
    PROVE  /\ submitting' \in BOOLEAN /\ locked' \in BOOLEAN
           /\ locked' => locked /\ ~call[s].owns
<1>1. GoodCall(call[s], Last) /\ locked \in BOOLEAN /\ submitting \in BOOLEAN
    BY DEF ScreenInv, ScreenTyped, CallsTyped
<1>2. call[s].owns => call[s].then = "recover"
    BY <1>1 DEF GoodCall
<1> QED BY <1>1, <1>2 DEF Finally, Release

LEMMA CallFailsStep ==
    ASSUME ScreenInv, NEW s \in Slots, CallFails(s)
    PROVE  ScreenInv'
<1>1. JobsKept /\ Last' \in Nat /\ UNCHANGED held /\ loading' \in BOOLEAN
    BY JobStays DEF CallFails, held, ScreenInv, ScreenTyped
<1>2. Moves(s, NoCall)
    BY <1>1, Replaced, NoCallIsGood DEF CallFails, Done, ScreenInv, ScreenTyped
<1>3. submitting' \in BOOLEAN /\ locked' \in BOOLEAN /\ (locked' => locked /\ ~call[s].owns)
    <2>1. CASE call[s].kind \in {"operations", "job"}
        BY <2>1 DEF CallFails, Release, ScreenInv, ScreenTyped
    <2>2. CASE call[s].kind \notin {"operations", "job"}
        BY <2>2, FinallyReleases DEF CallFails
    <2> QED BY <2>1, <2>2
<1> QED BY <1>1, <1>2, <1>3, CallStep, NoCallIsGood, JobStays DEF CallFails, ScreenInv, ScreenTyped

LEMMA RefusedStep ==
    ASSUME ScreenInv, NEW s \in Slots, Refused(s)
    PROVE  ScreenInv'
<1>1. JobsKept /\ Last' = Last /\ Last \in Nat /\ UNCHANGED held /\ job' = job
    BY JobStays DEF Refused, held, ScreenInv, ScreenTyped
<1>2. GoodCall(call[s], Last) /\ loading \in BOOLEAN /\ submitting \in BOOLEAN /\ locked \in BOOLEAN
    BY DEF ScreenInv, ScreenTyped, CallsTyped
<1>3. call[s].kind \in {"plan", "apply", "rollback"}
    BY <1>2 DEF GoodCall, Refused
<1>4. CASE call[s].kind = "apply"
    <2> DEFINE d == CallOf("state")
               c == [CallOf("state") EXCEPT !.then = "superseded"]
    <2>1. /\ d \in CallTypes /\ d.kind = "state" /\ d.owns = FALSE /\ d.job = 0
          /\ d.reply = "none" /\ d.view = NoView
        BY CallOfIsBlank DEF Kinds, Blank
    <2>2. GoodView(NoView, Last)
        BY <1>1 DEF GoodView, NoView, Views
    <2> HIDE DEF d
    <2>3. /\ c \in CallTypes /\ c.kind = "state" /\ c.owns = FALSE /\ c.job = 0
          /\ c.then = "superseded" /\ c.reply = "none" /\ c.view = NoView
        BY <2>1 DEF CallTypes, d
    <2>4. call' = [Outdate(call) EXCEPT ![s] = c]
        BY <1>4 DEF Refused
    <2> HIDE DEF c
    <2>5. GoodCall(c, Last) /\ ~Polls(c) /\ ~Recovering(c)
        BY <1>1, <2>2, <2>3 DEF GoodCall, Polls, Recovering
    <2>6. Moves(s, c) /\ OthersOutdated(s)
        BY <1>1, <2>4, <2>5, OutdatedReplaced DEF ScreenInv, ScreenTyped
    <2>7. ~call[s].owns
        BY <1>2, <1>4 DEF GoodCall
    <2>8. loading' \in BOOLEAN /\ submitting' \in BOOLEAN /\ locked' \in BOOLEAN /\ locked' = locked
        BY <1>2, <1>4 DEF Refused
    <2> QED BY <1>1, <2>5, <2>6, <2>7, <2>8, CallStep
<1>5. CASE call[s].kind # "apply"
    <2>1. Moves(s, NoCall)
        BY <1>1, <1>5, Replaced, NoCallIsGood DEF Refused, Done, ScreenInv, ScreenTyped
    <2>2. submitting' \in BOOLEAN /\ locked' \in BOOLEAN /\ (locked' => locked /\ ~call[s].owns)
        BY <1>3, <1>5, FinallyReleases DEF Refused
    <2>3. loading' \in BOOLEAN
        BY <1>2, <1>5 DEF Refused
    <2> QED BY <1>1, <2>1, <2>2, <2>3, CallStep, NoCallIsGood
<1> QED BY <1>4, <1>5

------------------------------------------------------------------------------
(* The actions that change what the screen tracks.                           *)

\* The timer of the job polls runs only while an operation is tracked.
LEMMA RearmIfArms ==
    ASSUME ScreenTyped, NEW replaced \in BOOLEAN, RearmIf(replaced),
           replaced \/ operations' = operations
    PROVE  armed' \in BOOLEAN /\ (armed' => Tracked(activeJob', operations') # 0)
<1>1. CASE replaced \/ activeJob' # activeJob
    BY <1>1, RearmArms DEF RearmIf
<1>2. CASE ~(replaced \/ activeJob' # activeJob)
    BY <1>2 DEF RearmIf, ScreenTyped, Tracked
<1> QED BY <1>1, <1>2

LEMMA Adopted ==
    ASSUME ScreenTyped, NEW view, GoodView(view, Last), NEW ended \in 0 .. Last, Adopt(view, ended)
    PROVE  /\ operations' = view
           /\ activeJob' \in {0, activeJob, view.active}
           /\ ended = 0 /\ view.active = 0 => activeJob' = activeJob
           /\ \E p \in 0 .. Last : plan' = p /\ (p \in {0, plan} \/ Fits(p))
           /\ armed' \in BOOLEAN /\ (armed' => Tracked(activeJob', operations') # 0)
<1>1. operations' = view /\ activeJob' \in {0, activeJob, view.active}
    BY DEF Adopt
<1>2. ended = 0 /\ view.active = 0 => activeJob' = activeJob
    BY DEF Adopt
<1>3. \E p \in 0 .. Last : plan' = p /\ (p \in {0, plan} \/ Fits(p))
    BY DEF Adopt, Reviewable, ScreenTyped, GoodView, Views, Last
<1>4. armed' \in BOOLEAN /\ (armed' => Tracked(activeJob', operations') # 0)
    <2> DEFINE replaced == view.active # 0 \/ operations.active # 0
    <2>1. CASE replaced \/ activeJob' # activeJob
        BY <2>1, RearmArms DEF Adopt, RearmIf
    <2>2. CASE ~(replaced \/ activeJob' # activeJob)
        BY <1>1, <2>2 DEF Adopt, RearmIf, ScreenTyped, Tracked
    <2> QED BY <2>1, <2>2
<1> QED BY <1>1, <1>2, <1>3, <1>4

LEMMA KeepRunningStep ==
    ASSUME ScreenInv, KeepRunning
    PROVE  ScreenInv'
<1>1. JobsKept /\ Last' = Last /\ Last \in Nat
    BY JobStays DEF KeepRunning, ScreenInv, ScreenTyped
<1>2. ScreenTyped'
    BY <1>1, CallsStay DEF KeepRunning, ScreenInv, ScreenTyped, JobsKept, refs, Tracked
<1>3. LockHeld' /\ PollIsLatest' /\ RecoveryIsHandled' /\ RecoversOnce' /\ OnlyTheRequestedPlan'
    BY DEF KeepRunning, refs, ScreenInv, LockHeld, PollIsLatest, RecoveryIsHandled, RecoversOnce,
           OnlyTheRequestedPlan
<1> QED BY <1>2, <1>3 DEF ScreenInv

LEMMA PickRevisionStep ==
    ASSUME ScreenInv, PickRevision
    PROVE  ScreenInv'
<1>1. JobsKept /\ Last' = Last /\ Last \in Nat
    BY JobStays DEF PickRevision, ScreenInv, ScreenTyped
<1>2. CallsTyped'
    BY <1>1, CallsStay DEF PickRevision, ScreenInv, ScreenTyped
<1>3. armed' \in BOOLEAN /\ (armed' => Tracked(activeJob', operations') # 0)
    BY RearmArms DEF PickRevision
<1>4. ScreenTyped'
    BY <1>1, <1>2, <1>3 DEF PickRevision, ScreenInv, ScreenTyped, JobsKept, NoStatus, GoodView, Views
<1>5. LockHeld' /\ PollIsLatest' /\ RecoveryIsHandled' /\ RecoversOnce' /\ OnlyTheRequestedPlan'
    BY DEF PickRevision, ScreenInv, LockHeld, PollIsLatest, RecoveryIsHandled, RecoversOnce,
           OnlyTheRequestedPlan
<1> QED BY <1>4, <1>5 DEF ScreenInv

LEMMA OpenStep ==
    ASSUME ScreenInv, NEW s \in Slots, Open(s)
    PROVE  ScreenInv'
<1> DEFINE c == CallOf("state")
<1>1. JobsKept /\ Last' = Last /\ Last \in Nat
    BY JobStays DEF Open, ScreenInv, ScreenTyped
<1>2. Blank(c, "state")
    BY CallOfIsBlank DEF Kinds
<1>3. call' = GoesOn(s, c)
    BY DEF Open
<1>4. GoodView(NoView, Last)
    BY <1>1 DEF GoodView, NoView, Views
<1> HIDE DEF c
<1>5. GoodCall(c, Last) /\ ~Polls(c) /\ ~Recovering(c)
    BY <1>1, <1>2, <1>4 DEF Blank, GoodCall, Polls, Recovering
<1>6. Moves(s, c)
    BY <1>1, <1>3, <1>5, Replaced DEF ScreenInv, ScreenTyped
<1>7. ScreenTyped'
    BY <1>1, <1>6 DEF Open, Moves, ScreenInv, ScreenTyped, JobsKept, shown, refs, Tracked
<1>8. LockHeld'
    BY DEF Open, refs, ScreenInv, LockHeld
<1>9. PollIsLatest'
    <2>1. \A t \in Slots : ~Polls(call[t])
        BY DEF Open, ScreenInv, PollIsLatest
    <2>2. \A t \in Slots \ {s} : ~Polls(call'[t])
        BY <1>6, <2>1 DEF Moves, OthersStay
    <2> QED BY <1>5, <1>6, <2>2, NoPollStep
<1>10. RecoveryIsHandled' /\ RecoversOnce'
    BY <1>5, <1>6, RecoveryStep DEF Open, refs, ScreenInv
<1>11. OnlyTheRequestedPlan'
    BY DEF Open, shown, ScreenInv, OnlyTheRequestedPlan
<1> QED BY <1>7, <1>8, <1>9, <1>10, <1>11 DEF ScreenInv

LEMMA LeaveStep ==
    ASSUME ScreenInv, Leave
    PROVE  ScreenInv'
<1>1. JobsKept /\ Last' = Last /\ Last \in Nat
    BY JobStays DEF Leave, ScreenInv, ScreenTyped
<1>2. ASSUME NEW t \in Slots
      PROVE  GoodCall(call'[t], Last') /\ ~Polls(call'[t]) /\ ~FreshState(call'[t])
             /\ ~Recovering(call'[t])
    <2> DEFINE old == Outdate(call)[t]
               c == [old EXCEPT !.owns = FALSE]
    <2>1. GoodCall(old, Last) /\ ~Polls(old) /\ ~FreshState(old)
        BY <1>1, OutdateAges DEF ScreenInv, ScreenTyped, CallsTyped
    <2>2. call'[t] = c
        BY DEF Leave
    <2> HIDE DEF old
    <2>3. /\ c \in CallTypes /\ c.kind = old.kind /\ c.owns = FALSE /\ c.job = old.job
          /\ c.then = old.then /\ c.reply = old.reply /\ c.view = old.view /\ c.fresh = old.fresh
        BY <2>1 DEF GoodCall, CallTypes
    <2> HIDE DEF c
    <2> QED BY <1>1, <2>1, <2>2, <2>3 DEF GoodCall, Polls, FreshState, Recovering
<1>3. CallsTyped'
    BY <1>2 DEF CallsTyped, Leave
<1>4. GoodView(operations', Last')
    BY <1>1 DEF GoodView, NoView, Views, Leave
<1>5. ScreenTyped'
    <2>1. /\ job' \in Seq(Jobs) /\ requested' \in Revisions \cup {NoRevision}
          /\ jobStatus'.job = 0 /\ 0 \in 0 .. Last'
        BY <1>1 DEF Leave, ScreenInv, ScreenTyped, JobsKept, NoStatus
    <2> QED BY <1>3, <1>4, <2>1 DEF Leave, ScreenTyped
<1>6. LockHeld' /\ PollIsLatest' /\ OnlyTheRequestedPlan'
    BY <1>2 DEF Leave, LockHeld, PollIsLatest, OnlyTheRequestedPlan
<1>7. RecoveryIsHandled' /\ RecoversOnce'
    BY <1>2 DEF Leave, RecoveryIsHandled, RecoversOnce
<1> QED BY <1>5, <1>6, <1>7 DEF ScreenInv

LEMMA PollOperationsStep ==
    ASSUME ScreenInv, NEW s \in Slots, PollOperations(s)
    PROVE  ScreenInv'
<1> DEFINE d == CallOf("operations")
           view == View
           c == [d EXCEPT !.reply = "read", !.view = view]
<1>1. JobsKept /\ Last' = Last /\ Last \in Nat /\ UNCHANGED held
    BY JobStays DEF PollOperations, held, shown, refs, ScreenInv, ScreenTyped
<1>2. Blank(d, "operations")
    BY CallOfIsBlank DEF Kinds
<1>3. call' = [Outdate(call) EXCEPT ![s] = c]
    BY DEF PollOperations
<1>4. GoodView(view, Last) /\ view.active \in {0, Last}
    BY ViewIsGood DEF ScreenInv, ScreenTyped
<1> HIDE DEF d, view
<1>5. /\ c \in CallTypes /\ c.kind = "operations" /\ c.owns = FALSE /\ c.job = 0
      /\ c.then = "none" /\ c.reply = "read" /\ c.view = view
    BY <1>2, <1>4 DEF Blank, CallTypes, GoodView
<1> HIDE DEF c
<1>6. GoodCall(c, Last) /\ ~FreshState(c) /\ ~Recovering(c)
    BY <1>1, <1>4, <1>5 DEF GoodCall, FreshState, Recovering
<1>7. Moves(s, c) /\ OthersOutdated(s)
    BY <1>1, <1>3, <1>6, OutdatedReplaced DEF PollOperations, ScreenInv, ScreenTyped
<1>8. ScreenTyped'
    BY <1>1, <1>7, HeldStays DEF PollOperations, shown, refs, Moves, ScreenInv, ScreenTyped
<1>9. LockHeld'
    BY <1>7, LockStep, NoCallIsGood DEF PollOperations, Free, refs, ScreenInv
<1>10. RecoveryIsHandled' /\ RecoversOnce'
    BY <1>6, <1>7, RecoveryStep DEF PollOperations, refs, ScreenInv
<1>11. PollIsLatest'
    <2>1. activeJob <= Last /\ operations.active <= Last
        BY <1>1 DEF ScreenInv, ScreenTyped, GoodView
    <2>2. call'[s].view.active \in {0, Last}
        BY <1>4, <1>5, <1>7 DEF Moves
    <2>3. \A t \in Slots : (Polls(call'[t]) => t = s) /\ ~FreshState(call'[t])
        BY <1>6, <1>7 DEF Moves, OthersOutdated
    <2>4. here' /\ activeJob' = activeJob /\ operations' = operations
        BY DEF PollOperations, shown
    <2> QED BY <1>1, <2>1, <2>2, <2>3, <2>4 DEF PollIsLatest
<1>12. OnlyTheRequestedPlan'
    BY <1>1 DEF PollOperations, shown, ScreenInv, OnlyTheRequestedPlan
<1> QED BY <1>8, <1>9, <1>10, <1>11, <1>12 DEF ScreenInv

LEMMA PollJobStep ==
    ASSUME ScreenInv, NEW s \in Slots, PollJob(s)
    PROVE  ScreenInv'
<1>1. JobsKept /\ Last' = Last /\ Last \in Nat /\ job' = job /\ locked \in BOOLEAN
    BY JobStays DEF PollJob, ScreenInv, ScreenTyped
<1>2. CASE locked
    <2>1. call' = call /\ locked' = TRUE /\ armed' = FALSE
        BY <1>2 DEF PollJob
    <2>2. CallsTyped'
        BY <1>1, <2>1, CallsStay DEF ScreenInv, ScreenTyped
    <2>3. ScreenTyped'
        BY <1>1, <2>1, <2>2 DEF PollJob, shown, ScreenInv, ScreenTyped, JobsKept
    <2>4. LockHeld'
        BY <1>2, <2>1 DEF PollJob, ScreenInv, LockHeld
    <2>5. PollIsLatest' /\ RecoveryIsHandled' /\ RecoversOnce' /\ OnlyTheRequestedPlan'
        BY <2>1 DEF PollJob, shown, ScreenInv, PollIsLatest, RecoveryIsHandled, RecoversOnce,
                    OnlyTheRequestedPlan
    <2> QED BY <2>3, <2>4, <2>5 DEF ScreenInv
<1>3. CASE ~locked
    <2> DEFINE d == CallOf("job")
               j == Tracked(activeJob, operations)
               c == [d EXCEPT !.job = j, !.owns = TRUE]
    <2>1. Blank(d, "job")
        BY CallOfIsBlank DEF Kinds
    <2>2. call' = GoesOn(s, c) /\ Free(s) /\ locked' = TRUE /\ armed' = FALSE
        BY <1>3 DEF PollJob
    <2>3. j \in 0 .. Last /\ j # 0 /\ GoodView(NoView, Last)
        BY <1>1 DEF PollJob, ScreenInv, ScreenTyped, GoodView, Views, Tracked, NoView
    <2> HIDE DEF d, j
    <2>4. /\ c \in CallTypes /\ c.kind = "job" /\ c.owns = TRUE /\ c.job = j
          /\ c.then = "none" /\ c.reply = "none" /\ c.view = NoView
        <3>1. j \in Nat
            BY <1>1, <2>3
        <3> QED BY <2>1, <3>1 DEF Blank, CallTypes
    <2> HIDE DEF c
    <2>5. GoodCall(c, Last) /\ ~Polls(c) /\ ~FreshState(c) /\ ~Recovering(c) /\ c.owns
        BY <1>1, <2>3, <2>4 DEF GoodCall, Polls, FreshState, Recovering
    <2>6. Moves(s, c)
        BY <1>1, <2>2, <2>5, Replaced DEF ScreenInv, ScreenTyped
    <2>7. ScreenTyped'
        BY <1>1, <2>2, <2>6 DEF PollJob, shown, Moves, ScreenInv, ScreenTyped, JobsKept
    <2>8. LockHeld'
        BY <2>5, <2>6 DEF PollJob, LockHeld, Moves
    <2>9. RecoveryIsHandled' /\ RecoversOnce'
        BY <2>5, <2>6, RecoveryStep DEF PollJob, ScreenInv
    <2>10. PollIsLatest'
        BY <2>5, <2>6, PollStep DEF PollJob, shown, ScreenInv
    <2>11. OnlyTheRequestedPlan'
        BY DEF PollJob, shown, ScreenInv, OnlyTheRequestedPlan
    <2> QED BY <2>7, <2>8, <2>9, <2>10, <2>11 DEF ScreenInv
<1> QED BY <1>1, <1>2, <1>3

LEMMA OperationsLandStep ==
    ASSUME ScreenInv, NEW s \in Slots, OperationsLand(s)
    PROVE  ScreenInv'
<1>1. JobsKept /\ Last' = Last /\ Last \in Nat /\ job' = job
    BY JobStays DEF OperationsLand, ScreenInv, ScreenTyped
<1>2. GoodCall(call[s], Last) /\ Polls(call[s]) /\ GoodView(call[s].view, Last)
    BY DEF OperationsLand, Answered, Polls, GoodCall, ScreenInv, ScreenTyped, CallsTyped
<1>3. /\ operations' = call[s].view /\ activeJob' \in {0, activeJob, call[s].view.active}
      /\ \E p \in 0 .. Last : plan' = p /\ (p \in {0, plan} \/ Fits(p))
      /\ armed' \in BOOLEAN /\ (armed' => Tracked(activeJob', operations') # 0)
    BY <1>1, <1>2, Adopted, 0 \in 0 .. Last DEF OperationsLand, ScreenInv
<1>4. Moves(s, NoCall)
    BY <1>1, Replaced, NoCallIsGood DEF OperationsLand, Done, ScreenInv, ScreenTyped
<1>5. ScreenTyped'
    BY <1>1, <1>2, <1>3, <1>4 DEF OperationsLand, Moves, ScreenInv, ScreenTyped, JobsKept, GoodView, Views
<1>6. ~call[s].owns
    BY <1>2 DEF GoodCall, Polls
<1>7. LockHeld'
    BY <1>4, <1>6, LockStep DEF OperationsLand, ScreenInv
<1>8. RecoveryIsHandled' /\ RecoversOnce'
    BY <1>4, NoCallIsGood, RecoveryStep DEF OperationsLand, ScreenInv
<1>9. PollIsLatest'
    <2>1. \A t \in Slots \ {s} : ~Polls(call[t])
        BY <1>2 DEF ScreenInv, PollIsLatest
    <2>2. \A t \in Slots \ {s} : ~Polls(call'[t])
        BY <1>4, <2>1 DEF Moves, OthersStay
    <2> QED BY <1>4, <2>2, NoPollStep, NoCallIsGood
<1>10. OnlyTheRequestedPlan'
    BY <1>1, <1>3, PlanStep DEF OperationsLand, ScreenInv
<1> QED BY <1>5, <1>7, <1>8, <1>9, <1>10 DEF ScreenInv

\* An operation that ended for the first time is handled, once.
LEMMA EndIsHandled ==
    ASSUME RecoveryIsHandled, RecoversOnce, NEW s \in Slots, NEW c, Moves(s, c), NEW j, j \notin handled,
           recovered' = recovered, handled' = handled \cup {j}, c.job = j
    PROVE  RecoveryIsHandled' /\ RecoversOnce'
<1>1. \A t \in Slots \ {s} : Recovering(call'[t]) => Recovering(call[t]) /\ call'[t].job = call[t].job
    BY DEF Moves, OthersStay
<1>2. call'[s].job = j
    BY DEF Moves
<1>3. RecoversOnce'
    BY DEF RecoversOnce
<1>4. \A n \in DOMAIN recovered : recovered[n] \in handled /\ recovered[n] # j
    BY DEF RecoveryIsHandled
<1>5. \A t \in Slots \ {s} : Recovering(call'[t]) =>
        /\ call'[t].job \in handled /\ call'[t].job # j
        /\ \A n \in DOMAIN recovered : recovered[n] # call'[t].job
        /\ \A u \in Slots \ {s} : Recovering(call'[u]) /\ call'[u].job = call'[t].job => u = t
    BY <1>1 DEF RecoveryIsHandled
<1>6. RecoveryIsHandled'
    BY <1>2, <1>4, <1>5 DEF RecoveryIsHandled
<1> QED BY <1>3, <1>6

LEMMA JobLandsStep ==
    ASSUME ScreenInv, NEW s \in Slots, JobLands(s)
    PROVE  ScreenInv'
<1> DEFINE old == call[s]
           status == [job |-> old.job, state |-> job[old.job].state]
<1>1. JobsKept /\ Last' = Last /\ Last \in Nat /\ job' = job
    BY JobStays DEF JobLands, ScreenInv, ScreenTyped
<1>2. GoodCall(old, Last) /\ old.kind = "job" /\ old.job \in 0 .. Last /\ old.job # 0
    BY DEF JobLands, GoodCall, CallTypes, ScreenInv, ScreenTyped, CallsTyped
<1>3. /\ armed' \in BOOLEAN /\ (armed' => Tracked(activeJob', operations') # 0)
      /\ jobStatus'.job = old.job
    BY RearmArms DEF JobLands
<1>4. CASE Settled(status) /\ ~SeenEnded(old.job)
    <2> DEFINE d == CallOf("state")
               c == [d EXCEPT !.job = old.job, !.then = "ended", !.owns = old.owns]
    <2>1. Blank(d, "state")
        BY CallOfIsBlank DEF Kinds
    <2>2. /\ call' = [Outdate(call) EXCEPT ![s] = c]
          /\ handled' = handled \cup {old.job} /\ locked' = locked /\ loading' = TRUE
        BY <1>4 DEF JobLands
    <2>3. /\ \E p \in 0 .. Last : plan' = p /\ (p \in {0, plan} \/ Fits(p))
          /\ outcome' \in {"none", "receipt", "restored"}
        <3>1. EndShown(old.job, status.state)
            BY <1>4 DEF JobLands
        <3>2. plan' \in {0, plan} \/ (plan' = old.job /\ Fits(old.job))
            BY <3>1 DEF EndShown
        <3>3. outcome' \in {outcome, "none", "receipt", "restored"}
            BY <3>1 DEF EndShown
        <3> QED BY <1>1, <1>2, <3>2, <3>3 DEF ScreenInv, ScreenTyped
    <2>4. old.owns \in BOOLEAN /\ old.job \in Nat /\ GoodView(NoView, Last)
        BY <1>1, <1>2 DEF GoodCall, CallTypes, GoodView, NoView, Views
    <2> HIDE DEF d
    <2>5. /\ c \in CallTypes /\ c.kind = "state" /\ c.owns = old.owns /\ c.job = old.job
          /\ c.then = "ended" /\ c.reply = "none" /\ c.view = NoView
        BY <2>1, <2>4 DEF Blank, CallTypes
    <2> HIDE DEF c
    <2>6. GoodCall(c, Last) /\ ~Polls(c)
        BY <1>1, <1>2, <2>4, <2>5 DEF GoodCall, Polls
    <2>7. Moves(s, c) /\ OthersOutdated(s)
        BY <1>1, <2>2, <2>6, OutdatedReplaced DEF ScreenInv, ScreenTyped
    <2>8. ScreenTyped'
        BY <1>1, <1>2, <1>3, <2>2, <2>3, <2>7
        DEF JobLands, Moves, ScreenInv, ScreenTyped, JobsKept, GoodView, Views
    <2>9. LockHeld'
        BY <2>2, <2>5, <2>7, LockStep DEF JobLands, ScreenInv
    <2>10. RecoveryIsHandled' /\ RecoversOnce'
        BY <1>4, <2>2, <2>5, <2>7, EndIsHandled DEF JobLands, ScreenInv, SeenEnded
    <2>11. PollIsLatest'
        BY <2>6, <2>7, NoPollStep DEF OthersOutdated
    <2>12. OnlyTheRequestedPlan'
        BY <1>1, <2>3, PlanStep DEF JobLands, ScreenInv
    <2> QED BY <2>8, <2>9, <2>10, <2>11, <2>12 DEF ScreenInv
<1>5. CASE ~(Settled(status) /\ ~SeenEnded(old.job))
    <2>1. call' = Done(s) /\ Release(s) /\ UNCHANGED <<handled, plan, outcome, loading>>
        BY <1>5 DEF JobLands
    <2>2. Moves(s, NoCall)
        BY <1>1, <2>1, Replaced, NoCallIsGood DEF Done, ScreenInv, ScreenTyped
    <2>3. locked' \in BOOLEAN /\ (locked' => locked /\ ~old.owns)
        BY <2>1 DEF Release, ScreenInv, ScreenTyped
    <2>4. ScreenTyped'
        BY <1>1, <1>2, <1>3, <2>1, <2>2, <2>3
        DEF JobLands, Moves, ScreenInv, ScreenTyped, JobsKept, GoodView, Views
    <2>5. LockHeld'
        BY <2>2, <2>3, LockStep DEF JobLands, ScreenInv
    <2>6. RecoveryIsHandled' /\ RecoversOnce'
        BY <2>1, <2>2, NoCallIsGood, RecoveryStep DEF JobLands, ScreenInv
    <2>7. PollIsLatest'
        BY <1>1, <2>2, NoCallIsGood, PollStep DEF JobLands, ScreenInv
    <2>8. OnlyTheRequestedPlan'
        BY <1>1, <2>1 DEF JobLands, ScreenInv, OnlyTheRequestedPlan
    <2> QED BY <2>4, <2>5, <2>6, <2>7, <2>8 DEF ScreenInv
<1> QED BY <1>4, <1>5

\* The operation that ended is recovered: none did before, and none does at once.
LEMMA RecoveryBegins ==
    ASSUME RecoveryIsHandled, RecoversOnce, NEW s \in Slots, NEW c, Moves(s, c), ~Recovering(c),
           Recovering(call[s]), call[s].job \in Nat, handled' = handled,
           recovered' = Append(recovered, call[s].job)
    PROVE  RecoveryIsHandled' /\ RecoversOnce'
<1> DEFINE j == call[s].job
<1>1. \A t \in Slots : Recovering(call'[t]) => t # s /\ Recovering(call[t]) /\ call'[t].job = call[t].job
    BY DEF Moves, OthersStay
<1>2. /\ recovered \in Seq(Nat) /\ j \in handled
      /\ \A n \in DOMAIN recovered : recovered[n] \in handled /\ recovered[n] # j
    BY DEF RecoveryIsHandled
<1>3. /\ recovered' \in Seq(Nat) /\ DOMAIN recovered' = 1 .. Len(recovered) + 1
      /\ recovered'[Len(recovered) + 1] = j
      /\ DOMAIN recovered = 1 .. Len(recovered) /\ Len(recovered) \in Nat
      /\ \A n \in 1 .. Len(recovered) : recovered'[n] = recovered[n]
    BY <1>2
<1>4. RecoversOnce'
    BY <1>2, <1>3 DEF RecoversOnce
<1>5. \A n \in DOMAIN recovered' : recovered'[n] \in handled
    BY <1>2, <1>3
<1>6. \A t \in Slots : Recovering(call'[t]) => call'[t].job # j
    BY <1>1 DEF RecoveryIsHandled
<1>7. \A t \in Slots : Recovering(call'[t]) =>
        /\ call'[t].job \in handled
        /\ \A n \in DOMAIN recovered' : recovered'[n] # call'[t].job
        /\ \A u \in Slots : Recovering(call'[u]) /\ call'[u].job = call'[t].job => u = t
    BY <1>1, <1>3, <1>6 DEF RecoveryIsHandled
<1> QED BY <1>3, <1>4, <1>5, <1>7 DEF RecoveryIsHandled

LEMMA StateReturnsStep ==
    ASSUME ScreenInv, NEW s \in Slots, NEW read \in BOOLEAN, StateReturns(s, read)
    PROVE  ScreenInv'
<1> DEFINE old == call[s]
           ended == IF old.then = "ended" THEN old.job ELSE 0
           fresh == read /\ old.fresh
<1>1. JobsKept /\ Last' = Last /\ Last \in Nat /\ job' = job
    BY JobStays DEF StateReturns, ScreenInv, ScreenTyped
<1>2. GoodCall(old, Last) /\ old.kind = "state" /\ ended \in 0 .. Last
      /\ old.job \in 0 .. Last /\ GoodView(old.view, Last)
    BY <1>1 DEF StateReturns, Answered, GoodCall, CallTypes, ScreenInv, ScreenTyped, CallsTyped
<1>3. /\ \E p \in 0 .. Last : plan' = p /\ (p \in {0, plan} \/ Fits(p))
      /\ activeJob' \in 0 .. Last /\ GoodView(operations', Last)
      /\ armed' \in BOOLEAN /\ (armed' => Tracked(activeJob', operations') # 0)
      /\ ~fresh => operations' = operations /\ activeJob' \in {activeJob, operations.active}
    <2>0. /\ activeJob \in 0 .. Last /\ operations.active \in 0 .. Last /\ old.view.active \in 0 .. Last
          /\ plan \in 0 .. Last /\ 0 \in 0 .. Last /\ GoodView(operations, Last)
        BY <1>1, <1>2 DEF ScreenInv, ScreenTyped, GoodView, Views
    <2>1. CASE fresh
        <3>1. Adopt(old.view, ended)
            BY <2>1 DEF StateReturns
        <3> HIDE DEF ended
        <3>2. /\ operations' = old.view
              /\ activeJob' \in {0, activeJob, old.view.active}
              /\ \E p \in 0 .. Last : plan' = p /\ (p \in {0, plan} \/ Fits(p))
              /\ armed' \in BOOLEAN /\ (armed' => Tracked(activeJob', operations') # 0)
            BY <1>2, <3>1, Adopted DEF ScreenInv
        <3> QED BY <1>2, <2>0, <2>1, <3>2
    <2>2. CASE ~fresh
        <3>1. /\ activeJob' \in {activeJob, operations.active}
              /\ operations' = operations /\ plan' = plan /\ RearmIf(FALSE)
            BY <2>2 DEF StateReturns
        <3>2. armed' \in BOOLEAN /\ (armed' => Tracked(activeJob', operations') # 0)
            BY <3>1, RearmIfArms DEF ScreenInv
        <3> QED BY <1>1, <2>0, <3>1, <3>2
    <2> QED BY <2>1, <2>2
<1>4. /\ loading' \in BOOLEAN /\ submitting' \in BOOLEAN /\ known' \in BOOLEAN
      /\ UNCHANGED <<jobStatus, requested, here, outcome, conflict, dismissed, handled>>
    BY DEF StateReturns, ScreenInv, ScreenTyped
<1>5. \E c : /\ GoodCall(c, Last) /\ ~Polls(c) /\ ~FreshState(c) /\ ~Recovering(c)
             /\ call' = GoesOn(s, c)
             /\ locked' \in BOOLEAN /\ (locked' => locked) /\ (locked' /\ old.owns => c.owns)
             /\ \/ recovered' = recovered
                \/ recovered' = Append(recovered, old.job) /\ Recovering(old)
    <2>1. CASE Recovers(old)
        <3> DEFINE d == CallOf("plan")
                   r == job[old.job].rev
                   c == [d EXCEPT !.job = old.job, !.owns = old.owns, !.rev = r, !.then = "recover"]
        <3>1. Blank(d, "plan")
            BY CallOfIsBlank DEF Kinds
        <3>2. call' = GoesOn(s, c) /\ locked' = locked
              /\ recovered' = IF old.owns THEN Append(recovered, old.job) ELSE recovered
            BY <2>1 DEF StateReturns
        <3>3. old.then = "ended" /\ old.job # 0 /\ old.job \in Nat /\ old.owns \in BOOLEAN
            BY <1>2, <2>1 DEF Recovers, GoodCall, CallTypes
        <3>4. r \in Revisions \cup {NoRevision}
            <4>1. old.job \in 1 .. Len(job)
                BY <1>2, <3>3 DEF Last
            <4>2. job[old.job] \in Jobs
                BY <4>1 DEF ScreenInv, ScreenTyped
            <4> QED BY <4>2 DEF Jobs
        <3>5. GoodView(NoView, Last)
            BY <1>1 DEF GoodView, NoView, Views
        <3> HIDE DEF d, r
        <3>6. /\ c \in CallTypes /\ c.kind = "plan" /\ c.owns = old.owns /\ c.job = old.job
              /\ c.then = "recover" /\ c.reply = "none" /\ c.view = NoView
            BY <3>1, <3>3, <3>4 DEF Blank, CallTypes
        <3> HIDE DEF c
        <3>7. GoodCall(c, Last) /\ ~Polls(c) /\ ~FreshState(c) /\ ~Recovering(c)
            BY <1>1, <1>2, <3>5, <3>6 DEF GoodCall, Polls, FreshState, Recovering
        <3>8. recovered' = recovered \/ (recovered' = Append(recovered, old.job) /\ Recovering(old))
            BY <3>2, <3>3 DEF Recovering
        <3>9. locked' \in BOOLEAN /\ (locked' => locked) /\ (locked' /\ old.owns => c.owns)
            BY <3>2, <3>6 DEF ScreenInv, ScreenTyped
        <3> QED BY <3>2, <3>7, <3>8, <3>9
    <2>2. CASE ~Recovers(old)
        <3>1. call' = GoesOn(s, NoCall) /\ Release(s) /\ recovered' = recovered
            BY <2>2 DEF StateReturns, Done
        <3>2. locked' \in BOOLEAN /\ (locked' => locked /\ ~old.owns)
            BY <3>1 DEF Release, ScreenInv, ScreenTyped
        <3> QED BY <1>1, <3>1, <3>2, NoCallIsGood
    <2> QED BY <2>1, <2>2
<1>6. PICK c : /\ GoodCall(c, Last) /\ ~Polls(c) /\ ~FreshState(c) /\ ~Recovering(c)
               /\ call' = GoesOn(s, c)
               /\ locked' \in BOOLEAN /\ (locked' => locked) /\ (locked' /\ old.owns => c.owns)
               /\ \/ recovered' = recovered
                  \/ recovered' = Append(recovered, old.job) /\ Recovering(old)
    BY <1>5
<1>7. Moves(s, c)
    BY <1>1, <1>6, Replaced DEF ScreenInv, ScreenTyped
<1>8. ScreenTyped'
    BY <1>1, <1>3, <1>4, <1>6, <1>7 DEF Moves, ScreenInv, ScreenTyped, JobsKept
<1>9. LockHeld'
    BY <1>4, <1>6, <1>7, LockStep DEF ScreenInv
<1>10. RecoveryIsHandled' /\ RecoversOnce'
    <2>1. CASE recovered' = recovered
        BY <1>4, <1>6, <1>7, <2>1, RecoveryStep DEF ScreenInv
    <2>2. CASE recovered' = Append(recovered, old.job) /\ Recovering(old)
        <3>1. old.job \in Nat
            BY <1>2 DEF GoodCall, CallTypes
        <3> QED BY <1>4, <1>6, <1>7, <2>2, <3>1, RecoveryBegins DEF ScreenInv
    <2> QED BY <1>6, <2>1, <2>2
<1>11. PollIsLatest'
    <2>1. CASE fresh
        <3>1. \A t \in Slots : ~Polls(call[t])
            BY <1>2, <2>1 DEF FreshState, ScreenInv, PollIsLatest
        <3>2. \A t \in Slots \ {s} : ~Polls(call'[t])
            BY <1>7, <3>1 DEF Moves, OthersStay
        <3> QED BY <1>6, <1>7, <3>2, NoPollStep
    <2>2. CASE ~fresh
        BY <1>3, <1>4, <1>6, <1>7, <2>2, PollStep DEF ScreenInv
    <2> QED BY <2>1, <2>2
<1>12. OnlyTheRequestedPlan'
    BY <1>1, <1>3, <1>4, PlanStep DEF ScreenInv
<1> QED BY <1>8, <1>9, <1>10, <1>11, <1>12 DEF ScreenInv

LEMMA QueuedStep ==
    ASSUME ScreenInv, NEW s \in Slots, Queued(s)
    PROVE  ScreenInv'
<1> DEFINE old == call[s]
<1>1. JobsKept /\ Last' = Last /\ Last \in Nat /\ job' = job
    BY JobStays DEF Queued, ScreenInv, ScreenTyped
<1>2. GoodCall(old, Last) /\ old.kind \in {"plan", "apply", "rollback"} /\ old.view.active \in 0 .. Last
    BY DEF Queued, GoodCall, GoodView, Views, ScreenInv, ScreenTyped, CallsTyped
<1>3. Moves(s, NoCall) /\ OthersOutdated(s)
    BY <1>1, OutdatedDone DEF Queued, ScreenInv, ScreenTyped
<1>4. submitting' \in BOOLEAN /\ locked' \in BOOLEAN /\ (locked' => locked /\ ~old.owns)
    BY <1>2, FinallyReleases DEF Queued
<1>5. armed' \in BOOLEAN /\ (armed' => Tracked(activeJob', operations') # 0)
    BY RearmArms DEF Queued
<1>6. /\ plan' \in {0, plan} /\ dismissed' \in {0, dismissed} /\ outcome' \in {"none", outcome}
      /\ jobStatus'.job = old.view.active /\ activeJob' = old.view.active
    BY DEF Queued
<1>7. ScreenTyped'
    BY <1>1, <1>2, <1>3, <1>4, <1>5, <1>6 DEF Queued, Moves, ScreenInv, ScreenTyped, JobsKept
<1>8. LockHeld'
    BY <1>3, <1>4, LockStep DEF Queued, ScreenInv
<1>9. RecoveryIsHandled' /\ RecoversOnce'
    BY <1>3, RecoveryStep, NoCallIsGood DEF Queued, ScreenInv
<1>10. PollIsLatest'
    BY <1>1, <1>3, NoPollStep, NoCallIsGood DEF OthersOutdated
<1>11. OnlyTheRequestedPlan'
    BY <1>1, <1>6 DEF Queued, ScreenInv, OnlyTheRequestedPlan
<1> QED BY <1>7, <1>8, <1>9, <1>10, <1>11 DEF ScreenInv

LEMMA ConflictsStep ==
    ASSUME ScreenInv, NEW s \in Slots, Conflicts(s)
    PROVE  ScreenInv'
<1> DEFINE old == call[s]
           n == old.view.active
<1>1. JobsKept /\ Last' = Last /\ Last \in Nat /\ job' = job
    BY JobStays DEF Conflicts, ScreenInv, ScreenTyped
<1>2. GoodCall(old, Last) /\ old.kind \in {"plan", "apply", "rollback"} /\ n \in 0 .. Last
    BY DEF Conflicts, GoodCall, GoodView, Views, ScreenInv, ScreenTyped, CallsTyped
<1>3. Moves(s, NoCall) /\ OthersOutdated(s)
    BY <1>1, OutdatedDone DEF Conflicts, ScreenInv, ScreenTyped
<1>4. submitting' \in BOOLEAN /\ locked' \in BOOLEAN /\ (locked' => locked /\ ~old.owns)
    BY <1>2, FinallyReleases DEF Conflicts
<1>5. armed' \in BOOLEAN /\ (armed' => Tracked(activeJob', operations') # 0)
    BY RearmArms DEF Conflicts
<1>6. GoodView(operations', Last)
    BY <1>1, <1>2 DEF Conflicts, ScreenInv, ScreenTyped, GoodView, Views
<1>7. ScreenTyped'
    BY <1>1, <1>2, <1>3, <1>4, <1>5, <1>6 DEF Conflicts, Moves, ScreenInv, ScreenTyped, JobsKept
<1>8. LockHeld'
    BY <1>3, <1>4, LockStep DEF Conflicts, ScreenInv
<1>9. RecoveryIsHandled' /\ RecoversOnce'
    BY <1>3, RecoveryStep, NoCallIsGood DEF Conflicts, ScreenInv
<1>10. PollIsLatest'
    BY <1>1, <1>3, NoPollStep, NoCallIsGood DEF OthersOutdated
<1>11. OnlyTheRequestedPlan'
    BY <1>1 DEF Conflicts, ScreenInv, OnlyTheRequestedPlan
<1> QED BY <1>7, <1>8, <1>9, <1>10, <1>11 DEF ScreenInv

LEMMA CancelLandsStep ==
    ASSUME ScreenInv, NEW s \in Slots, CancelLands(s)
    PROVE  ScreenInv'
<1> DEFINE old == call[s]
<1>1. JobsKept /\ Last' = Last /\ Last \in Nat /\ job' = job
    BY JobStays DEF CancelLands, ScreenInv, ScreenTyped
<1>2. Moves(s, NoCall) /\ OthersOutdated(s)
    BY <1>1, OutdatedDone DEF CancelLands, ScreenInv, ScreenTyped
<1>3. submitting' \in BOOLEAN /\ locked' \in BOOLEAN /\ (locked' => locked /\ ~old.owns)
    BY FinallyReleases DEF CancelLands
<1>4. armed' \in BOOLEAN /\ (armed' => Tracked(activeJob', operations') # 0)
    <2> DEFINE replaced == jobStatus.job = old.job \/ operations.active = old.job
    <2>1. replaced \in BOOLEAN /\ RearmIf(replaced) /\ operations' = operations
        BY DEF CancelLands
    <2> HIDE DEF replaced
    <2> QED BY <2>1, RearmIfArms DEF ScreenInv
<1>5. ScreenTyped'
    BY <1>1, <1>2, <1>3, <1>4 DEF CancelLands, Moves, ScreenInv, ScreenTyped, JobsKept
<1>6. LockHeld'
    BY <1>2, <1>3, LockStep DEF CancelLands, ScreenInv
<1>7. RecoveryIsHandled' /\ RecoversOnce'
    BY <1>2, RecoveryStep, NoCallIsGood DEF CancelLands, ScreenInv
<1>8. PollIsLatest'
    BY <1>1, <1>2, NoPollStep, NoCallIsGood DEF OthersOutdated
<1>9. OnlyTheRequestedPlan'
    BY <1>1 DEF CancelLands, ScreenInv, OnlyTheRequestedPlan
<1> QED BY <1>5, <1>6, <1>7, <1>8, <1>9 DEF ScreenInv

------------------------------------------------------------------------------
(* The theorems.                                                             *)

LEMMA ScreenStart == Init => ScreenInv
<1> SUFFICES ASSUME Init PROVE ScreenInv
    OBVIOUS
<1> DEFINE apply == [kind |-> "apply", rev |-> NoRevision, of |-> 0, state |-> "succeeded"]
<1>1. apply \in Jobs
    BY ScreenAssumption DEF Jobs, Ends
<1>2. job \in Seq(Jobs) /\ Last \in Nat
    <2>1. job \in {<<>>, <<apply>>}
        BY DEF Init
    <2>2. <<>> \in Seq(Jobs) /\ <<apply>> \in Seq(Jobs)
        BY <1>1
    <2> QED BY <2>1, <2>2 DEF Last
<1>3. \A s \in Slots : /\ GoodCall(call[s], Last) /\ ~call[s].owns /\ ~Polls(call[s])
                       /\ ~Recovering(call[s])
    BY <1>2, NoCallIsGood DEF Init
<1>4. ScreenTyped
    <2>1. GoodView(operations, Last) /\ jobStatus.job = 0
        BY <1>2 DEF Init, NoView, NoStatus, GoodView, Views
    <2>2. 0 \in 0 .. Last
        BY <1>2
    <2> QED BY <1>2, <1>3, <2>1, <2>2 DEF Init, ScreenTyped, CallsTyped
<1>5. LockHeld /\ PollIsLatest /\ RecoveryIsHandled /\ RecoversOnce /\ OnlyTheRequestedPlan
    BY <1>3 DEF Init, LockHeld, PollIsLatest, RecoveryIsHandled, RecoversOnce, OnlyTheRequestedPlan
<1> QED BY <1>4, <1>5 DEF ScreenInv

LEMMA ScreenStep ==
    ASSUME ScreenInv, [Next]_vars
    PROVE  ScreenInv'
<1>1. CASE OtherAsks \/ OperationEnds
    BY <1>1, OperationsStep
<1>2. CASE Leave
    BY <1>2, LeaveStep
<1>3. CASE KeepRunning
    BY <1>3, KeepRunningStep
<1>4. CASE PickRevision
    BY <1>4, PickRevisionStep
<1>5. ASSUME NEW s \in Slots, Open(s) \/ Dropped(s) \/ PollOperations(s) \/ PollJob(s) \/ Read(s) \/ Take(s)
      PROVE  ScreenInv'
    BY <1>5, OpenStep, DroppedStep, PollOperationsStep, PollJobStep, ReadStep, TakeStep
<1>6. ASSUME NEW s \in Slots, Lands(s) \/ StateReturns(s, FALSE) \/ CallFails(s)
      PROVE  ScreenInv'
    BY <1>6, OperationsLandStep, JobLandsStep, StateReturnsStep, QueuedStep, ConflictsStep,
       RefusedStep, CancelLandsStep, CallFailsStep DEF Lands
<1>7. ASSUME NEW s \in Slots, ApplyPlan(s) \/ Rollback(s) \/ CancelOperation(s)
                                \/ \E r \in Distinct : PreparePlan(s, r)
      PROVE  ScreenInv'
    BY <1>7, SendStep
<1>8. CASE UNCHANGED vars
    <2>1. Last' = Last
        BY <1>8 DEF vars, Last
    <2> QED BY <1>8, <2>1 DEF vars, shown, refs, ScreenInv, ScreenTyped, CallsTyped, LockHeld,
            PollIsLatest, RecoveryIsHandled, RecoversOnce, OnlyTheRequestedPlan, Tracked
<1> QED BY <1>1, <1>2, <1>3, <1>4, <1>5, <1>6, <1>7, <1>8 DEF Next

THEOREM ScreenInvariant == Spec => []ScreenInv
BY ScreenStart, ScreenStep, PTL DEF Spec

\* What useSetupSwitch holds keeps its types and bounds, and the lock of refreshJob
\* has an owner among the requests in flight.
THEOREM ScreenTypeCorrect == Spec => []TypeOK
<1>1. ScreenInv => TypeOK
    <2> SUFFICES ASSUME ScreenInv PROVE TypeOK
        OBVIOUS
    <2>1. Last \in Nat /\ job \in Seq(Jobs)
        BY DEF ScreenInv, ScreenTyped, Last
    <2>2. {activeJob, plan, conflict, dismissed, jobStatus.job} \cup handled \subseteq 0 .. Last
        BY DEF ScreenInv, ScreenTyped
    <2>3. {here, loading, known, submitting, locked, armed} \subseteq BOOLEAN
        BY DEF ScreenInv, ScreenTyped
    <2> QED BY <2>1, <2>2, <2>3 DEF ScreenInv, ScreenTyped, LockHeld, TypeOK
<1> QED BY <1>1, ScreenInvariant, PTL

\* A screen opened for one revision never shows the plan of another one, whoever
\* prepares it and whenever the answers of adoptOperations and refreshJob land.
THEOREM ShowsTheRequestedPlan == Spec => []OnlyTheRequestedPlan
<1>1. ScreenInv => OnlyTheRequestedPlan
    BY DEF ScreenInv
<1> QED BY <1>1, ScreenInvariant, PTL

\* An apply that failed of a plan that no longer held is recovered once: its end is
\* handled once, and only the refreshState that follows it asks for the new plan.
THEOREM RecoversEachOnce == Spec => []RecoversOnce
<1>1. ScreenInv => RecoversOnce
    BY DEF ScreenInv
<1> QED BY <1>1, ScreenInvariant, PTL

\* No poll of the operations takes the screen back: the one that may still be
\* adopted was asked for after everything that the screen tracks.
THEOREM PollsGoForward == Spec => NoWayBack
<1> DEFINE Forward(s) == OperationsLand(s) /\ activeJob' # 0 => activeJob' >= activeJob
<1>1. ASSUME ScreenInv, NEW s \in Slots PROVE Forward(s)
    <2> SUFFICES ASSUME OperationsLand(s), activeJob' # 0 PROVE activeJob' >= activeJob
        OBVIOUS
    <2>1. GoodCall(call[s], Last) /\ Polls(call[s]) /\ GoodView(call[s].view, Last)
        BY <1>1 DEF OperationsLand, Answered, Polls, GoodCall, ScreenInv, ScreenTyped, CallsTyped
    <2>2. activeJob \in Nat /\ Last \in Nat
        BY <1>1 DEF ScreenInv, ScreenTyped, Last
    <2>3. call[s].view.active # 0 => call[s].view.active >= activeJob
        BY <1>1, <2>1 DEF ScreenInv, PollIsLatest
    <2>4. activeJob' = IF call[s].view.active # 0 THEN call[s].view.active
                       ELSE IF activeJob = 0 THEN 0 ELSE activeJob
        BY DEF OperationsLand, Adopt
    <2> QED BY <2>1, <2>2, <2>3, <2>4 DEF GoodView, Views
<1>2. ScreenInv => [\A s \in Slots : Forward(s)]_vars
    BY <1>1
<1>3. Spec => [][\A s \in Slots : Forward(s)]_vars
    BY <1>2, ScreenInvariant, PTL DEF Spec
<1> QED BY <1>3 DEF NoWayBack

==============================================================================
