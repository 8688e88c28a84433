------------------------- MODULE SetupSwitchingProofs -------------------------
(* Proofs about SetupSwitching, for any number of checkouts, revisions and   *)
(* requests: every row and report keeps its type, no decision of the person  *)
(* is carried out twice, an apply does what was reviewed, and what the       *)
(* control plane records and the browser shows agrees with what the runners  *)
(* have done.                                                                *)
EXTENDS SetupSwitching, SequenceTheorems, WellFoundedInduction, TLAPS

\* What the types rest on: a rollback names an apply that has a receipt, and a result
\* waiting to be delivered names a job of its checkout.
Links ==
    /\ \A n \in DOMAIN jobs : jobs[n].kind = "rollbackOperation" =>
          /\ jobs[n].of \in DOMAIN jobs
          /\ jobs[jobs[n].of].kind = "applyPlan"
          /\ receipts[jobs[n].of] \in Receipts
    /\ \A i \in Checkouts : outbox[i] # Nothing => outbox[i].job \in JobsOf(i)

SwitchingInv == TypeOK /\ Links

\* The table keeps its rows, and what each was inserted with.
SameJobs ==
    /\ jobs' \in Seq(Rows)
    /\ Len(jobs') = Len(jobs) /\ DOMAIN jobs' = DOMAIN jobs
    /\ \A n \in DOMAIN jobs : /\ jobs'[n].checkout = jobs[n].checkout
                              /\ jobs'[n].kind = jobs[n].kind
                              /\ jobs'[n].of = jobs[n].of

\* What a row may become: its other columns are those it was inserted with.
Successors(n) ==
    {row \in Rows : /\ row.checkout = jobs[n].checkout
                    /\ row.kind = jobs[n].kind /\ row.of = jobs[n].of}

\* An update of one row.
LEMMA UpdateOfRow ==
    ASSUME TypeOK, NEW n \in DOMAIN jobs, NEW row \in Successors(n),
           jobs' = [jobs EXCEPT ![n] = row]
    PROVE  SameJobs
<1>1. jobs \in Seq(Rows) /\ row \in Rows
    BY DEF TypeOK, Successors
<1>2. jobs' \in Seq(Rows) /\ Len(jobs') = Len(jobs)
    BY <1>1, ExceptSeq, LenProperties
<1>3. DOMAIN jobs' = DOMAIN jobs
    OBVIOUS
<1> QED BY <1>1, <1>2, <1>3 DEF SameJobs, Successors

\* Nothing but the rows changed: the invariant stays.
LEMMA ServerStep ==
    ASSUME SwitchingInv, SameJobs, UNCHANGED <<receipts, assigned, runnerVars, verdicts>>
    PROVE  SwitchingInv'
<1>1. /\ receipts' = receipts /\ assigned' = assigned /\ verdicts' = verdicts
      /\ checkout' = checkout /\ history' = history /\ outbox' = outbox /\ lost' = lost
    BY DEF runnerVars
<1>2. TypeOK'
    <2>1. \A n \in JobIds :
              receipts'[n] # Nothing => n \in DOMAIN jobs' /\ jobs'[n].kind = "applyPlan"
        BY <1>1 DEF SwitchingInv, TypeOK, SameJobs
    <2> QED BY <1>1, <2>1 DEF SwitchingInv, TypeOK, SameJobs
<1>3. Links'
    <2>1. \A n \in DOMAIN jobs' : jobs'[n].kind = "rollbackOperation" =>
              /\ jobs'[n].of \in DOMAIN jobs'
              /\ jobs'[jobs'[n].of].kind = "applyPlan"
              /\ receipts'[jobs'[n].of] \in Receipts
        BY <1>1 DEF SwitchingInv, Links, SameJobs
    <2>2. \A i \in Checkouts : outbox'[i] # Nothing =>
              outbox'[i].job \in DOMAIN jobs' /\ jobs'[outbox'[i].job].checkout = i
        BY <1>1 DEF SwitchingInv, Links, SameJobs, JobsOf
    <2> QED BY <2>1, <2>2 DEF Links, JobsOf
<1> QED BY <1>2, <1>3 DEF SwitchingInv

LEMMA Initially == Init => SwitchingInv
<1> SUFFICES ASSUME Init PROVE SwitchingInv
    OBVIOUS
<1>1. jobs \in Seq(Rows) /\ Len(jobs) = 0 /\ DOMAIN jobs = {}
    BY EmptySeq DEF Init
<1>2. checkout \in [Checkouts -> Trees]
    <2>1. Intact(NoRevision) \in Contents
        BY DEF Intact, Contents, MaybeRevision
    <2>2. [content |-> Intact(NoRevision), torn |-> FALSE] \in Trees
        BY <2>1 DEF Trees
    <2> QED BY <2>2 DEF Init
<1>3. history \in [Checkouts -> Seq([job : JobIds, previous : MaybeRevision])]
    BY EmptySeq DEF Init
<1>4. \A i \in Checkouts : outbox[i] = Nothing
    BY DEF Init
<1>5. /\ receipts \in [JobIds -> Receipts \cup {Nothing}]
      /\ \A n \in JobIds : receipts[n] = Nothing
    BY DEF Init
<1>6. /\ outbox \in [Checkouts -> Deliveries \cup {Nothing}]
      /\ verdicts \in [Checkouts -> [Revisions -> {"unknown", "yes", "no"}]]
    BY DEF Init
<1>7. Len(jobs) <= MaxJobs /\ assigned \in MaybeRevision /\ lost \subseteq JobIds
    BY <1>1, SwitchingAssumption DEF Init, MaybeRevision
<1>8. TypeOK
    BY <1>1, <1>2, <1>3, <1>5, <1>6, <1>7 DEF TypeOK
<1> QED BY <1>1, <1>4, <1>8 DEF SwitchingInv, Links

------------------------------------------------------------------------------
\* A request appends a row; what is pending for the checkout expires with it.
LEMMA EnqueueStep ==
    ASSUME SwitchingInv, NEW i \in Checkouts, NEW kind \in Kinds, NEW r \in MaybeRevision,
           NEW of \in 0 .. MaxJobs, Enqueue(i, kind, r, of),
           kind = "rollbackOperation" =>
              of \in DOMAIN jobs /\ jobs[of].kind = "applyPlan" /\ receipts[of] \in Receipts
    PROVE  /\ SwitchingInv'
           /\ Len(jobs') = Len(jobs) + 1
           /\ \A n \in DOMAIN jobs : jobs'[n].kind = jobs[n].kind /\ jobs'[n].of = jobs[n].of
           /\ jobs'[Len(jobs) + 1].kind = kind /\ jobs'[Len(jobs) + 1].of = of
<1> DEFINE
      old == [n \in DOMAIN jobs |->
                IF n \in ActiveOf(i) /\ jobs[n].state = "pending"
                THEN [jobs[n] EXCEPT !.state = "expired", !.completed = IssuedAt(Len(jobs) + 1)]
                ELSE jobs[n]]
      job == [checkout |-> i, kind |-> kind, revision |-> r, of |-> of,
              completed |-> 0, state |-> "pending", result |-> Nothing]
<1>1. jobs \in Seq(Rows) /\ Len(jobs) \in Nat /\ DOMAIN jobs = 1 .. Len(jobs)
    BY LenProperties DEF SwitchingInv, TypeOK
<1>2. \A n \in DOMAIN jobs : jobs[n] \in Rows
    BY <1>1, ElementOfSeq
<1>3. \A n \in DOMAIN jobs : old[n] \in Rows
    <2>1. IssuedAt(Len(jobs) + 1) \in Nat /\ "expired" \in States
        BY <1>1 DEF IssuedAt, States
    <2> QED BY <1>2, <2>1 DEF Rows
<1>4. old \in Seq(Rows) /\ Len(old) = Len(jobs)
    <2>1. old \in [1 .. Len(jobs) -> Rows]
        BY <1>1, <1>3
    <2> HIDE DEF old
    <2> QED BY <1>1, <2>1, SeqDef, LenProperties
<1>5. \A n \in DOMAIN jobs : /\ old[n].checkout = jobs[n].checkout
                             /\ old[n].kind = jobs[n].kind /\ old[n].of = jobs[n].of
    BY <1>2 DEF Rows
<1>6. job \in Rows /\ job.kind = kind /\ job.of = of
    BY DEF Rows, States, InFlight
<1>7. /\ jobs' = Append(old, job) /\ Len(jobs) < MaxJobs
      /\ receipts' = receipts /\ assigned' = assigned /\ verdicts' = verdicts
      /\ checkout' = checkout /\ history' = history /\ outbox' = outbox /\ lost' = lost
    BY DEF Enqueue, runnerVars
<1> HIDE DEF old, job
<1>8. /\ jobs' \in Seq(Rows) /\ Len(jobs') = Len(jobs) + 1
      /\ DOMAIN jobs' = 1 .. Len(jobs) + 1
      /\ \A n \in DOMAIN jobs : jobs'[n] = old[n]
      /\ jobs'[Len(jobs) + 1] = job
    BY <1>1, <1>4, <1>6, <1>7, AppendProperties, LenProperties
<1>9. /\ DOMAIN jobs \subseteq DOMAIN jobs'
      /\ \A n \in DOMAIN jobs : /\ jobs'[n].checkout = jobs[n].checkout
                                /\ jobs'[n].kind = jobs[n].kind /\ jobs'[n].of = jobs[n].of
    BY <1>1, <1>5, <1>8
<1>10. TypeOK'
    <2>1. \A n \in JobIds :
              receipts'[n] # Nothing => n \in DOMAIN jobs' /\ jobs'[n].kind = "applyPlan"
        BY <1>7, <1>9 DEF SwitchingInv, TypeOK
    <2>2. Len(jobs') <= MaxJobs
        BY <1>1, <1>7, <1>8, SwitchingAssumption
    <2> QED BY <1>7, <1>8, <2>1, <2>2 DEF SwitchingInv, TypeOK
<1>11. Links'
    <2>1. \A n \in DOMAIN jobs' : jobs'[n].kind = "rollbackOperation" =>
              /\ jobs'[n].of \in DOMAIN jobs'
              /\ jobs'[jobs'[n].of].kind = "applyPlan"
              /\ receipts'[jobs'[n].of] \in Receipts
        BY <1>1, <1>6, <1>7, <1>8, <1>9 DEF SwitchingInv, Links
    <2>2. \A k \in Checkouts : outbox'[k] # Nothing =>
              outbox'[k].job \in DOMAIN jobs' /\ jobs'[outbox'[k].job].checkout = k
        BY <1>7, <1>9 DEF SwitchingInv, Links, JobsOf
    <2> QED BY <2>1, <2>2 DEF Links, JobsOf
<1> QED BY <1>6, <1>8, <1>9, <1>10, <1>11 DEF SwitchingInv

------------------------------------------------------------------------------
\* What a plan finds has its type, and says this much of the checkout.
LEMMA DigestTells ==
    ASSUME NEW c \in Contents, NEW r \in MaybeRevision
    PROVE  /\ Digest(c, r) \in Digests
           /\ Digest(c, r) # "conflict" => c.shape # "modified"
           /\ Digest(c, r) = "unchanged" => c = Intact(r)
           /\ Digest(c, r) = "add" => c.holds = NoRevision \/ c.shape = "missing"
           /\ Digest(c, r) = "replace" => c.holds \notin {r, NoRevision}
<1>1. CASE c.shape = "modified"
    <2>1. Digest(c, r) = "conflict"
        BY <1>1 DEF Digest, Intact
    <2> QED BY <2>1 DEF Digests
<1>2. CASE c = Intact(r)
    <2>1. Digest(c, r) = "unchanged" /\ c.shape # "modified"
        BY <1>2 DEF Digest, Intact
    <2> QED BY <1>2, <2>1 DEF Digests
<1>3. CASE c.shape # "modified" /\ c # Intact(r)
    <2>1. Digest(c, r) = IF c.holds \in {r, NoRevision} THEN "add" ELSE "replace"
        BY <1>3 DEF Digest
    <2>2. c = [holds |-> c.holds, shape |-> c.shape]
          /\ c.shape \in {"intact", "missing", "modified"}
        BY DEF Contents
    <2>3. c.holds = r => c.shape = "missing"
        BY <1>3, <2>2 DEF Intact
    <2> QED BY <1>3, <2>1, <2>3 DEF Digests
<1> QED BY <1>1, <1>2, <1>3

\* A result of a job of the checkout that has its type, in the hands of its runner.
LEMMA ReportStep ==
    ASSUME SwitchingInv, NEW i \in Checkouts, NEW n \in JobsOf(i),
           NEW kind \in {"plan", "apply", "rollback", "error", "cancellation"},
           NEW digest \in Digests \cup {"none"}, NEW r \in MaybeRevision,
           NEW operation \in Nat,
           NEW recoverability \in {"notNeeded", "rollbackAvailable", "manualIntervention"},
           ReportOf(i, n, kind, digest, r, operation, recoverability)
    PROVE  /\ outbox' \in [Checkouts -> Deliveries \cup {Nothing}]
           /\ \A k \in Checkouts : outbox'[k] # Nothing => outbox'[k].job \in JobsOf(k)
           /\ lost' \subseteq JobIds
<1> DEFINE result == [kind |-> kind, digest |-> digest, revision |-> r,
                      operation |-> operation, recoverability |-> recoverability]
           delivery == [job |-> n, saved |-> FALSE, result |-> result]
<1>1. n \in JobIds
    <2>1. n \in 1 .. Len(jobs) /\ Len(jobs) \in Nat /\ Len(jobs) <= MaxJobs
        BY LenProperties DEF SwitchingInv, TypeOK, JobsOf
    <2> QED BY <2>1, SwitchingAssumption DEF JobIds
<1>2. result \in Results
    BY DEF Results
<1>3. delivery.job = n /\ delivery \in Deliveries
    <2> HIDE DEF result
    <2> QED BY <1>1, <1>2 DEF Deliveries
<1>4. outbox' = [outbox EXCEPT ![i] = delivery] /\ lost' = lost
    BY DEF ReportOf
<1>5. /\ outbox \in [Checkouts -> Deliveries \cup {Nothing}] /\ lost \subseteq JobIds
      /\ \A k \in Checkouts : outbox[k] # Nothing => outbox[k].job \in JobsOf(k)
    BY DEF SwitchingInv, TypeOK, Links
<1> HIDE DEF delivery
<1> QED BY <1>3, <1>4, <1>5

\* A step of a runner keeps the invariant if what it writes has its type.
LEMMA RunnerStep ==
    ASSUME SwitchingInv, UNCHANGED <<serverVars, verdicts>>,
           checkout' \in [Checkouts -> Trees],
           history' \in [Checkouts -> Seq([job : JobIds, previous : MaybeRevision])],
           outbox' \in [Checkouts -> Deliveries \cup {Nothing}], lost' \subseteq JobIds,
           \A k \in Checkouts : outbox'[k] # Nothing => outbox'[k].job \in JobsOf(k)
    PROVE  SwitchingInv'
<1>1. jobs' = jobs /\ receipts' = receipts /\ assigned' = assigned /\ verdicts' = verdicts
    BY DEF serverVars
<1>2. TypeOK'
    BY <1>1 DEF SwitchingInv, TypeOK
<1>3. Links'
    BY <1>1 DEF SwitchingInv, Links, JobsOf
<1> QED BY <1>2, <1>3 DEF SwitchingInv

\* The contents a runner leaves in its checkout have their type.
LEMMA RunnerTypes ==
    ASSUME SwitchingInv, NEW i \in Checkouts
    PROVE  /\ checkout[i] \in Trees /\ checkout[i].content \in Contents
           /\ Recover(i) => checkout' \in [Checkouts -> Trees]
           /\ checkout' = [checkout EXCEPT ![i].torn = TRUE]
                => checkout' \in [Checkouts -> Trees]
           /\ \A r \in MaybeRevision :
                 checkout' = [checkout EXCEPT ![i] = Whole(Intact(r))]
                    => checkout' \in [Checkouts -> Trees]
<1>1. checkout \in [Checkouts -> Trees]
    BY DEF SwitchingInv, TypeOK
<1>2. checkout[i] \in Trees /\ checkout[i].content \in Contents
    BY <1>1 DEF Trees
<1>3. \A b \in BOOLEAN : [checkout[i] EXCEPT !.torn = b] \in Trees
    BY <1>2 DEF Trees
<1>4. \A r \in MaybeRevision : Whole(Intact(r)) \in Trees
    BY DEF Whole, Intact, Contents, Trees
<1> QED BY <1>1, <1>2, <1>3, <1>4 DEF Recover

\* The last element of a sequence, and what is left without it.
LEMMA LastAndRest ==
    ASSUME NEW S, NEW s \in Seq(S), s # <<>>
    PROVE  s[Len(s)] \in S /\ SubSeq(s, 1, Len(s) - 1) \in Seq(S)
<1>1. Len(s) \in Nat \ {0}
    BY EmptySeq, LenProperties
<1>2. \A k \in 1 .. Len(s) : s[k] \in S
    BY ElementOfSeq
<1>3. \A k \in 1 .. Len(s) - 1 : s[k] \in S
    BY <1>1, <1>2
<1> QED BY <1>1, <1>2, <1>3, SubSeqProperties

\* What a runner does keeps the invariant, whichever way the job goes.
LEMMA ExecuteStep ==
    ASSUME SwitchingInv, NEW i \in Checkouts, NEW n \in JobIds, Execute(i, n)
    PROVE  SwitchingInv' /\ jobs' = jobs
<1> DEFINE ReportTyped ==
              /\ outbox' \in [Checkouts -> Deliveries \cup {Nothing}]
              /\ \A k \in Checkouts : outbox'[k] # Nothing => outbox'[k].job \in JobsOf(k)
              /\ lost' \subseteq JobIds
           Histories == Seq([job : JobIds, previous : MaybeRevision])
<1>1. /\ checkout \in [Checkouts -> Trees]
      /\ history \in [Checkouts -> Histories]
      /\ jobs \in Seq(Rows)
    BY DEF SwitchingInv, TypeOK
<1>2. n \in JobsOf(i) => jobs[n] \in Rows /\ jobs[n].revision \in MaybeRevision
    <2>1. n \in JobsOf(i) => n \in 1 .. Len(jobs)
        BY <1>1, LenProperties DEF JobsOf
    <2>2. n \in JobsOf(i) => jobs[n] \in Rows
        BY <1>1, <2>1, ElementOfSeq
    <2> QED BY <2>2 DEF Rows
<1>3. NoRevision \in MaybeRevision /\ 0 \in Nat
    BY DEF MaybeRevision
<1>4. ASSUME StopUnchanged(i, n) PROVE SwitchingInv' /\ jobs' = jobs
    <2>1. ReportTyped
        BY <1>3, <1>4, ReportStep DEF StopUnchanged, Holds, Report
    <2> QED BY <1>1, <1>4, <2>1, RunnerTypes, RunnerStep DEF StopUnchanged, serverVars
<1>5. ASSUME StopTorn(i, n) PROVE SwitchingInv' /\ jobs' = jobs
    <2>1. ReportTyped
        BY <1>3, <1>5, ReportStep DEF StopTorn, Holds, Report
    <2> QED BY <1>1, <1>5, <2>1, RunnerStep DEF StopTorn, serverVars
<1>6. ASSUME ExecutePlan(i, n) PROVE SwitchingInv' /\ jobs' = jobs
    <2>1. ReportTyped
        <3>1. Digest(checkout[i].content, jobs[n].revision) \in Digests
            BY <1>2, <1>6, RunnerTypes, DigestTells DEF ExecutePlan, Holds
        <3> QED BY <1>2, <1>3, <1>6, <3>1, ReportStep DEF ExecutePlan, Holds
    <2> QED BY <1>1, <1>6, <2>1, RunnerTypes, RunnerStep DEF ExecutePlan, serverVars
<1>7. ASSUME ExecuteApply(i, n) PROVE SwitchingInv' /\ jobs' = jobs
    <2>1. ReportTyped
        <3>1. FreshDigest(i, n) \in Digests
            BY <1>2, <1>7, RunnerTypes, DigestTells DEF ExecuteApply, Holds, FreshDigest
        <3>2. Len(history[i]) + 1 \in Nat
            BY <1>1, LenProperties
        <3> HIDE DEF Histories
        <3> QED BY <1>2, <1>7, <3>1, <3>2, ReportStep DEF ExecuteApply, Holds
    <2>2. checkout' \in [Checkouts -> Trees]
        BY <1>2, <1>7, RunnerTypes DEF ExecuteApply, Holds
    <2>3. [job |-> n, previous |-> checkout[i].content.holds]
             \in [job : JobIds, previous : MaybeRevision]
        BY RunnerTypes DEF Contents
    <2>4. history' \in [Checkouts -> Histories]
        BY <1>1, <1>7, <2>3, AppendProperties DEF ExecuteApply
    <2> QED BY <1>7, <2>1, <2>2, <2>4, RunnerStep DEF ExecuteApply, serverVars
<1>8. ASSUME ExecuteRollback(i, n) PROVE SwitchingInv' /\ jobs' = jobs
    <2>1. history[i] \in Histories /\ history[i] # <<>>
        BY <1>1, <1>8 DEF ExecuteRollback, CanUndo, IsLatest
    <2>2. LatestInHistory(i).previous \in MaybeRevision
        <3>1. LatestInHistory(i) \in [job : JobIds, previous : MaybeRevision]
            BY <2>1, LastAndRest DEF LatestInHistory
        <3> QED BY <3>1
    <2>3. ReportTyped
        BY <1>3, <1>8, <2>2, ReportStep DEF ExecuteRollback, Holds
    <2>4. checkout' \in [Checkouts -> Trees]
        BY <1>8, <2>2, RunnerTypes DEF ExecuteRollback
    <2>5. SubSeq(history[i], 1, Len(history[i]) - 1) \in Histories
        BY <2>1, LastAndRest
    <2>6. history' \in [Checkouts -> Histories]
        BY <1>1, <1>8, <2>5 DEF ExecuteRollback
    <2> QED BY <1>8, <2>3, <2>4, <2>6, RunnerStep DEF ExecuteRollback, serverVars
<1>9. ASSUME RefuseRollback(i, n) PROVE SwitchingInv' /\ jobs' = jobs
    <2>1. ReportTyped
        BY <1>3, <1>9, ReportStep DEF RefuseRollback, Holds, Report
    <2> QED BY <1>1, <1>9, <2>1, RunnerTypes, RunnerStep DEF RefuseRollback, serverVars
<1>10. ASSUME StopHalfWay(i, n) PROVE SwitchingInv' /\ jobs' = jobs
    <2>1. ReportTyped
        BY <1>3, <1>10, ReportStep DEF StopHalfWay, Holds, Report
    <2> QED BY <1>1, <1>10, <2>1, RunnerTypes, RunnerStep DEF StopHalfWay, serverVars
<1> QED BY <1>4, <1>5, <1>6, <1>7, <1>8, <1>9, <1>10 DEF Execute

\* An edit keeps the invariant.
LEMMA EditStep ==
    ASSUME SwitchingInv, NEW i \in Checkouts, NEW shape \in Shapes, Edit(i, shape)
    PROVE  SwitchingInv' /\ jobs' = jobs
<1>1. /\ jobs' = jobs /\ receipts' = receipts /\ assigned' = assigned
      /\ history' = history /\ outbox' = outbox /\ lost' = lost /\ verdicts' = verdicts
      /\ checkout' = [checkout EXCEPT ![i].content.shape = shape]
    BY DEF Edit, serverVars
<1>2. [checkout[i] EXCEPT !.content.shape = shape] \in Trees
    <2>1. shape \in {"intact", "missing", "modified"}
        BY SwitchingAssumption
    <2>2. checkout[i] \in Trees /\ checkout[i].content \in Contents
        BY RunnerTypes
    <2>3. [checkout[i].content EXCEPT !.shape = shape] \in Contents
        BY <2>1, <2>2 DEF Contents
    <2> QED BY <2>2, <2>3 DEF Trees
<1>3. checkout' \in [Checkouts -> Trees]
    BY <1>1, <1>2 DEF SwitchingInv, TypeOK
<1>4. TypeOK'
    BY <1>1, <1>3 DEF SwitchingInv, TypeOK
<1> QED BY <1>1, <1>4 DEF SwitchingInv, Links, JobsOf

\* So do the saving of a result, and the crash that takes it.
LEMMA SaveStep ==
    ASSUME SwitchingInv, NEW i \in Checkouts, FinishJob(i) \/ Crash(i)
    PROVE  SwitchingInv' /\ jobs' = jobs
<1>1. /\ outbox[i] \in Deliveries /\ outbox \in [Checkouts -> Deliveries \cup {Nothing}]
      /\ \A k \in Checkouts : outbox[k] # Nothing => outbox[k].job \in JobsOf(k)
      /\ checkout' = checkout /\ history' = history /\ lost \subseteq JobIds
      /\ UNCHANGED <<serverVars, verdicts>>
    BY DEF FinishJob, Crash, SwitchingInv, TypeOK, Links
<1>2. /\ checkout' \in [Checkouts -> Trees]
      /\ history' \in [Checkouts -> Seq([job : JobIds, previous : MaybeRevision])]
    BY <1>1 DEF SwitchingInv, TypeOK
<1>3. CASE FinishJob(i)
    <2>1. \E d \in Deliveries : d.job = outbox[i].job /\ outbox' = [outbox EXCEPT ![i] = d]
        <3>1. /\ [outbox[i] EXCEPT !.saved = TRUE] \in Deliveries
              /\ [outbox[i] EXCEPT !.saved = TRUE].job = outbox[i].job
            BY <1>1 DEF Deliveries
        <3>2. outbox' = [outbox EXCEPT ![i] = [outbox[i] EXCEPT !.saved = TRUE]]
            BY <1>3 DEF FinishJob
        <3> QED BY <3>1, <3>2
    <2>2. /\ outbox' \in [Checkouts -> Deliveries \cup {Nothing}] /\ lost' = lost
          /\ \A k \in Checkouts : outbox'[k] # Nothing => outbox'[k].job \in JobsOf(k)
        BY <1>1, <1>3, <2>1, NothingAssumption DEF FinishJob
    <2> QED BY <1>1, <1>2, <2>2, RunnerStep DEF serverVars
<1>4. CASE Crash(i)
    <2>1. outbox' = [outbox EXCEPT ![i] = Nothing] /\ lost' \subseteq lost \cup {outbox[i].job}
        BY <1>4 DEF Crash
    <2>2. /\ outbox' \in [Checkouts -> Deliveries \cup {Nothing}]
          /\ \A k \in Checkouts : outbox'[k] # Nothing => outbox'[k].job \in JobsOf(k)
        BY <1>1, <2>1
    <2>3. lost' \subseteq JobIds
        BY <1>1, <2>1 DEF Deliveries
    <2> QED BY <1>1, <1>2, <2>2, <2>3, RunnerStep DEF serverVars
<1> QED BY <1>3, <1>4

------------------------------------------------------------------------------
\* What delivery writes in one row: its state, or its state and when it ended.
LEMMA DeliveryStep ==
    ASSUME SwitchingInv, NEW n \in JobIds,
           RequestCancellation(n) \/ Claim(n) \/ ExpireOverdue(n)
    PROVE  SwitchingInv' /\ SameJobs
<1>1. n \in DOMAIN jobs /\ jobs \in Seq(Rows) /\ jobs[n] \in Rows
    <2>1. n \in DOMAIN jobs
        BY DEF RequestCancellation, Claim, ExpireOverdue
    <2>2. jobs \in Seq(Rows)
        BY DEF SwitchingInv, TypeOK
    <2> QED BY <2>1, <2>2, ElementOfSeq, LenProperties
<1>2. /\ jobs[n].completed \in Nat /\ jobs[n].result \in Results \cup {Nothing}
      /\ Now \in Nat
    <2>1. Len(jobs) \in Nat
        BY <1>1, LenProperties
    <2> QED BY <1>1, <2>1 DEF Rows, Now
<1>3. {"cancelled", "stopping", "claimed", "expired"} \subseteq States
    BY DEF States, InFlight, Held
<1>4. \A s \in States : /\ [jobs[n] EXCEPT !.state = s] \in Successors(n)
                        /\ [jobs[n] EXCEPT !.state = s, !.completed = Now] \in Successors(n)
    BY <1>1, <1>2 DEF Rows, Successors
<1>5. \E row \in Successors(n) : jobs' = [jobs EXCEPT ![n] = row]
    <2>1. \/ \E s \in States : jobs' = [jobs EXCEPT ![n] = [jobs[n] EXCEPT !.state = s]]
          \/ jobs' = [jobs EXCEPT ![n] = [jobs[n] EXCEPT !.state = "cancelled",
                                                         !.completed = Now]]
        <3>1. ASSUME RequestCancellation(n), jobs[n].state = "pending"
              PROVE  jobs' = [jobs EXCEPT ![n] = [jobs[n] EXCEPT !.state = "cancelled",
                                                                !.completed = Now]]
            BY <1>1, <3>1 DEF RequestCancellation
        <3>2. ASSUME RequestCancellation(n), jobs[n].state # "pending"
              PROVE  jobs' = [jobs EXCEPT ![n] = [jobs[n] EXCEPT !.state = "stopping"]]
            BY <1>1, <3>2 DEF RequestCancellation
        <3>3. ASSUME Claim(n)
              PROVE  jobs' = [jobs EXCEPT ![n] = [jobs[n] EXCEPT !.state = "claimed"]]
            BY <3>3 DEF Claim
        <3>4. ASSUME ExpireOverdue(n)
              PROVE  jobs' = [jobs EXCEPT ![n] = [jobs[n] EXCEPT !.state = "expired"]]
            BY <3>4 DEF ExpireOverdue
        <3> QED BY <1>3, <3>1, <3>2, <3>3, <3>4
    <2> QED BY <1>3, <1>4, <2>1
<1>6. SameJobs
    BY <1>1, <1>2, <1>5, UpdateOfRow DEF SwitchingInv
<1>7. UNCHANGED <<receipts, assigned, runnerVars, verdicts>>
    BY DEF RequestCancellation, Claim, ExpireOverdue
<1> QED BY <1>6, <1>7, ServerStep

\* The states a result leads to.
LEMMA TerminalStates ==
    ASSUME NEW result \in Results
    PROVE  TerminalState(result) \in {"succeeded", "failed", "cancelled"}
BY DEF TerminalState, Results

\* What accepting a result leaves in the receipts and the assignment.
LEMMA PersistStep ==
    ASSUME SwitchingInv, NEW n \in DOMAIN jobs, NEW result \in Results,
           \/ PersistPortableReceipt(n, result)
           \/ UNCHANGED <<receipts, assigned>>
    PROVE  /\ receipts' \in [JobIds -> Receipts \cup {Nothing}]
           /\ assigned' \in MaybeRevision
           /\ \A m \in JobIds : receipts'[m] # Nothing =>
                 m \in DOMAIN jobs /\ jobs[m].kind = "applyPlan"
           /\ \A m \in JobIds : receipts[m] \in Receipts => receipts'[m] \in Receipts
<1>1. /\ receipts \in [JobIds -> Receipts \cup {Nothing}]
      /\ assigned \in MaybeRevision
      /\ \A m \in JobIds : receipts[m] # Nothing =>
            m \in DOMAIN jobs /\ jobs[m].kind = "applyPlan"
    BY DEF SwitchingInv, TypeOK
<1>2. DOMAIN jobs \subseteq JobIds
    BY LenProperties, SwitchingAssumption DEF SwitchingInv, TypeOK, JobIds
<1>3. jobs[n] \in Rows
    BY ElementOfSeq, LenProperties DEF SwitchingInv, TypeOK
<1>4. /\ jobs[n].revision \in MaybeRevision /\ result.revision \in MaybeRevision
      /\ result.operation \in Nat
    BY <1>3 DEF Rows, Results
<1>5. CASE UNCHANGED <<receipts, assigned>>
    BY <1>1, <1>5
<1>6. CASE PersistPortableReceipt(n, result)
    <2>1. CASE jobs[n].kind = "applyPlan"
        <3>1. \E receipt \in Receipts : receipts' = [receipts EXCEPT ![n] = receipt]
            BY <1>1, <1>4, <1>6, <2>1 DEF PersistPortableReceipt, Receipts
        <3>2. assigned' = jobs[n].revision
            BY <1>6, <2>1 DEF PersistPortableReceipt
        <3> QED BY <1>1, <1>2, <1>4, <2>1, <3>1, <3>2
    <2>2. CASE jobs[n].kind = "rollbackOperation"
        <3>1. /\ jobs[n].of \in DOMAIN jobs /\ jobs[jobs[n].of].kind = "applyPlan"
              /\ receipts[jobs[n].of] \in Receipts
            BY <2>2 DEF SwitchingInv, Links
        <3>2. [receipts[jobs[n].of] EXCEPT !.outcome = "rolledBack"] \in Receipts
            BY <3>1 DEF Receipts
        <3>3. /\ receipts' = [receipts EXCEPT ![jobs[n].of] =
                                [receipts[jobs[n].of] EXCEPT !.outcome = "rolledBack"]]
              /\ assigned' = result.revision
            BY <1>6, <2>2 DEF PersistPortableReceipt
        <3> QED BY <1>1, <1>2, <1>4, <3>1, <3>2, <3>3
    <2>3. CASE jobs[n].kind \notin {"applyPlan", "rollbackOperation"}
        <3>1. UNCHANGED <<receipts, assigned>>
            BY <1>6, <2>3 DEF PersistPortableReceipt
        <3> QED BY <1>1, <3>1
    <2> QED BY <2>1, <2>2, <2>3
<1> QED BY <1>5, <1>6

\* What a report says of a checkout keeps its type.
LEMMA VerdictType ==
    ASSUME SwitchingInv, NEW n, NEW result \in Results, NEW i \in Checkouts
    PROVE  Verdict(n, result, i) \in [Revisions -> {"unknown", "yes", "no"}]
<1>1. verdicts[i] \in [Revisions -> {"unknown", "yes", "no"}]
    BY DEF SwitchingInv, TypeOK
<1>2. CASE result.kind = "plan"
    BY <1>1, <1>2 DEF Verdict
<1>3. CASE result.kind \in {"apply", "rollback"}
    BY <1>3 DEF Verdict
<1>4. CASE result.kind \notin {"plan", "apply", "rollback"}
    BY <1>1, <1>4 DEF Verdict
<1> QED BY <1>2, <1>3, <1>4

\* Delivering a result keeps the invariant.
LEMMA CompleteStep ==
    ASSUME SwitchingInv, NEW i \in Checkouts, CompleteJob(i)
    PROVE  SwitchingInv' /\ SameJobs
<1> DEFINE n == outbox[i].job
           result == outbox[i].result
<1>1. /\ outbox \in [Checkouts -> Deliveries \cup {Nothing}]
      /\ outbox[i] # Nothing
      /\ outbox' = [outbox EXCEPT ![i] = Nothing]
      /\ checkout' = checkout /\ history' = history /\ lost' = lost
    BY DEF CompleteJob, SwitchingInv, TypeOK
<1>2. n \in DOMAIN jobs /\ result \in Results
    BY <1>1 DEF SwitchingInv, Links, JobsOf, Deliveries
<1>3. jobs \in Seq(Rows) /\ jobs[n] \in Rows
    BY <1>2, ElementOfSeq, LenProperties DEF SwitchingInv, TypeOK
<1>4. /\ SameJobs
      /\ PersistPortableReceipt(n, result) \/ UNCHANGED <<receipts, assigned>>
      /\ verdicts' \in [Checkouts -> [Revisions -> {"unknown", "yes", "no"}]]
    <2>1. CASE jobs[n].state \in Held
        <3> DEFINE row == [jobs[n] EXCEPT !.state = TerminalState(result),
                                          !.result = result, !.completed = Now]
        <3>1. /\ jobs' = [jobs EXCEPT ![n].state = TerminalState(result),
                                      ![n].result = result,
                                      ![n].completed = Now]
              /\ PersistPortableReceipt(n, result) \/ UNCHANGED <<receipts, assigned>>
              /\ verdicts' = [verdicts EXCEPT ![i] = Verdict(n, result, i)]
            BY <2>1 DEF CompleteJob
        <3>2. jobs' = [jobs EXCEPT ![n] = row]
            BY <1>2, <3>1
        <3>3. row \in Successors(n)
            <4>1. TerminalState(result) \in States
                BY <1>2, TerminalStates DEF States
            <4>2. Now \in Nat
                BY <1>3, LenProperties DEF Now
            <4> HIDE DEF n, result
            <4> QED BY <1>2, <1>3, <4>1, <4>2 DEF Rows, Successors
        <3>4. SameJobs
            BY <1>2, <3>2, <3>3, UpdateOfRow DEF SwitchingInv
        <3>5. verdicts' \in [Checkouts -> [Revisions -> {"unknown", "yes", "no"}]]
            BY <1>2, <3>1, VerdictType DEF SwitchingInv, TypeOK
        <3> QED BY <3>1, <3>4, <3>5
    <2>2. CASE jobs[n].state \notin Held
        <3>1. UNCHANGED <<serverVars, verdicts>>
            BY <2>2 DEF CompleteJob
        <3> QED BY <1>3, <3>1 DEF serverVars, SameJobs, SwitchingInv, TypeOK
    <2> QED BY <2>1, <2>2
<1>5. /\ receipts' \in [JobIds -> Receipts \cup {Nothing}]
      /\ assigned' \in MaybeRevision
      /\ \A m \in JobIds : receipts'[m] # Nothing =>
            m \in DOMAIN jobs /\ jobs[m].kind = "applyPlan"
      /\ \A m \in JobIds : receipts[m] \in Receipts => receipts'[m] \in Receipts
    BY <1>2, <1>4, PersistStep
<1>6. \A k \in Checkouts : outbox'[k] # Nothing => outbox[k] = outbox'[k] /\ outbox[k] # Nothing
    BY <1>1
<1>7. outbox' \in [Checkouts -> Deliveries \cup {Nothing}]
    BY <1>1
<1>8. TypeOK'
    <2>1. \A m \in JobIds : receipts'[m] # Nothing =>
              m \in DOMAIN jobs' /\ jobs'[m].kind = "applyPlan"
        BY <1>4, <1>5 DEF SameJobs
    <2>2. jobs' \in Seq(Rows) /\ Len(jobs') <= MaxJobs
        BY <1>4 DEF SameJobs, SwitchingInv, TypeOK
    <2> QED BY <1>1, <1>4, <1>5, <1>7, <2>1, <2>2 DEF SwitchingInv, TypeOK
<1>9. Links'
    <2>1. DOMAIN jobs \subseteq JobIds
        BY <1>3, LenProperties, SwitchingAssumption DEF SwitchingInv, TypeOK, JobIds
    <2>2. \A m \in DOMAIN jobs' : jobs'[m].kind = "rollbackOperation" =>
              /\ jobs'[m].of \in DOMAIN jobs'
              /\ jobs'[jobs'[m].of].kind = "applyPlan"
              /\ receipts'[jobs'[m].of] \in Receipts
        BY <1>4, <1>5, <2>1 DEF SwitchingInv, Links, SameJobs
    <2>3. \A k \in Checkouts : outbox'[k] # Nothing =>
              outbox'[k].job \in DOMAIN jobs' /\ jobs'[outbox'[k].job].checkout = k
        BY <1>4, <1>6 DEF SwitchingInv, Links, SameJobs, JobsOf
    <2> QED BY <2>2, <2>3 DEF Links, JobsOf
<1> QED BY <1>4, <1>8, <1>9 DEF SwitchingInv

------------------------------------------------------------------------------
\* Every step keeps the invariant; it keeps what the rows were inserted with, but for a
\* request, which appends a row whose decision no other row carries out.
LEMMA StepOfTheTable ==
    ASSUME SwitchingInv, [Next]_vars
    PROVE  /\ SwitchingInv'
           /\ \/ SameJobs
              \/ /\ Len(jobs') = Len(jobs) + 1
                 /\ \A n \in DOMAIN jobs : /\ jobs'[n].kind = jobs[n].kind
                                           /\ jobs'[n].of = jobs[n].of
                 /\ LET job == jobs'[Len(jobs) + 1]
                    IN  job.of # 0 => \A n \in DOMAIN jobs :
                            jobs[n].kind = job.kind => jobs[n].of # job.of
<1> DEFINE Goal ==
              /\ SwitchingInv'
              /\ \/ SameJobs
                 \/ /\ Len(jobs') = Len(jobs) + 1
                    /\ \A n \in DOMAIN jobs : /\ jobs'[n].kind = jobs[n].kind
                                              /\ jobs'[n].of = jobs[n].of
                    /\ LET job == jobs'[Len(jobs) + 1]
                       IN  job.of # 0 => \A n \in DOMAIN jobs :
                               jobs[n].kind = job.kind => jobs[n].of # job.of
<1>1. jobs' = jobs => SameJobs
    BY DEF SwitchingInv, TypeOK, SameJobs
<1>2. DOMAIN jobs \subseteq 0 .. MaxJobs /\ 0 \in 0 .. MaxJobs
    BY LenProperties, SwitchingAssumption DEF SwitchingInv, TypeOK
<1>3. ASSUME NEW i \in Checkouts, NEW r \in Revisions, RequestPlan(i, r) PROVE Goal
    BY <1>2, <1>3, EnqueueStep DEF RequestPlan, Kinds, MaybeRevision
<1>4. ASSUME NEW i \in Checkouts, NEW p \in JobIds, ApproveAndEnqueueApply(i, p) PROVE Goal
    <2>1. p \in DOMAIN jobs /\ Unapproved(p) /\ Enqueue(i, "applyPlan", jobs[p].revision, p)
        BY <1>4 DEF ApproveAndEnqueueApply, PlansOf, JobsOf
    <2>2. jobs[p].revision \in MaybeRevision
        <3>1. jobs[p] \in Rows
            BY <2>1, ElementOfSeq, LenProperties DEF SwitchingInv, TypeOK
        <3> QED BY <3>1 DEF Rows
    <2> QED BY <1>2, <2>1, <2>2, EnqueueStep DEF Unapproved, Kinds
<1>5. ASSUME NEW i \in Checkouts, NEW a \in JobIds, EnqueueRollback(i, a) PROVE Goal
    <2>1. /\ a \in DOMAIN jobs /\ receipts[a] # Nothing
          /\ \A n \in DOMAIN jobs : ~(jobs[n].kind = "rollbackOperation" /\ jobs[n].of = a)
          /\ Enqueue(i, "rollbackOperation", NoRevision, a)
        BY <1>5 DEF EnqueueRollback, JobsOf
    <2>2. receipts[a] \in Receipts /\ jobs[a].kind = "applyPlan"
        BY <2>1 DEF SwitchingInv, TypeOK
    <2> QED BY <1>2, <2>1, <2>2, EnqueueStep DEF Kinds, MaybeRevision
<1>6. ASSUME NEW n \in JobIds, RequestCancellation(n) \/ Claim(n) \/ ExpireOverdue(n)
      PROVE  Goal
    BY <1>6, DeliveryStep
<1>7. ASSUME NEW i \in Checkouts, CompleteJob(i) PROVE Goal
    BY <1>7, CompleteStep
<1>8. ASSUME NEW i \in Checkouts, NEW n \in JobIds, Execute(i, n) PROVE Goal
    BY <1>1, <1>8, ExecuteStep
<1>9. ASSUME NEW i \in Checkouts, NEW shape \in Shapes, Edit(i, shape) PROVE Goal
    BY <1>1, <1>9, EditStep
<1>10. ASSUME NEW i \in Checkouts, FinishJob(i) \/ Crash(i) PROVE Goal
    BY <1>1, <1>10, SaveStep
<1>11. CASE UNCHANGED vars
    <2>1. SameJobs /\ UNCHANGED <<receipts, assigned, runnerVars, verdicts>>
        BY <1>1, <1>11 DEF vars, serverVars
    <2> QED BY <2>1, ServerStep
<1> QED BY <1>3, <1>4, <1>5, <1>6, <1>7, <1>8, <1>9, <1>10, <1>11 DEF Next

\* Every row, receipt, tree and report has its type, and a receipt is that of an apply.
THEOREM SwitchingTypeCorrect == Spec => []TypeOK
<1>1. SwitchingInv /\ [Next]_vars => SwitchingInv'
    BY StepOfTheTable
<1>2. SwitchingInv => TypeOK
    BY DEF SwitchingInv
<1> QED BY Initially, <1>1, <1>2, PTL DEF Spec

\* A plan is applied by one job at most and a receipt rolled back by one, however often
\* and however late the request is repeated.
THEOREM DecidedOnce == Spec => []OneJobPerDecision
<1> DEFINE Inv == SwitchingInv /\ OneJobPerDecision
<1>1. Init => Inv
    <2>1. Init => DOMAIN jobs = {}
        BY EmptySeq DEF Init
    <2> QED BY <2>1, Initially DEF OneJobPerDecision
<1>2. Inv /\ [Next]_vars => Inv'
    <2> SUFFICES ASSUME Inv, [Next]_vars PROVE Inv'
        OBVIOUS
    <2>1. SwitchingInv'
        BY StepOfTheTable
    <2>2. CASE SameJobs
        BY <2>1, <2>2 DEF OneJobPerDecision, SameJobs
    <2>3. CASE ~SameJobs
        <3>1. /\ DOMAIN jobs = 1 .. Len(jobs) /\ Len(jobs) \in Nat
              /\ DOMAIN jobs' = 1 .. Len(jobs')
            BY <2>1, LenProperties DEF SwitchingInv, TypeOK
        <3>2. /\ Len(jobs') = Len(jobs) + 1
              /\ \A n \in DOMAIN jobs : /\ jobs'[n].kind = jobs[n].kind
                                        /\ jobs'[n].of = jobs[n].of
              /\ LET job == jobs'[Len(jobs) + 1]
                 IN  job.of # 0 => \A n \in DOMAIN jobs :
                         jobs[n].kind = job.kind => jobs[n].of # job.of
            BY <2>3, StepOfTheTable
        <3>3. ASSUME NEW n \in DOMAIN jobs'
              PROVE  n \in DOMAIN jobs \/ n = Len(jobs) + 1
            BY <3>1, <3>2
        <3>4. OneJobPerDecision'
            BY <3>2, <3>3 DEF OneJobPerDecision
        <3> QED BY <2>1, <3>4
    <2> QED BY <2>2, <2>3
<1>3. Inv => OneJobPerDecision
    OBVIOUS
<1> QED BY <1>1, <1>2, <1>3, PTL DEF Spec

------------------------------------------------------------------------------
(* What the control plane has on record of each checkout, and what its        *)
(* runner has done, agree: the invariant the other properties rest on.       *)
\* A setup operation or plan in flight is the last row of its checkout.
ActiveIsLast ==
    \A n \in DOMAIN jobs : jobs[n].state \in InFlight =>
        \A m \in DOMAIN jobs : jobs[m].checkout = jobs[n].checkout => m <= n

\* An apply names the latest plan before it, of its checkout and revision, and a
\* rollback names an earlier row of its checkout.
DecisionsNameRows ==
    \A n \in DOMAIN jobs :
        LET named == jobs[n].of IN
        /\ jobs[n].kind \in {"applyPlan", "rollbackOperation"} =>
              named \in DOMAIN jobs /\ named < n /\ jobs[named].checkout = jobs[n].checkout
        /\ jobs[n].kind = "applyPlan" =>
              /\ jobs[named].kind = "planSetup" /\ jobs[named].state = "succeeded"
              /\ jobs[named].revision = jobs[n].revision
              /\ \A m \in DOMAIN jobs :
                    jobs[m].kind = "planSetup" /\ jobs[m].checkout = jobs[n].checkout /\ m < n
                        => m <= named

\* The result that tells of success.
DoneBy(kind) == CASE kind = "planSetup" -> "plan"
                  [] kind = "applyPlan" -> "apply"
                  [] OTHER -> "rollback"

\* A row that succeeded has such a result, and the time of its completion is between
\* its own request and the next one of its checkout.
SuccessesAreTimed ==
    \A n \in DOMAIN jobs : jobs[n].state = "succeeded" =>
        /\ jobs[n].result.kind = DoneBy(jobs[n].kind)
        /\ IssuedAt(n) < jobs[n].completed /\ jobs[n].completed <= Now
        /\ \A m \in DOMAIN jobs :
              jobs[m].checkout = jobs[n].checkout /\ n < m => jobs[n].completed < IssuedAt(m)

\* Receipts are of applies that succeeded; one is rolled back by a job that names it.
ReceiptsOfSuccesses ==
    /\ \A n \in JobIds : receipts[n] # Nothing =>
          /\ jobs[n].state = "succeeded"
          /\ receipts[n].outcome = "rolledBack" =>
                \E m \in DOMAIN jobs : jobs[m].kind = "rollbackOperation" /\ jobs[m].of = n
    /\ \A n \in DOMAIN jobs :
          /\ jobs[n].kind = "applyPlan" /\ jobs[n].state = "succeeded"
          /\ jobs[n].result.recoverability = "rollbackAvailable"
          => receipts[n] # Nothing /\ receipts[n].outcome \in {"applied", "rolledBack"}

\* What a runner has still to deliver is true of its job, disk and history.
ReportIsTrue(i) ==
    outbox[i] # Nothing =>
        LET n == outbox[i].job
            result == outbox[i].result
        IN  /\ jobs[n].state # "pending"
            /\ result.kind \in {DoneBy(jobs[n].kind), "error", "cancellation"}
            /\ jobs[n].kind = "planSetup" => result.recoverability = "notNeeded"
            /\ result.kind \in {"apply", "rollback"} =>
                  checkout[i].content.holds = result.revision
            /\ result.kind = "apply" =>
                  result.revision = jobs[n].revision /\ IsLatest(i, n, result.operation)
            /\ result.kind = "rollback" =>
                  ~Kept(i, jobs[n].of, receipts[jobs[n].of].operation)

Reported(i, n) == outbox[i] # Nothing /\ outbox[i].job = n

\* No operation of checkout i came after operation n.
IsLatestOperation(i, n) ==
    n \in OperationsOf(i) /\ \A m \in OperationsOf(i) : m <= n

\* The latest operation, if it is an apply that succeeded, is the one a runner would undo.
LatestApplyOnTop(i) ==
    \A n \in DOMAIN jobs :
        /\ IsLatestOperation(i, n)
        /\ jobs[n].kind = "applyPlan" /\ jobs[n].state = "succeeded"
        => IsLatest(i, n, receipts[n].operation)

\* What a receipt calls applied is in the history, or was rolled back by a job that is
\* expired, or whose success is still to be delivered, or was lost in a crash.
ReceiptsFollowHistory(i) ==
    \A n \in JobsOf(i) : receipts[n] # Nothing =>
        IF receipts[n].outcome = "rolledBack" THEN ~Kept(i, n, receipts[n].operation)
        ELSE \/ Kept(i, n, receipts[n].operation)
             \/ \E m \in JobsOf(i) :
                   /\ jobs[m].kind = "rollbackOperation" /\ jobs[m].of = n
                   /\ \/ jobs[m].state = "expired" \/ m \in lost
                      \/ /\ jobs[m].state \in Held /\ Reported(i, m)
                         /\ outbox[i].result.kind = "rollback"

\* Plans of checkout i for revision r that succeeded after row n.
LaterPlans(i, r, n) ==
    {p \in PlansOf(i) : n < p /\ jobs[p].state = "succeeded" /\ jobs[p].revision = r}

\* What is known of revision r is what the latest plan for it found since operation n, or
\* else what that operation put in place.
VerdictFollows(i, r, n) ==
    LET plans == LaterPlans(i, r, n) IN
    /\ plans = {} => verdicts[i][r] = IF r = RevisionOf(n) THEN "yes" ELSE "no"
    /\ \A p \in plans : (\A q \in plans : q <= p) =>
          verdicts[i][r] = IF PlanHasChanges(p) THEN "no" ELSE "yes"

VerdictsFollowReports(i) ==
    \A n \in DOMAIN jobs, r \in Revisions :
        IsLatestOperation(i, n) /\ jobs[n].state = "succeeded" => VerdictFollows(i, r, n)

\* The control plane and the runner of each checkout agree.
Agreement ==
    /\ ActiveIsLast /\ DecisionsNameRows /\ SuccessesAreTimed /\ ReceiptsOfSuccesses
    /\ \A i \in Checkouts :
          /\ ReportIsTrue(i) /\ LatestApplyOnTop(i)
          /\ ReceiptsFollowHistory(i) /\ VerdictsFollowReports(i)

AgreeingInv == SwitchingInv /\ Agreement

\* The rows are numbered and have their types.
LEMMA RowTypes ==
    ASSUME SwitchingInv
    PROVE  /\ jobs \in Seq(Rows) /\ Len(jobs) \in Nat /\ DOMAIN jobs = 1 .. Len(jobs)
           /\ DOMAIN jobs \subseteq JobIds
           /\ \A n \in DOMAIN jobs : jobs[n] \in Rows
<1>1. jobs \in Seq(Rows) /\ Len(jobs) \in Nat /\ DOMAIN jobs = 1 .. Len(jobs)
    BY LenProperties DEF SwitchingInv, TypeOK
<1>2. \A n \in DOMAIN jobs : jobs[n] \in Rows
    BY <1>1, ElementOfSeq
<1> QED BY <1>1, <1>2, SwitchingAssumption DEF SwitchingInv, TypeOK, JobIds

\* A row that nothing is reported of: what is in flight may go on, or end without success.
QuietRow(n) ==
    /\ jobs'[n].checkout = jobs[n].checkout /\ jobs'[n].kind = jobs[n].kind
    /\ jobs'[n].revision = jobs[n].revision /\ jobs'[n].of = jobs[n].of
    /\ jobs'[n].result = jobs[n].result
    /\ \/ jobs'[n].state = jobs[n].state /\ jobs'[n].completed = jobs[n].completed
       \/ /\ jobs[n].state \in InFlight
          /\ jobs'[n].state \in {"claimed", "stopping", "cancelled", "expired"}
          /\ jobs[n].state \in Held => jobs'[n].state \in {"stopping", "expired"}

\* A row that is inserted: it is the only one of its checkout that is in flight, and
\* names what it is about.
NewRow ==
    LET new == jobs'[Len(jobs) + 1]
        named == new.of
    IN  /\ Len(jobs') = Len(jobs) + 1
        /\ new.state = "pending"
        /\ \A m \in DOMAIN jobs : jobs[m].checkout = new.checkout => jobs'[m].state \notin InFlight
        /\ new.kind \in {"applyPlan", "rollbackOperation"} =>
              named \in DOMAIN jobs /\ jobs[named].checkout = new.checkout
        /\ new.kind = "applyPlan" =>
              /\ jobs[named].kind = "planSetup" /\ jobs[named].state = "succeeded"
              /\ jobs[named].revision = new.revision
              /\ \A m \in DOMAIN jobs :
                    jobs[m].kind = "planSetup" /\ jobs[m].checkout = new.checkout => m <= named

\* What requests and delivery do, but for the delivery of results.
QuietStep ==
    /\ UNCHANGED <<receipts, assigned, checkout, history, outbox, lost, verdicts>>
    /\ \A n \in DOMAIN jobs : QuietRow(n)
    /\ Len(jobs') = Len(jobs) \/ NewRow

------------------------------------------------------------------------------
\* What a request does to the table.
LEMMA EnqueueRows ==
    ASSUME SwitchingInv, NEW i \in Checkouts, NEW kind \in Kinds, NEW r \in MaybeRevision,
           NEW of \in 0 .. MaxJobs, Admits(i), Enqueue(i, kind, r, of)
    PROVE  /\ UNCHANGED <<receipts, assigned, checkout, history, outbox, lost, verdicts>>
           /\ Len(jobs') = Len(jobs) + 1
           /\ \A n \in DOMAIN jobs :
                 /\ QuietRow(n)
                 /\ jobs[n].checkout = i => jobs'[n].state \notin InFlight
           /\ LET row == jobs'[Len(jobs) + 1]
              IN  row.checkout = i /\ row.kind = kind /\ row.revision = r /\ row.of = of
                  /\ row.state = "pending"
<1> DEFINE
      old == [n \in DOMAIN jobs |->
                IF n \in ActiveOf(i) /\ jobs[n].state = "pending"
                THEN [jobs[n] EXCEPT !.state = "expired", !.completed = IssuedAt(Len(jobs) + 1)]
                ELSE jobs[n]]
      job == [checkout |-> i, kind |-> kind, revision |-> r, of |-> of,
              completed |-> 0, state |-> "pending", result |-> Nothing]
<1>1. /\ jobs' = Append(old, job)
      /\ UNCHANGED <<receipts, assigned, checkout, history, outbox, lost, verdicts>>
    BY DEF Enqueue, runnerVars
<1>2. jobs \in Seq(Rows) /\ Len(jobs) \in Nat /\ DOMAIN jobs = 1 .. Len(jobs)
      /\ \A n \in DOMAIN jobs : jobs[n] \in Rows
    BY RowTypes
<1>3. \A n \in DOMAIN jobs : old[n] \in Rows
    <2>1. IssuedAt(Len(jobs) + 1) \in Nat /\ "expired" \in States
        BY <1>2 DEF IssuedAt, States
    <2> QED BY <1>2, <2>1 DEF Rows
<1>4. old \in Seq(Rows) /\ Len(old) = Len(jobs)
    <2>1. old \in [1 .. Len(jobs) -> Rows]
        BY <1>2, <1>3
    <2> HIDE DEF old
    <2> QED BY <1>2, <2>1, SeqDef, LenProperties
<1>5. job \in Rows
    BY DEF Rows, States, InFlight
<1>6. \A n \in DOMAIN jobs :
          /\ old[n].checkout = jobs[n].checkout /\ old[n].kind = jobs[n].kind
          /\ old[n].revision = jobs[n].revision /\ old[n].of = jobs[n].of
          /\ old[n].result = jobs[n].result
          /\ \/ old[n].state = jobs[n].state /\ old[n].completed = jobs[n].completed
             \/ jobs[n].state = "pending" /\ old[n].state = "expired"
          /\ jobs[n].checkout = i => old[n].state \notin InFlight
    <2> SUFFICES ASSUME NEW n \in DOMAIN jobs
                 PROVE  /\ old[n].checkout = jobs[n].checkout /\ old[n].kind = jobs[n].kind
                        /\ old[n].revision = jobs[n].revision /\ old[n].of = jobs[n].of
                        /\ old[n].result = jobs[n].result
                        /\ \/ old[n].state = jobs[n].state /\ old[n].completed = jobs[n].completed
                           \/ jobs[n].state = "pending" /\ old[n].state = "expired"
                        /\ jobs[n].checkout = i => old[n].state \notin InFlight
        OBVIOUS
    <2>1. jobs[n] \in Rows
        BY <1>2
    <2>2. CASE n \in ActiveOf(i) /\ jobs[n].state = "pending"
        <3>1. old[n] = [jobs[n] EXCEPT !.state = "expired", !.completed = IssuedAt(Len(jobs) + 1)]
            BY <2>2
        <3> HIDE DEF old
        <3> QED BY <2>1, <2>2, <3>1 DEF Rows, InFlight, Held
    <2>3. CASE ~(n \in ActiveOf(i) /\ jobs[n].state = "pending")
        <3>1. old[n] = jobs[n]
            BY <2>3
        <3>2. jobs[n].checkout = i => jobs[n].state \notin InFlight
            BY <2>3 DEF Admits, ActiveOf, JobsOf
        <3> QED BY <3>1, <3>2
    <2> QED BY <2>2, <2>3
<1> HIDE DEF old, job
<1>7. /\ Len(jobs') = Len(jobs) + 1
      /\ \A n \in DOMAIN jobs : jobs'[n] = old[n]
      /\ jobs'[Len(jobs) + 1] = job
    BY <1>1, <1>2, <1>4, <1>5, AppendProperties, LenProperties
<1>8. \A n \in DOMAIN jobs : QuietRow(n)
    BY <1>6, <1>7 DEF QuietRow, InFlight, Held
<1> QED BY <1>1, <1>6, <1>7, <1>8 DEF job


\* The last of a set of rows.
LEMMA LastIsLast ==
    ASSUME SwitchingInv, NEW S, S \subseteq DOMAIN jobs
    PROVE  \/ S = {} /\ LastIn(S) = 0
           \/ LastIn(S) \in S /\ \A m \in S : m <= LastIn(S)
<1>1. CASE S = {}
    BY <1>1 DEF LastIn
<1>2. CASE S # {}
    <2> DEFINE T == {Len(jobs) - s : s \in S}
    <2>1. Len(jobs) \in Nat /\ \A s \in S : s \in 1 .. Len(jobs)
        BY RowTypes
    <2>2. T \subseteq Nat /\ T # {}
        BY <1>2, <2>1
    <2>3. \E x \in T : \A y \in T : ~ (<<y, x>> \in OpToRel(<, Nat))
        <3> HIDE DEF T
        <3> QED BY <2>2, NatLessThanWellFounded, WFMin, Zenon
    <2>4. PICK x \in T : \A y \in T : ~ (y < x)
        BY <2>2, <2>3 DEF OpToRel
    <2>5. PICK n \in S : x = Len(jobs) - n
        OBVIOUS
    <2>6. \A m \in S : m <= n
        <3> SUFFICES ASSUME NEW m \in S PROVE m <= n
            OBVIOUS
        <3>1. Len(jobs) - m \in T
            OBVIOUS
        <3>2. ~ (Len(jobs) - m < Len(jobs) - n)
            BY <2>4, <2>5, <3>1
        <3> QED BY <2>1, <3>2
    <2> QED BY <1>2, <2>6 DEF LastIn
<1> QED BY <1>1, <1>2

\* One row of the table is rewritten as delivery does it.
LEMMA QuietUpdate ==
    ASSUME SwitchingInv, NEW n \in DOMAIN jobs, NEW row \in Successors(n),
           jobs' = [jobs EXCEPT ![n] = row], QuietRow(n),
           UNCHANGED <<receipts, assigned, runnerVars, verdicts>>
    PROVE  QuietStep
<1>1. jobs \in Seq(Rows) /\ row \in Rows
    BY DEF SwitchingInv, TypeOK, Successors
<1>2. Len(jobs') = Len(jobs)
    BY <1>1, ExceptSeq, LenProperties
<1>3. \A m \in DOMAIN jobs : QuietRow(m)
    <2> SUFFICES ASSUME NEW m \in DOMAIN jobs, m # n PROVE QuietRow(m)
        OBVIOUS
    <2>1. jobs'[m] = jobs[m]
        OBVIOUS
    <2> QED BY <2>1 DEF QuietRow
<1> QED BY <1>2, <1>3 DEF QuietStep, runnerVars

\* Requests and delivery leave every row that has a result as it is.
LEMMA QuietSteps ==
    ASSUME SwitchingInv,
           \/ \E i \in Checkouts, r \in Revisions : RequestPlan(i, r)
           \/ \E i \in Checkouts, n \in JobIds : ApproveAndEnqueueApply(i, n)
           \/ \E i \in Checkouts, n \in JobIds : EnqueueRollback(i, n)
           \/ \E n \in JobIds : RequestCancellation(n) \/ Claim(n) \/ ExpireOverdue(n)
    PROVE  QuietStep
<1>1. /\ Len(jobs) \in Nat /\ DOMAIN jobs = 1 .. Len(jobs)
      /\ DOMAIN jobs \subseteq JobIds /\ JobIds \subseteq 0 .. MaxJobs /\ 0 \in 0 .. MaxJobs
      /\ \A n \in DOMAIN jobs : jobs[n] \in Rows
    BY RowTypes, SwitchingAssumption DEF JobIds
<1>2. ASSUME NEW i \in Checkouts, NEW kind \in Kinds, NEW r \in MaybeRevision,
             NEW of \in 0 .. MaxJobs, Admits(i), Enqueue(i, kind, r, of),
             kind \in {"applyPlan", "rollbackOperation"} =>
                of \in DOMAIN jobs /\ jobs[of].checkout = i,
             kind = "applyPlan" =>
                /\ jobs[of].kind = "planSetup" /\ jobs[of].state = "succeeded"
                /\ jobs[of].revision = r
                /\ \A m \in DOMAIN jobs :
                      jobs[m].kind = "planSetup" /\ jobs[m].checkout = i => m <= of
      PROVE  QuietStep
    <2> DEFINE row == jobs'[Len(jobs) + 1]
    <2>1. /\ UNCHANGED <<receipts, assigned, checkout, history, outbox, lost, verdicts>>
          /\ Len(jobs') = Len(jobs) + 1
          /\ \A n \in DOMAIN jobs :
                QuietRow(n) /\ (jobs[n].checkout = i => jobs'[n].state \notin InFlight)
          /\ row.checkout = i /\ row.kind = kind /\ row.revision = r /\ row.of = of
          /\ row.state = "pending"
        BY <1>2, EnqueueRows
    <2>2. NewRow
        BY <1>2, <2>1 DEF NewRow
    <2> QED BY <2>1, <2>2 DEF QuietStep
<1>3. ASSUME NEW i \in Checkouts, NEW r \in Revisions, RequestPlan(i, r) PROVE QuietStep
    BY <1>1, <1>2, <1>3 DEF RequestPlan, Kinds, MaybeRevision
<1>4. ASSUME NEW i \in Checkouts, NEW p \in JobIds, ApproveAndEnqueueApply(i, p)
      PROVE  QuietStep
    <2>1. /\ p \in DOMAIN jobs /\ jobs[p].checkout = i /\ jobs[p].kind = "planSetup"
          /\ jobs[p].state = "succeeded" /\ p = LastIn(PlansOf(i))
          /\ Admits(i) /\ Enqueue(i, "applyPlan", jobs[p].revision, p)
        BY <1>4 DEF ApproveAndEnqueueApply, Approvable, LatestPlanAttempt, PlansOf, JobsOf
    <2>2. \A m \in PlansOf(i) : m <= p
        <3>1. PlansOf(i) \subseteq DOMAIN jobs
            BY DEF PlansOf, JobsOf
        <3> QED BY <2>1, <3>1, LastIsLast
    <2>3. \A m \in DOMAIN jobs :
              jobs[m].kind = "planSetup" /\ jobs[m].checkout = i => m <= p
        BY <2>2 DEF PlansOf, JobsOf
    <2>4. jobs[p].revision \in MaybeRevision /\ p \in 0 .. MaxJobs /\ "applyPlan" \in Kinds
        BY <1>1, <2>1 DEF Rows, Kinds
    <2> QED BY <1>2, <2>1, <2>3, <2>4
<1>5. ASSUME NEW i \in Checkouts, NEW a \in JobIds, EnqueueRollback(i, a) PROVE QuietStep
    <2>1. /\ a \in DOMAIN jobs /\ jobs[a].checkout = i /\ Admits(i)
          /\ Enqueue(i, "rollbackOperation", NoRevision, a)
        BY <1>5 DEF EnqueueRollback, JobsOf
    <2> QED BY <1>1, <1>2, <2>1 DEF Kinds, MaybeRevision
<1>6. ASSUME NEW n \in JobIds, RequestCancellation(n) \/ Claim(n) \/ ExpireOverdue(n)
      PROVE  QuietStep
    <2>1. n \in DOMAIN jobs /\ jobs[n] \in Rows
        BY <1>1, <1>6 DEF RequestCancellation, Claim, ExpireOverdue
    <2>2. UNCHANGED <<receipts, assigned, runnerVars, verdicts>>
        BY <1>6 DEF RequestCancellation, Claim, ExpireOverdue
    <2>3. ASSUME NEW state \in {"claimed", "stopping", "expired"},
                 jobs[n].state \in InFlight,
                 jobs[n].state \in Held => state \in {"stopping", "expired"},
                 jobs' = [jobs EXCEPT ![n].state = state]
          PROVE  QuietStep
        <3> DEFINE row == [jobs[n] EXCEPT !.state = state]
        <3>1. row \in Successors(n)
            BY <2>1 DEF Successors, Rows, States, InFlight, Held
        <3>2. jobs' = [jobs EXCEPT ![n] = row]
            BY <2>3
        <3>3. jobs'[n] = row
            BY <2>1, <3>2
        <3>4. QuietRow(n)
            BY <2>1, <2>3, <3>3 DEF QuietRow, Rows
        <3> HIDE DEF row
        <3> QED BY <2>1, <2>2, <3>1, <3>2, <3>4, QuietUpdate
    <2>4. CASE RequestCancellation(n) /\ jobs[n].state = "pending"
        <3> DEFINE row == [jobs[n] EXCEPT !.state = "cancelled", !.completed = Now]
        <3>1. row \in Successors(n)
            <4>1. Now \in Nat
                BY <1>1 DEF Now
            <4> QED BY <2>1, <4>1 DEF Successors, Rows, States
        <3>2. jobs' = [jobs EXCEPT ![n] = row]
            BY <2>1, <2>4 DEF RequestCancellation
        <3>3. jobs'[n] = row
            BY <2>1, <3>2
        <3>4. QuietRow(n)
            BY <2>1, <2>4, <3>3 DEF QuietRow, Rows, InFlight, Held
        <3> HIDE DEF row
        <3> QED BY <2>1, <2>2, <3>1, <3>2, <3>4, QuietUpdate
    <2>5. CASE RequestCancellation(n) /\ jobs[n].state # "pending"
        BY <2>1, <2>3, <2>5 DEF RequestCancellation, InFlight, Held
    <2>6. CASE Claim(n)
        BY <2>3, <2>6 DEF Claim, InFlight, Held
    <2>7. CASE ExpireOverdue(n)
        BY <2>3, <2>7 DEF ExpireOverdue
    <2> QED BY <1>6, <2>4, <2>5, <2>6, <2>7
<1> QED BY <1>3, <1>4, <1>5, <1>6

\* They keep what the agreement rests on.
LEMMA QuietKeeps ==
    ASSUME AgreeingInv, QuietStep, SwitchingInv'
    PROVE  Agreement'
<1>1. /\ Len(jobs) \in Nat /\ DOMAIN jobs = 1 .. Len(jobs)
      /\ Len(jobs') \in Nat /\ DOMAIN jobs' = 1 .. Len(jobs')
      /\ DOMAIN jobs \subseteq JobIds /\ DOMAIN jobs' \subseteq JobIds
      /\ receipts' = receipts /\ checkout' = checkout /\ history' = history
      /\ outbox' = outbox /\ lost' = lost /\ verdicts' = verdicts
    BY RowTypes, LenProperties, SwitchingAssumption
       DEF AgreeingInv, SwitchingInv, TypeOK, JobIds, QuietStep
<1>2. /\ DOMAIN jobs \subseteq DOMAIN jobs' /\ Len(jobs) <= Len(jobs')
      /\ \A n \in DOMAIN jobs' : n \in DOMAIN jobs \/ n = Len(jobs) + 1
      /\ \A n \in DOMAIN jobs : n < Len(jobs) + 1 /\ n \in Nat
      /\ Len(jobs) + 1 \in DOMAIN jobs' => NewRow
    <2>1. CASE Len(jobs') = Len(jobs)
        BY <1>1, <2>1
    <2>2. CASE Len(jobs') = Len(jobs) + 1 /\ NewRow
        <3> HIDE DEF NewRow
        <3> QED BY <1>1, <2>2
    <2> QED BY <2>1, <2>2 DEF QuietStep, NewRow
<1>3. \A n \in DOMAIN jobs :
          /\ jobs'[n].checkout = jobs[n].checkout /\ jobs'[n].kind = jobs[n].kind
          /\ jobs'[n].revision = jobs[n].revision /\ jobs'[n].of = jobs[n].of
          /\ jobs'[n].result = jobs[n].result
          /\ jobs'[n].state \in InFlight => jobs[n].state \in InFlight
          /\ jobs'[n].state = "succeeded" <=> jobs[n].state = "succeeded"
          /\ jobs[n].state = "succeeded" => jobs'[n].completed = jobs[n].completed
          /\ jobs[n].state # "pending" => jobs'[n].state # "pending"
          /\ jobs[n].state \in Held => jobs'[n].state \in Held \cup {"expired"}
          /\ jobs[n].state = "expired" => jobs'[n].state = "expired"
    BY DEF QuietStep, QuietRow, InFlight, Held
<1>4. \A n \in DOMAIN jobs' \ DOMAIN jobs : jobs'[n].state = "pending"
    BY <1>2 DEF NewRow
<1>5. ActiveIsLast'
    <2> SUFFICES ASSUME NEW n \in DOMAIN jobs', jobs'[n].state \in InFlight,
                        NEW m \in DOMAIN jobs', jobs'[m].checkout = jobs'[n].checkout
                 PROVE  m <= n
        BY DEF ActiveIsLast
    <2>1. CASE n \in DOMAIN jobs /\ m \in DOMAIN jobs
        BY <1>3, <2>1 DEF AgreeingInv, Agreement, ActiveIsLast
    <2>2. CASE n = Len(jobs) + 1
        BY <1>1, <1>2, <2>2
    <2>3. CASE n \in DOMAIN jobs /\ m = Len(jobs) + 1
        BY <1>2, <1>3, <2>3 DEF NewRow
    <2> QED BY <1>2, <2>1, <2>2, <2>3
<1>6. DecisionsNameRows'
    <2> SUFFICES ASSUME NEW n \in DOMAIN jobs'
                 PROVE  LET named == jobs'[n].of IN
                        /\ jobs'[n].kind \in {"applyPlan", "rollbackOperation"} =>
                              /\ named \in DOMAIN jobs' /\ named < n
                              /\ jobs'[named].checkout = jobs'[n].checkout
                        /\ jobs'[n].kind = "applyPlan" =>
                              /\ jobs'[named].kind = "planSetup"
                              /\ jobs'[named].state = "succeeded"
                              /\ jobs'[named].revision = jobs'[n].revision
                              /\ \A m \in DOMAIN jobs' :
                                    /\ jobs'[m].kind = "planSetup"
                                    /\ jobs'[m].checkout = jobs'[n].checkout /\ m < n
                                    => m <= named
        BY DEF DecisionsNameRows
    <2>1. CASE n \in DOMAIN jobs
        <3>1. \A m \in DOMAIN jobs' : m < n => m \in DOMAIN jobs
            BY <1>1, <1>2, <2>1
        <3> QED BY <1>2, <1>3, <2>1, <3>1 DEF AgreeingInv, Agreement, DecisionsNameRows
    <2>2. CASE n = Len(jobs) + 1
        <3>1. \A m \in DOMAIN jobs' : m < n => m \in DOMAIN jobs
            BY <1>1, <1>2, <2>2
        <3> QED BY <1>2, <1>3, <2>2, <3>1 DEF NewRow
    <2> QED BY <1>2, <2>1, <2>2
<1>7. SuccessesAreTimed'
    <2> SUFFICES ASSUME NEW n \in DOMAIN jobs', jobs'[n].state = "succeeded"
                 PROVE  /\ jobs'[n].result.kind = DoneBy(jobs'[n].kind)
                        /\ IssuedAt(n) < jobs'[n].completed /\ jobs'[n].completed <= Now'
                        /\ \A m \in DOMAIN jobs' :
                              jobs'[m].checkout = jobs'[n].checkout /\ n < m
                                 => jobs'[n].completed < IssuedAt(m)
        BY DEF SuccessesAreTimed, IssuedAt
    <2>1. /\ n \in DOMAIN jobs /\ jobs[n].state = "succeeded"
          /\ jobs'[n].completed = jobs[n].completed
          /\ jobs'[n].checkout = jobs[n].checkout /\ jobs'[n].kind = jobs[n].kind
          /\ jobs'[n].result = jobs[n].result
        BY <1>3, <1>4
    <2>2. /\ jobs[n].result.kind = DoneBy(jobs[n].kind)
          /\ IssuedAt(n) < jobs[n].completed /\ jobs[n].completed <= Now
          /\ \A m \in DOMAIN jobs :
                jobs[m].checkout = jobs[n].checkout /\ n < m => jobs[n].completed < IssuedAt(m)
        BY <2>1 DEF AgreeingInv, Agreement, SuccessesAreTimed
    <2>3. jobs[n].completed \in Nat
        BY <2>1, RowTypes DEF AgreeingInv, Rows
    <2>4. Now <= Now' /\ Now < IssuedAt(Len(jobs) + 1) /\ Now \in Nat /\ Now' \in Nat
          /\ IssuedAt(Len(jobs) + 1) \in Nat
        BY <1>1, <1>2 DEF Now, IssuedAt
    <2>5. jobs[n].completed <= Now' /\ jobs[n].completed < IssuedAt(Len(jobs) + 1)
        BY <2>2, <2>3, <2>4
    <2> QED BY <1>2, <1>3, <2>1, <2>2, <2>5
<1>8. ReceiptsOfSuccesses'
    <2>1. \A n \in JobIds : receipts[n] # Nothing => n \in DOMAIN jobs
        BY DEF AgreeingInv, SwitchingInv, TypeOK
    <2>2. ASSUME NEW n \in JobIds, receipts'[n] # Nothing
          PROVE  /\ jobs'[n].state = "succeeded"
                 /\ receipts'[n].outcome = "rolledBack" =>
                       \E m \in DOMAIN jobs' :
                          jobs'[m].kind = "rollbackOperation" /\ jobs'[m].of = n
        <3>1. /\ n \in DOMAIN jobs /\ jobs[n].state = "succeeded"
              /\ receipts[n].outcome = "rolledBack" =>
                    \E m \in DOMAIN jobs : jobs[m].kind = "rollbackOperation" /\ jobs[m].of = n
            BY <1>1, <2>1, <2>2 DEF AgreeingInv, Agreement, ReceiptsOfSuccesses
        <3> QED BY <1>1, <1>2, <1>3, <3>1
    <2>3. ASSUME NEW n \in DOMAIN jobs', jobs'[n].kind = "applyPlan",
                 jobs'[n].state = "succeeded",
                 jobs'[n].result.recoverability = "rollbackAvailable"
          PROVE  receipts'[n] # Nothing /\ receipts'[n].outcome \in {"applied", "rolledBack"}
        <3>1. n \in DOMAIN jobs
            BY <1>4, <2>3
        <3> QED BY <1>1, <1>3, <2>3, <3>1 DEF AgreeingInv, Agreement, ReceiptsOfSuccesses
    <2> QED BY <2>2, <2>3 DEF ReceiptsOfSuccesses
<1>9. \A i \in Checkouts : \A n, k :
          /\ IsLatest(i, n, k)' <=> IsLatest(i, n, k)
          /\ Kept(i, n, k)' <=> Kept(i, n, k)
    BY <1>1 DEF IsLatest, LatestInHistory, Kept
<1>10. \A i \in Checkouts : ReportIsTrue(i)'
    <2> SUFFICES ASSUME NEW i \in Checkouts PROVE ReportIsTrue(i)'
        OBVIOUS
    <2>1. outbox[i] # Nothing => outbox[i].job \in DOMAIN jobs
        BY DEF AgreeingInv, SwitchingInv, Links, JobsOf
    <2>2. ReportIsTrue(i)
        BY DEF AgreeingInv, Agreement
    <2> QED BY <1>1, <1>3, <2>1, <2>2 DEF ReportIsTrue, DoneBy, IsLatest, LatestInHistory, Kept
<1>11. \A i \in Checkouts, n \in DOMAIN jobs' :
           IsLatestOperation(i, n)' /\ jobs'[n].state = "succeeded" =>
              n \in DOMAIN jobs /\ IsLatestOperation(i, n)
    BY <1>2, <1>3, <1>4 DEF IsLatestOperation, OperationsOf, PlansOf, JobsOf
<1>12. \A i \in Checkouts : LatestApplyOnTop(i)'
    <2> SUFFICES ASSUME NEW i \in Checkouts, NEW n \in DOMAIN jobs',
                        IsLatestOperation(i, n)', jobs'[n].kind = "applyPlan",
                        jobs'[n].state = "succeeded"
                 PROVE  IsLatest(i, n, receipts[n].operation)'
        BY DEF LatestApplyOnTop
    <2>1. n \in DOMAIN jobs /\ IsLatest(i, n, receipts[n].operation)
        BY <1>3, <1>11 DEF AgreeingInv, Agreement, LatestApplyOnTop
    <2> QED BY <1>1, <2>1 DEF IsLatest, LatestInHistory
<1>13. \A i \in Checkouts : ReceiptsFollowHistory(i)'
    <2> SUFFICES ASSUME NEW i \in Checkouts, NEW n \in DOMAIN jobs',
                        jobs'[n].checkout = i, receipts[n] # Nothing
                 PROVE  IF receipts[n].outcome = "rolledBack"
                        THEN ~Kept(i, n, receipts[n].operation)
                        ELSE \/ Kept(i, n, receipts[n].operation)
                             \/ \E m \in DOMAIN jobs' :
                                   /\ jobs'[m].checkout = i
                                   /\ jobs'[m].kind = "rollbackOperation" /\ jobs'[m].of = n
                                   /\ \/ jobs'[m].state = "expired" \/ m \in lost
                                      \/ /\ jobs'[m].state \in Held /\ Reported(i, m)
                                         /\ outbox[i].result.kind = "rollback"
        BY <1>1 DEF ReceiptsFollowHistory, JobsOf, Kept, Reported
    <2>1. n \in DOMAIN jobs /\ jobs[n].checkout = i
        BY <1>1, <1>3 DEF AgreeingInv, SwitchingInv, TypeOK
    <2>2. IF receipts[n].outcome = "rolledBack" THEN ~Kept(i, n, receipts[n].operation)
          ELSE \/ Kept(i, n, receipts[n].operation)
               \/ \E m \in DOMAIN jobs :
                     /\ jobs[m].checkout = i
                     /\ jobs[m].kind = "rollbackOperation" /\ jobs[m].of = n
                     /\ \/ jobs[m].state = "expired" \/ m \in lost
                        \/ /\ jobs[m].state \in Held /\ Reported(i, m)
                           /\ outbox[i].result.kind = "rollback"
        BY <2>1 DEF AgreeingInv, Agreement, ReceiptsFollowHistory, JobsOf
    <2> QED BY <1>2, <1>3, <2>2
<1>14. \A i \in Checkouts : VerdictsFollowReports(i)'
    <2> SUFFICES ASSUME NEW i \in Checkouts, NEW n \in DOMAIN jobs', NEW r \in Revisions,
                        IsLatestOperation(i, n)', jobs'[n].state = "succeeded"
                 PROVE  VerdictFollows(i, r, n)'
        BY DEF VerdictsFollowReports
    <2>1. n \in DOMAIN jobs /\ VerdictFollows(i, r, n)
        BY <1>3, <1>11 DEF AgreeingInv, Agreement, VerdictsFollowReports
    <2>2. LaterPlans(i, r, n)' = LaterPlans(i, r, n)
        BY <1>2, <1>3, <1>4 DEF LaterPlans, PlansOf, JobsOf
    <2>3. RevisionOf(n)' = RevisionOf(n)
        BY <1>3, <2>1 DEF RevisionOf
    <2>4. \A p \in LaterPlans(i, r, n) : PlanHasChanges(p)' <=> PlanHasChanges(p)
        BY <1>3 DEF PlanHasChanges, LaterPlans, PlansOf, JobsOf
    <2> QED BY <1>1, <2>1, <2>2, <2>3, <2>4 DEF VerdictFollows
<1> QED BY <1>5, <1>6, <1>7, <1>8, <1>10, <1>12, <1>13, <1>14 DEF Agreement

------------------------------------------------------------------------------
\* What a runner does bears on its own checkout only.
LEMMA RunnerKeeps ==
    ASSUME AgreeingInv, NEW i \in Checkouts, UNCHANGED <<jobs, receipts, verdicts>>,
           lost \subseteq lost',
           \A k \in Checkouts : k # i =>
              checkout'[k] = checkout[k] /\ history'[k] = history[k] /\ outbox'[k] = outbox[k],
           ReportIsTrue(i)', LatestApplyOnTop(i)', ReceiptsFollowHistory(i)'
    PROVE  Agreement'
<1>1. ActiveIsLast' /\ DecisionsNameRows' /\ SuccessesAreTimed' /\ ReceiptsOfSuccesses'
    <2>1. ActiveIsLast'
        BY DEF AgreeingInv, Agreement, ActiveIsLast
    <2>2. DecisionsNameRows'
        BY DEF AgreeingInv, Agreement, DecisionsNameRows
    <2>3. SuccessesAreTimed'
        BY DEF AgreeingInv, Agreement, SuccessesAreTimed, IssuedAt, Now, DoneBy
    <2>4. ReceiptsOfSuccesses'
        BY DEF AgreeingInv, Agreement, ReceiptsOfSuccesses
    <2> QED BY <2>1, <2>2, <2>3, <2>4
<1>2. ASSUME NEW k \in Checkouts
      PROVE  VerdictsFollowReports(k)'
    BY DEF AgreeingInv, Agreement, VerdictsFollowReports, VerdictFollows, LaterPlans,
           IsLatestOperation, OperationsOf, PlansOf, JobsOf, RevisionOf, PlanHasChanges
<1>3. ASSUME NEW k \in Checkouts, k # i
      PROVE  ReportIsTrue(k)' /\ LatestApplyOnTop(k)' /\ ReceiptsFollowHistory(k)'
    <2>1. ReportIsTrue(k) /\ LatestApplyOnTop(k) /\ ReceiptsFollowHistory(k)
        BY DEF AgreeingInv, Agreement
    <2>2. ReportIsTrue(k)'
        BY <1>3, <2>1 DEF ReportIsTrue, IsLatest, LatestInHistory, Kept, DoneBy
    <2>3. LatestApplyOnTop(k)'
        BY <1>3, <2>1 DEF LatestApplyOnTop, IsLatest, LatestInHistory,
              IsLatestOperation, OperationsOf, PlansOf, JobsOf
    <2>4. ReceiptsFollowHistory(k)'
        BY <1>3, <2>1 DEF ReceiptsFollowHistory, Reported, JobsOf, Kept
    <2> QED BY <2>2, <2>3, <2>4
<1> QED BY <1>1, <1>2, <1>3 DEF Agreement

\* An edit changes what is found in a checkout, and not which revision it holds.
LEMMA EditKeeps ==
    ASSUME AgreeingInv, NEW i \in Checkouts, NEW shape \in Shapes, Edit(i, shape)
    PROVE  Agreement'
<1>1. /\ UNCHANGED <<jobs, receipts, verdicts, history, outbox, lost>>
      /\ checkout' = [checkout EXCEPT ![i].content.shape = shape]
    BY DEF Edit, serverVars
<1>2. checkout \in [Checkouts -> Trees] /\ checkout[i].content \in Contents
    BY RunnerTypes DEF AgreeingInv, SwitchingInv, TypeOK
<1>3. /\ \A k \in Checkouts : k # i => checkout'[k] = checkout[k]
      /\ checkout'[i].content.holds = checkout[i].content.holds
    BY <1>1, <1>2 DEF Trees, Contents
<1>4. ReportIsTrue(i) /\ LatestApplyOnTop(i) /\ ReceiptsFollowHistory(i)
    BY DEF AgreeingInv, Agreement
<1>5. ReportIsTrue(i)'
    BY <1>1, <1>3, <1>4 DEF ReportIsTrue, IsLatest, LatestInHistory, Kept, DoneBy
<1>6. LatestApplyOnTop(i)'
    BY <1>1, <1>4 DEF LatestApplyOnTop, IsLatest, LatestInHistory,
          IsLatestOperation, OperationsOf, PlansOf, JobsOf
<1>7. ReceiptsFollowHistory(i)'
    BY <1>1, <1>4 DEF ReceiptsFollowHistory, Reported, JobsOf, Kept
<1> QED BY <1>1, <1>3, <1>5, <1>6, <1>7, RunnerKeeps

\* A result that is saved stays true; one that a crash takes is known to be lost.
LEMMA SaveKeeps ==
    ASSUME AgreeingInv, NEW i \in Checkouts, FinishJob(i) \/ Crash(i)
    PROVE  Agreement'
<1>1. /\ UNCHANGED <<jobs, receipts, verdicts, checkout, history>>
      /\ lost \subseteq lost' /\ outbox[i] # Nothing /\ outbox[i] \in Deliveries
      /\ outbox \in [Checkouts -> Deliveries \cup {Nothing}]
    BY DEF FinishJob, Crash, serverVars, AgreeingInv, SwitchingInv, TypeOK
<1>2. ReportIsTrue(i) /\ LatestApplyOnTop(i) /\ ReceiptsFollowHistory(i)
    BY DEF AgreeingInv, Agreement
<1>3. /\ \A k \in Checkouts : k # i => outbox'[k] = outbox[k]
      /\ \/ /\ outbox'[i].job = outbox[i].job /\ outbox'[i].result = outbox[i].result
            /\ outbox'[i] # Nothing
         \/ /\ outbox'[i] = Nothing
            /\ outbox[i].result.kind = "rollback" => outbox[i].job \in lost'
    <2>1. CASE FinishJob(i)
        <3>1. /\ [outbox[i] EXCEPT !.saved = TRUE] \in Deliveries
              /\ [outbox[i] EXCEPT !.saved = TRUE].job = outbox[i].job
              /\ [outbox[i] EXCEPT !.saved = TRUE].result = outbox[i].result
            BY <1>1 DEF Deliveries
        <3>2. /\ outbox'[i] = [outbox[i] EXCEPT !.saved = TRUE]
              /\ \A k \in Checkouts : k # i => outbox'[k] = outbox[k]
            BY <1>1, <2>1 DEF FinishJob
        <3> QED BY <3>1, <3>2, NothingAssumption
    <2>2. CASE Crash(i)
        BY <1>1, <2>2 DEF Crash
    <2> QED BY <2>1, <2>2
<1>4. ReportIsTrue(i)'
    BY <1>1, <1>2, <1>3 DEF ReportIsTrue, IsLatest, LatestInHistory, Kept, DoneBy
<1>5. LatestApplyOnTop(i)'
    BY <1>1, <1>2 DEF LatestApplyOnTop, IsLatest, LatestInHistory,
          IsLatestOperation, OperationsOf, PlansOf, JobsOf
<1>6. ReceiptsFollowHistory(i)'
    BY <1>1, <1>2, <1>3 DEF ReceiptsFollowHistory, Reported, JobsOf, Kept
<1> QED BY <1>1, <1>3, <1>4, <1>5, <1>6, RunnerKeeps

\* While a job is held, it is the last of its checkout.
LEMMA WhileHeld ==
    ASSUME AgreeingInv, NEW i \in Checkouts, NEW n \in JobsOf(i), jobs[n].state \in Held
    PROVE  jobs[n] \in Rows /\ \A m \in JobsOf(i) : m <= n
<1>1. \A m \in JobsOf(i) : m <= n
    BY DEF AgreeingInv, Agreement, ActiveIsLast, JobsOf, InFlight
<1>2. jobs[n] \in Rows
    BY RowTypes DEF AgreeingInv, JobsOf
<1> QED BY <1>1, <1>2

\* The report of a runner that had none.
LEMMA WhatIsReported ==
    ASSUME AgreeingInv, NEW i \in Checkouts, NEW n \in JobsOf(i),
           NEW kind \in {"plan", "apply", "rollback", "error", "cancellation"},
           NEW digest \in Digests \cup {"none"}, NEW r \in MaybeRevision,
           NEW operation \in Nat,
           NEW recoverability \in {"notNeeded", "rollbackAvailable", "manualIntervention"},
           ReportOf(i, n, kind, digest, r, operation, recoverability)
    PROVE  /\ outbox'[i] # Nothing /\ outbox'[i].job = n
           /\ outbox'[i].result.kind = kind /\ outbox'[i].result.revision = r
           /\ outbox'[i].result.operation = operation
           /\ outbox'[i].result.recoverability = recoverability
           /\ \A k \in Checkouts : k # i => outbox'[k] = outbox[k]
           /\ lost' = lost
<1> DEFINE result == [kind |-> kind, digest |-> digest, revision |-> r,
                      operation |-> operation, recoverability |-> recoverability]
           delivery == [job |-> n, saved |-> FALSE, result |-> result]
<1>1. n \in JobIds
    BY RowTypes DEF AgreeingInv, JobsOf
<1>2. result \in Results
    BY DEF Results
<1>3. delivery \in Deliveries
    <2> HIDE DEF result
    <2> QED BY <1>1, <1>2 DEF Deliveries
<1>4. outbox \in [Checkouts -> Deliveries \cup {Nothing}]
    BY DEF AgreeingInv, SwitchingInv, TypeOK
<1>5. /\ outbox'[i] = delivery /\ lost' = lost
      /\ \A k \in Checkouts : k # i => outbox'[k] = outbox[k]
    BY <1>4 DEF ReportOf
<1>6. /\ delivery.job = n /\ delivery.result = result
      /\ result.kind = kind /\ result.revision = r /\ result.operation = operation
      /\ result.recoverability = recoverability
    OBVIOUS
<1>7. delivery # Nothing
    <2> HIDE DEF delivery
    <2> QED BY <1>3, NothingAssumption
<1> HIDE DEF delivery, result
<1> QED BY <1>5, <1>6, <1>7

\* A job ends with its history as it was: it made a plan, or failed, or was cancelled.
LEMMA ReportKeeps ==
    ASSUME AgreeingInv, NEW i \in Checkouts, NEW n \in JobsOf(i), jobs[n].state \in Held,
           outbox[i] = Nothing, UNCHANGED <<jobs, receipts, verdicts, history>>,
           \A k \in Checkouts : k # i => checkout'[k] = checkout[k],
           NEW kind \in {"plan", "error", "cancellation"},
           NEW digest \in Digests \cup {"none"}, NEW r \in MaybeRevision,
           NEW recoverability \in {"notNeeded", "manualIntervention"},
           ReportOf(i, n, kind, digest, r, 0, recoverability),
           kind = "plan" => jobs[n].kind = "planSetup",
           jobs[n].kind = "planSetup" => recoverability = "notNeeded"
    PROVE  Agreement'
<1>1. LatestApplyOnTop(i) /\ ReceiptsFollowHistory(i)
    BY DEF AgreeingInv, Agreement
<1>2. /\ outbox'[i] # Nothing /\ outbox'[i].job = n /\ lost' = lost
      /\ outbox'[i].result.kind = kind /\ outbox'[i].result.recoverability = recoverability
      /\ \A k \in Checkouts : k # i => outbox'[k] = outbox[k]
    <2>1. 0 \in Nat
        OBVIOUS
    <2> QED BY <2>1, WhatIsReported
<1>3. ReportIsTrue(i)'
    <2>1. jobs[n].state # "pending"
        BY DEF Held
    <2> QED BY <1>2, <2>1 DEF ReportIsTrue, DoneBy
<1>4. LatestApplyOnTop(i)'
    BY <1>1 DEF LatestApplyOnTop, IsLatest, LatestInHistory,
          IsLatestOperation, OperationsOf, PlansOf, JobsOf
<1>5. ReceiptsFollowHistory(i)'
    BY <1>1, <1>2 DEF ReceiptsFollowHistory, Reported, JobsOf, Kept
<1> QED BY <1>2, <1>3, <1>4, <1>5, RunnerKeeps

\* An apply that takes effect is on top of the history and reported.
LEMMA ApplyKeeps ==
    ASSUME AgreeingInv, NEW i \in Checkouts, NEW n \in JobIds, ExecuteApply(i, n)
    PROVE  Agreement'
<1> DEFINE entry == [job |-> n, previous |-> checkout[i].content.holds]
           Entries == [job : JobIds, previous : MaybeRevision]
<1>1. /\ n \in JobsOf(i) /\ jobs[n].kind = "applyPlan" /\ jobs[n].state \in Held
      /\ outbox[i] = Nothing /\ UNCHANGED <<jobs, receipts, verdicts>>
      /\ checkout' = [checkout EXCEPT ![i] = Whole(Intact(jobs[n].revision))]
      /\ history' = [history EXCEPT ![i] = Append(history[i], entry)]
    BY DEF ExecuteApply, Holds, serverVars
<1>2. /\ LatestApplyOnTop(i) /\ ReceiptsFollowHistory(i)
      /\ checkout \in [Checkouts -> Trees] /\ history \in [Checkouts -> Seq(Entries)]
    BY DEF AgreeingInv, Agreement, SwitchingInv, TypeOK
<1>3. checkout[i].content \in Contents /\ jobs[n].revision \in MaybeRevision
    BY <1>1, <1>2, WhileHeld DEF Trees, Rows
<1>4. entry \in Entries
    BY <1>3 DEF Contents
<1>5. /\ checkout'[i].content.holds = jobs[n].revision
      /\ \A k \in Checkouts : k # i => checkout'[k] = checkout[k]
      /\ history'[i] = Append(history[i], entry)
      /\ \A k \in Checkouts : k # i => history'[k] = history[k]
    BY <1>1, <1>2 DEF Whole, Intact
<1>6. /\ history[i] \in Seq(Entries) /\ Len(history[i]) \in Nat
      /\ DOMAIN history[i] = 1 .. Len(history[i])
      /\ Len(history'[i]) = Len(history[i]) + 1
      /\ DOMAIN history'[i] = 1 .. Len(history[i]) + 1
      /\ \A k \in DOMAIN history[i] : history'[i][k] = history[i][k]
      /\ history'[i][Len(history[i]) + 1] = entry
    <2> HIDE DEF entry, Entries
    <2> QED BY <1>2, <1>4, <1>5, AppendProperties, LenProperties
<1>7. /\ outbox'[i] # Nothing /\ outbox'[i].job = n /\ lost' = lost
      /\ outbox'[i].result.kind = "apply" /\ outbox'[i].result.revision = jobs[n].revision
      /\ outbox'[i].result.operation = Len(history[i]) + 1
      /\ \A k \in Checkouts : k # i => outbox'[k] = outbox[k]
    <2>1. FreshDigest(i, n) \in Digests
        BY <1>3, DigestTells DEF FreshDigest
    <2>2. Len(history[i]) + 1 \in Nat
        BY <1>6
    <2>3. PICK recoverability \in {"notNeeded", "rollbackAvailable"} :
              ReportOf(i, n, "apply", FreshDigest(i, n), jobs[n].revision,
                       Len(history[i]) + 1, recoverability)
        BY DEF ExecuteApply
    <2> QED BY <1>1, <1>3, <2>1, <2>2, <2>3, WhatIsReported
<1> HIDE DEF Entries
<1>8. /\ history'[i] # <<>> /\ Len(history'[i]) = Len(history[i]) + 1
      /\ history'[i][Len(history'[i])].job = n
    BY <1>6, EmptySeq
<1>9. \A a, k : a # n => (Kept(i, a, k)' <=> Kept(i, a, k))
    BY <1>6 DEF Kept
<1> HIDE DEF entry
<1>10. ReportIsTrue(i)'
    <2>1. jobs[n].state # "pending"
        BY <1>1 DEF Held
    <2> QED BY <1>1, <1>5, <1>7, <1>8, <2>1 DEF ReportIsTrue, DoneBy, IsLatest, LatestInHistory
<1>11. LatestApplyOnTop(i)'
    <2>1. \A m \in DOMAIN jobs' :
             IsLatestOperation(i, m)' => m = n
        BY <1>1, WhileHeld, RowTypes DEF IsLatestOperation, OperationsOf, PlansOf, JobsOf,
              AgreeingInv
    <2> QED BY <1>1, <2>1 DEF LatestApplyOnTop, Held
<1>12. ReceiptsFollowHistory(i)'
    <2>1. ASSUME NEW a \in JobsOf(i), receipts[a] # Nothing PROVE a # n
        <3>1. jobs[a].state = "succeeded"
            BY <2>1, RowTypes DEF AgreeingInv, Agreement, ReceiptsOfSuccesses, JobsOf
        <3> QED BY <1>1, <3>1 DEF Held
    <2>2. \A a \in JobsOf(i) : receipts[a] # Nothing =>
              (Kept(i, a, receipts[a].operation)' <=> Kept(i, a, receipts[a].operation))
        <3> SUFFICES ASSUME NEW a \in JobsOf(i), receipts[a] # Nothing
                     PROVE  Kept(i, a, receipts[a].operation)'
                               <=> Kept(i, a, receipts[a].operation)
            OBVIOUS
        <3>1. receipts' = receipts /\ a # n
            BY <1>1, <2>1
        <3>2. \A k : Kept(i, a, k)' <=> Kept(i, a, k)
            BY <1>9, <3>1
        <3> QED BY <3>1, <3>2 DEF Kept
    <2>3. \A a : ~Reported(i, a)
        BY <1>1 DEF Reported
    <2> QED BY <1>1, <1>2, <1>7, <2>2, <2>3 DEF ReceiptsFollowHistory, JobsOf
<1> QED BY <1>1, <1>5, <1>7, <1>10, <1>11, <1>12, RunnerKeeps

\* A rollback that takes effect takes the latest entry off the history and is reported.
LEMMA RollbackKeeps ==
    ASSUME AgreeingInv, NEW i \in Checkouts, NEW n \in JobIds, ExecuteRollback(i, n)
    PROVE  Agreement'
<1> DEFINE Entries == [job : JobIds, previous : MaybeRevision]
           previous == LatestInHistory(i).previous
           a == jobs[n].of
<1>1. /\ n \in JobsOf(i) /\ jobs[n].kind = "rollbackOperation" /\ jobs[n].state \in Held
      /\ outbox[i] = Nothing /\ UNCHANGED <<jobs, receipts, verdicts>>
      /\ history[i] # <<>> /\ history[i][Len(history[i])].job = a
      /\ receipts[a].operation = Len(history[i])
      /\ checkout' = [checkout EXCEPT ![i] = Whole(Intact(previous))]
      /\ history' = [history EXCEPT ![i] = SubSeq(history[i], 1, Len(history[i]) - 1)]
    BY DEF ExecuteRollback, Holds, CanUndo, IsLatest, LatestInHistory, serverVars
<1>2. /\ LatestApplyOnTop(i) /\ ReceiptsFollowHistory(i)
      /\ checkout \in [Checkouts -> Trees] /\ history \in [Checkouts -> Seq(Entries)]
    BY DEF AgreeingInv, Agreement, SwitchingInv, TypeOK
<1>3. /\ history[i] \in Seq(Entries) /\ Len(history[i]) \in Nat \ {0}
      /\ DOMAIN history[i] = 1 .. Len(history[i])
    BY <1>1, <1>2, EmptySeq, LenProperties
<1>4. /\ checkout'[i].content.holds = previous
      /\ \A k \in Checkouts : k # i => checkout'[k] = checkout[k]
      /\ history'[i] = SubSeq(history[i], 1, Len(history[i]) - 1)
      /\ \A k \in Checkouts : k # i => history'[k] = history[k]
    BY <1>1, <1>2 DEF Whole, Intact
<1>5. /\ outbox'[i] # Nothing /\ outbox'[i].job = n /\ lost' = lost
      /\ outbox'[i].result.kind = "rollback" /\ outbox'[i].result.revision = previous
      /\ \A k \in Checkouts : k # i => outbox'[k] = outbox[k]
    <2>1. previous \in MaybeRevision
        <3>1. LatestInHistory(i) \in Entries
            BY <1>1, <1>3, LastAndRest DEF LatestInHistory
        <3> QED BY <3>1
    <2>2. ReportOf(i, n, "rollback", "none", previous, 0, "notNeeded")
        BY DEF ExecuteRollback
    <2>3. 0 \in Nat /\ n \in JobsOf(i)
        BY <1>1
    <2> HIDE DEF previous
    <2> QED BY <2>1, <2>2, <2>3, WhatIsReported
<1> HIDE DEF Entries, previous
<1>6. /\ DOMAIN history'[i] = 1 .. Len(history[i]) - 1
      /\ \A k \in 1 .. Len(history[i]) - 1 : history'[i][k] = history[i][k]
    BY <1>3, <1>4, SubSeqProperties
<1>7. \A b, k : Kept(i, b, k)' <=> Kept(i, b, k) /\ k # Len(history[i])
    BY <1>3, <1>6 DEF Kept
<1>8. \A b : Kept(i, b, Len(history[i])) => b = a
    BY <1>1 DEF Kept
<1>9. ReportIsTrue(i)'
    <2>1. jobs[n].state # "pending"
        BY <1>1 DEF Held
    <2>2. ~Kept(i, a, receipts[a].operation)'
        BY <1>1, <1>7
    <2> QED BY <1>1, <1>4, <1>5, <2>1, <2>2 DEF ReportIsTrue, DoneBy, Kept
<1>10. LatestApplyOnTop(i)'
    <2>1. \A m \in DOMAIN jobs' :
             IsLatestOperation(i, m)' => m = n
        BY <1>1, WhileHeld, RowTypes DEF IsLatestOperation, OperationsOf, PlansOf, JobsOf,
              AgreeingInv
    <2> QED BY <1>1, <2>1 DEF LatestApplyOnTop, Held
<1>11. ReceiptsFollowHistory(i)'
    <2> SUFFICES ASSUME NEW b \in JobsOf(i), receipts[b] # Nothing
                 PROVE  IF receipts[b].outcome = "rolledBack"
                        THEN ~Kept(i, b, receipts[b].operation)'
                        ELSE \/ Kept(i, b, receipts[b].operation)'
                             \/ \E m \in JobsOf(i) :
                                   /\ jobs[m].kind = "rollbackOperation" /\ jobs[m].of = b
                                   /\ jobs[m].state = "expired" \/ m \in lost \/ m = n
        BY <1>1, <1>5 DEF ReceiptsFollowHistory, JobsOf, Reported, Kept
    <2>1. \A m : ~Reported(i, m)
        BY <1>1 DEF Reported
    <2>2. IF receipts[b].outcome = "rolledBack" THEN ~Kept(i, b, receipts[b].operation)
          ELSE \/ Kept(i, b, receipts[b].operation)
               \/ \E m \in JobsOf(i) : /\ jobs[m].kind = "rollbackOperation" /\ jobs[m].of = b
                                       /\ jobs[m].state = "expired" \/ m \in lost
        BY <1>2, <2>1 DEF ReceiptsFollowHistory
    <2>3. CASE b = a
        BY <1>1, <1>7, <2>2, <2>3
    <2>4. CASE b # a
        <3>1. Kept(i, b, receipts[b].operation)' <=> Kept(i, b, receipts[b].operation)
            BY <1>1, <1>7, <1>8, <2>4 DEF Kept
        <3> QED BY <2>2, <3>1
    <2> QED BY <2>3, <2>4
<1> QED BY <1>1, <1>4, <1>5, <1>9, <1>10, <1>11, RunnerKeeps

\* Whatever becomes of a job, its runner keeps the agreement.
LEMMA ExecuteKeeps ==
    ASSUME AgreeingInv, NEW i \in Checkouts, NEW n \in JobIds, Execute(i, n)
    PROVE  Agreement'
<1>1. checkout \in [Checkouts -> Trees]
    BY DEF AgreeingInv, SwitchingInv, TypeOK
<1> DEFINE Told(kinds, recoverabilities) ==
              /\ n \in JobsOf(i) /\ jobs[n].state \in Held /\ outbox[i] = Nothing
              /\ UNCHANGED <<jobs, receipts, verdicts, history>>
              /\ \A k \in Checkouts : k # i => checkout'[k] = checkout[k]
              /\ \E kind \in kinds, digest \in Digests \cup {"none"}, r \in MaybeRevision,
                    recoverability \in recoverabilities :
                    ReportOf(i, n, kind, digest, r, 0, recoverability)
           Failed == {"error", "cancellation"}
           Manual == {"manualIntervention", "notNeeded"}
<1>2. ASSUME Told(Failed \cup {"plan"}, {"notNeeded"}), jobs[n].kind = "planSetup"
      PROVE  Agreement'
    BY <1>2, ReportKeeps
<1>3. ASSUME Told(Failed, {"notNeeded"})
      PROVE  Agreement'
    BY <1>3, ReportKeeps
<1>4. ASSUME Told(Failed, Manual), jobs[n].kind # "planSetup"
      PROVE  Agreement'
    BY <1>4, ReportKeeps
<1>5. NoRevision \in MaybeRevision
    BY DEF MaybeRevision
<1>6. CASE StopUnchanged(i, n)
    BY <1>1, <1>3, <1>5, <1>6 DEF StopUnchanged, Holds, Recover, Report, serverVars
<1>7. CASE StopTorn(i, n)
    <2>1. CASE jobs[n].kind = "planSetup"
        BY <1>3, <1>5, <1>7, <2>1 DEF StopTorn, Holds, Report, serverVars
    <2>2. CASE jobs[n].kind # "planSetup"
        BY <1>4, <1>5, <1>7, <2>2 DEF StopTorn, Holds, Report, serverVars
    <2> QED BY <2>1, <2>2
<1>8. CASE ExecutePlan(i, n)
    <2>1. jobs[n].revision \in MaybeRevision
        BY <1>8, WhileHeld DEF ExecutePlan, Holds, Rows
    <2>2. Digest(checkout[i].content, jobs[n].revision) \in Digests
        <3>1. checkout[i].content \in Contents
            BY <1>1 DEF Trees
        <3> QED BY <2>1, <3>1, DigestTells
    <2> QED BY <1>1, <1>2, <1>8, <2>1, <2>2 DEF ExecutePlan, Holds, Recover, serverVars
<1>9. CASE RefuseRollback(i, n)
    BY <1>1, <1>4, <1>5, <1>9 DEF RefuseRollback, Holds, Recover, Report, serverVars
<1>10. CASE StopHalfWay(i, n)
    BY <1>1, <1>4, <1>5, <1>10 DEF StopHalfWay, Holds, Report, serverVars
<1> QED BY <1>6, <1>7, <1>8, <1>9, <1>10, ApplyKeeps, RollbackKeeps DEF Execute

------------------------------------------------------------------------------
\* A result that comes too late is forgotten, and what it would have told is known to
\* be lost: its job is expired.
LEMMA DropKeeps ==
    ASSUME AgreeingInv, NEW i \in Checkouts, CompleteJob(i),
           jobs[outbox[i].job].state \notin Held
    PROVE  Agreement'
<1>1. /\ UNCHANGED <<jobs, receipts, verdicts, checkout, history, lost>>
      /\ outbox' = [outbox EXCEPT ![i] = Nothing] /\ outbox[i] # Nothing
    BY DEF CompleteJob, serverVars
<1>2. /\ outbox'[i] = Nothing /\ \A k \in Checkouts : k # i => outbox'[k] = outbox[k]
    BY <1>1 DEF AgreeingInv, SwitchingInv, TypeOK
<1>3. LatestApplyOnTop(i) /\ ReceiptsFollowHistory(i)
    BY DEF AgreeingInv, Agreement
<1>4. ReportIsTrue(i)'
    BY <1>2 DEF ReportIsTrue
<1>5. LatestApplyOnTop(i)'
    BY <1>1, <1>3 DEF LatestApplyOnTop, IsLatest, LatestInHistory,
          IsLatestOperation, OperationsOf, PlansOf, JobsOf
<1>6. ReceiptsFollowHistory(i)'
    <2>1. \A n : Reported(i, n) => jobs[n].state \notin Held
        BY <1>1 DEF Reported
    <2> QED BY <1>1, <1>3, <2>1 DEF ReceiptsFollowHistory, JobsOf, Kept
<1> QED BY <1>1, <1>2, <1>4, <1>5, <1>6, RunnerKeeps

\* What accepting a result does to the table, and what the job and its result are.
LEMMA AcceptedRow ==
    ASSUME AgreeingInv, NEW i \in Checkouts, CompleteJob(i),
           NEW n, n = outbox[i].job, NEW result, result = outbox[i].result,
           jobs[n].state \in Held
    PROVE  /\ n \in JobsOf(i) /\ n \in JobIds /\ result \in Results
           /\ \A m \in JobsOf(i) : m <= n
           /\ DOMAIN jobs' = DOMAIN jobs /\ Len(jobs') = Len(jobs)
           /\ \A m \in DOMAIN jobs : m # n => jobs'[m] = jobs[m]
           /\ jobs'[n].checkout = jobs[n].checkout /\ jobs'[n].kind = jobs[n].kind
           /\ jobs'[n].revision = jobs[n].revision /\ jobs'[n].of = jobs[n].of
           /\ jobs'[n].result = result /\ jobs'[n].completed = Now
           /\ jobs'[n].state = TerminalState(result)
           /\ TerminalState(result) \in {"succeeded", "failed", "cancelled"}
           /\ TerminalState(result) = "succeeded" <=> result.kind = DoneBy(jobs[n].kind)
           /\ result.kind \in {DoneBy(jobs[n].kind), "error", "cancellation"}
           /\ outbox'[i] = Nothing /\ \A k \in Checkouts : k # i => outbox'[k] = outbox[k]
           /\ UNCHANGED <<checkout, history, lost>>
           /\ verdicts'[i] = Verdict(n, result, i)
           /\ \A k \in Checkouts : k # i => verdicts'[k] = verdicts[k]
<1>1. /\ outbox[i] # Nothing /\ outbox' = [outbox EXCEPT ![i] = Nothing]
      /\ UNCHANGED <<checkout, history, lost>>
      /\ jobs' = [jobs EXCEPT ![n].state = TerminalState(result), ![n].result = result,
                              ![n].completed = Now]
      /\ verdicts' = [verdicts EXCEPT ![i] = Verdict(n, result, i)]
    BY DEF CompleteJob
<1>2. /\ outbox \in [Checkouts -> Deliveries \cup {Nothing}]
      /\ verdicts \in [Checkouts -> [Revisions -> {"unknown", "yes", "no"}]]
    BY DEF AgreeingInv, SwitchingInv, TypeOK
<1>3. n \in JobsOf(i) /\ n \in JobIds /\ result \in Results
    BY <1>1, <1>2 DEF AgreeingInv, SwitchingInv, Links, Deliveries
<1>4. /\ \A m \in JobsOf(i) : m <= n
      /\ jobs[n] \in Rows /\ n \in DOMAIN jobs
    BY <1>3, WhileHeld DEF JobsOf
<1>5. Len(jobs') = Len(jobs)
    BY CompleteStep DEF AgreeingInv, SameJobs
<1>6. /\ DOMAIN jobs' = DOMAIN jobs /\ \A m \in DOMAIN jobs : m # n => jobs'[m] = jobs[m]
      /\ jobs'[n].checkout = jobs[n].checkout /\ jobs'[n].kind = jobs[n].kind
      /\ jobs'[n].revision = jobs[n].revision /\ jobs'[n].of = jobs[n].of
      /\ jobs'[n].result = result /\ jobs'[n].completed = Now
      /\ jobs'[n].state = TerminalState(result)
    BY <1>1, <1>4 DEF Rows
<1>7. result.kind \in {DoneBy(jobs[n].kind), "error", "cancellation"}
    BY <1>1 DEF AgreeingInv, Agreement, ReportIsTrue
<1>8. /\ TerminalState(result) \in {"succeeded", "failed", "cancelled"}
      /\ TerminalState(result) = "succeeded" <=> result.kind = DoneBy(jobs[n].kind)
    BY <1>7 DEF TerminalState, DoneBy
<1>9. /\ outbox'[i] = Nothing /\ \A k \in Checkouts : k # i => outbox'[k] = outbox[k]
      /\ verdicts'[i] = Verdict(n, result, i)
      /\ \A k \in Checkouts : k # i => verdicts'[k] = verdicts[k]
    BY <1>1, <1>2
<1> QED BY <1>1, <1>3, <1>4, <1>5, <1>6, <1>7, <1>8, <1>9

\* What accepting a result does to the receipts.
LEMMA AcceptedReceipts ==
    ASSUME AgreeingInv, NEW i \in Checkouts, CompleteJob(i),
           NEW n, n = outbox[i].job, NEW result, result = outbox[i].result,
           jobs[n].state \in Held
    PROVE  /\ receipts[n] = Nothing
           /\ \/ /\ receipts' = receipts
                 /\ TerminalState(result) # "succeeded" \/ jobs[n].kind = "planSetup"
              \/ /\ TerminalState(result) = "succeeded" /\ jobs[n].kind = "applyPlan"
                 /\ receipts'[n] # Nothing /\ receipts'[n].outcome \in {"applied", "noChange"}
                 /\ result.recoverability = "rollbackAvailable" =>
                       receipts'[n].outcome = "applied"
                 /\ receipts'[n].operation = result.operation
                 /\ \A m \in JobIds : m # n => receipts'[m] = receipts[m]
              \/ /\ TerminalState(result) = "succeeded"
                 /\ jobs[n].kind = "rollbackOperation"
                 /\ jobs[n].of \in JobsOf(i) /\ jobs[n].of # n /\ receipts[jobs[n].of] # Nothing
                 /\ receipts'[jobs[n].of] # Nothing
                 /\ receipts'[jobs[n].of].outcome = "rolledBack"
                 /\ receipts'[jobs[n].of].operation = receipts[jobs[n].of].operation
                 /\ \A m \in JobIds : m # jobs[n].of => receipts'[m] = receipts[m]
<1>1. n \in JobsOf(i) /\ n \in DOMAIN jobs /\ n \in JobIds
    BY AcceptedRow DEF JobsOf
<1>2. receipts \in [JobIds -> Receipts \cup {Nothing}] /\ jobs[n].kind \in Kinds
    BY <1>1, RowTypes DEF AgreeingInv, SwitchingInv, TypeOK, Rows
<1>3. receipts[n] = Nothing
    BY <1>1 DEF AgreeingInv, Agreement, ReceiptsOfSuccesses, Held
<1>4. IF TerminalState(result) = "succeeded" THEN PersistPortableReceipt(n, result)
      ELSE UNCHANGED <<receipts, assigned>>
    BY DEF CompleteJob
<1>5. CASE TerminalState(result) # "succeeded"
    BY <1>3, <1>4, <1>5
<1>6. CASE TerminalState(result) = "succeeded" /\ jobs[n].kind = "planSetup"
    BY <1>3, <1>4, <1>6 DEF PersistPortableReceipt
<1>7. CASE TerminalState(result) = "succeeded" /\ jobs[n].kind = "applyPlan"
    <2>1. receipts' = [receipts EXCEPT ![n] =
                         [outcome |-> IF result.recoverability = "rollbackAvailable"
                                      THEN "applied" ELSE "noChange",
                          before |-> assigned, operation |-> result.operation]]
        BY <1>4, <1>7 DEF PersistPortableReceipt
    <2>2. \E receipt \in Receipts : receipts' = [receipts EXCEPT ![n] = receipt]
        <3>1. assigned \in MaybeRevision
            BY DEF AgreeingInv, SwitchingInv, TypeOK
        <3>2. [outcome |-> IF result.recoverability = "rollbackAvailable"
                           THEN "applied" ELSE "noChange",
               before |-> assigned, operation |-> result.operation] \in Receipts
            <4>1. result.operation \in Nat
                BY AcceptedRow DEF Results
            <4> QED BY <3>1, <4>1 DEF Receipts
        <3> QED BY <2>1, <3>2
    <2>3. receipts'[n] # Nothing
        BY <1>1, <1>2, <2>2, NothingAssumption
    <2> QED BY <1>1, <1>2, <1>3, <1>7, <2>1, <2>3
<1>8. CASE TerminalState(result) = "succeeded" /\ jobs[n].kind = "rollbackOperation"
    <2>1. receipts' = [receipts EXCEPT ![jobs[n].of].outcome = "rolledBack"]
        BY <1>4, <1>8 DEF PersistPortableReceipt
    <2>2. receipts[jobs[n].of] \in Receipts /\ jobs[n].of \in DOMAIN jobs
        BY <1>1, <1>8 DEF AgreeingInv, SwitchingInv, Links
    <2>3. jobs[n].of < n /\ jobs[jobs[n].of].checkout = i
        BY <1>1, <1>8 DEF AgreeingInv, Agreement, DecisionsNameRows, JobsOf
    <2>4. jobs[n].of \in JobsOf(i) /\ jobs[n].of # n /\ jobs[n].of \in JobIds
        BY <1>1, <2>2, <2>3, RowTypes DEF AgreeingInv, JobsOf, JobIds
    <2>5. receipts[jobs[n].of] # Nothing
        BY <2>2, NothingAssumption
    <2>6. /\ receipts'[jobs[n].of].outcome = "rolledBack"
          /\ receipts'[jobs[n].of].operation = receipts[jobs[n].of].operation
          /\ \A m \in JobIds : m # jobs[n].of => receipts'[m] = receipts[m]
        BY <1>2, <2>1, <2>2, <2>4 DEF Receipts
    <2>7. receipts'[jobs[n].of] # Nothing
        <3>1. [receipts[jobs[n].of] EXCEPT !.outcome = "rolledBack"] \in Receipts
            BY <2>2 DEF Receipts
        <3>2. receipts'[jobs[n].of] = [receipts[jobs[n].of] EXCEPT !.outcome = "rolledBack"]
            BY <1>2, <2>1, <2>4
        <3> QED BY <3>1, <3>2, NothingAssumption
    <2> QED BY <1>3, <1>8, <2>4, <2>5, <2>6, <2>7
<1> QED BY <1>2, <1>5, <1>6, <1>7, <1>8 DEF Kinds

\* An accepted result keeps the agreement of the rows and their receipts.
LEMMA AcceptKeepsRows ==
    ASSUME AgreeingInv, NEW i \in Checkouts, CompleteJob(i),
           NEW n, n = outbox[i].job, NEW result, result = outbox[i].result,
           jobs[n].state \in Held
    PROVE  ActiveIsLast' /\ DecisionsNameRows' /\ SuccessesAreTimed' /\ ReceiptsOfSuccesses'
<1>1. /\ n \in JobsOf(i) /\ n \in DOMAIN jobs /\ n \in JobIds
      /\ \A m \in DOMAIN jobs : jobs[m].checkout = jobs[n].checkout => m <= n
      /\ DOMAIN jobs' = DOMAIN jobs /\ Len(jobs') = Len(jobs)
      /\ \A m \in DOMAIN jobs : m # n => jobs'[m] = jobs[m]
      /\ jobs'[n].checkout = jobs[n].checkout /\ jobs'[n].kind = jobs[n].kind
      /\ jobs'[n].revision = jobs[n].revision /\ jobs'[n].of = jobs[n].of
      /\ jobs'[n].result = result /\ jobs'[n].completed = Now
      /\ jobs'[n].state = TerminalState(result)
      /\ TerminalState(result) \in {"succeeded", "failed", "cancelled"}
      /\ TerminalState(result) = "succeeded" <=> result.kind = DoneBy(jobs[n].kind)
    BY AcceptedRow DEF JobsOf
<1>2. /\ Len(jobs) \in Nat /\ DOMAIN jobs = 1 .. Len(jobs) /\ DOMAIN jobs \subseteq JobIds
    BY RowTypes DEF AgreeingInv
<1>3. jobs[n].state # "succeeded" /\ jobs'[n].state \notin InFlight
    BY <1>1 DEF Held, InFlight
<1>4. \A m \in DOMAIN jobs :
          /\ jobs'[m].checkout = jobs[m].checkout /\ jobs'[m].kind = jobs[m].kind
          /\ jobs'[m].revision = jobs[m].revision /\ jobs'[m].of = jobs[m].of
          /\ jobs[m].state = "succeeded" => jobs'[m].state = "succeeded"
          /\ jobs'[m].state \in InFlight => jobs[m].state \in InFlight
    BY <1>1, <1>3
<1>5. ActiveIsLast'
    BY <1>1, <1>4 DEF AgreeingInv, Agreement, ActiveIsLast
<1>6. DecisionsNameRows'
    BY <1>1, <1>4 DEF AgreeingInv, Agreement, DecisionsNameRows
<1>7. SuccessesAreTimed'
    <2> SUFFICES ASSUME NEW m \in DOMAIN jobs, jobs'[m].state = "succeeded"
                 PROVE  /\ jobs'[m].result.kind = DoneBy(jobs'[m].kind)
                        /\ IssuedAt(m) < jobs'[m].completed /\ jobs'[m].completed <= Now
                        /\ \A k \in DOMAIN jobs : jobs[k].checkout = jobs[m].checkout /\ m < k
                              => jobs'[m].completed < IssuedAt(k)
        BY <1>1, <1>4 DEF SuccessesAreTimed, Now, DoneBy, IssuedAt
    <2>1. CASE m # n
        BY <1>1, <2>1 DEF AgreeingInv, Agreement, SuccessesAreTimed
    <2>2. CASE m = n
        <3>1. IssuedAt(n) < Now /\ Now <= Now
            BY <1>1, <1>2 DEF IssuedAt, Now
        <3>2. \A k \in DOMAIN jobs : jobs[k].checkout = jobs[m].checkout => ~(m < k)
            BY <1>1, <1>2, <2>2
        <3> QED BY <1>1, <2>2, <3>1, <3>2
    <2> QED BY <2>1, <2>2
<1>8. ReceiptsOfSuccesses'
    <2> DEFINE a == jobs[n].of
    <2>1. /\ receipts[n] = Nothing
          /\ \/ /\ receipts' = receipts
                /\ TerminalState(result) # "succeeded" \/ jobs[n].kind = "planSetup"
             \/ /\ TerminalState(result) = "succeeded" /\ jobs[n].kind = "applyPlan"
                /\ receipts'[n] # Nothing /\ receipts'[n].outcome \in {"applied", "noChange"}
                /\ result.recoverability = "rollbackAvailable" =>
                      receipts'[n].outcome = "applied"
                /\ \A m \in JobIds : m # n => receipts'[m] = receipts[m]
             \/ /\ TerminalState(result) = "succeeded"
                /\ jobs[n].kind = "rollbackOperation"
                /\ a \in JobsOf(i) /\ a # n /\ receipts[a] # Nothing
                /\ receipts'[a] # Nothing /\ receipts'[a].outcome = "rolledBack"
                /\ \A m \in JobIds : m # a => receipts'[m] = receipts[m]
        BY AcceptedReceipts
    <2>2. /\ \A m \in JobIds : receipts[m] # Nothing =>
                /\ m # n /\ m \in DOMAIN jobs /\ jobs'[m].state = "succeeded"
                /\ receipts[m].outcome = "rolledBack" =>
                      \E k \in DOMAIN jobs :
                         jobs'[k].kind = "rollbackOperation" /\ jobs'[k].of = m
          /\ \A m \in DOMAIN jobs :
                /\ m # n /\ jobs[m].kind = "applyPlan" /\ jobs[m].state = "succeeded"
                /\ jobs[m].result.recoverability = "rollbackAvailable"
                => receipts[m] # Nothing /\ receipts[m].outcome \in {"applied", "rolledBack"}
        <3>1. \A m \in JobIds : receipts[m] # Nothing => m \in DOMAIN jobs
            BY DEF AgreeingInv, SwitchingInv, TypeOK
        <3>2. receipts[n] = Nothing
            BY <2>1
        <3> QED BY <1>4, <3>1, <3>2 DEF AgreeingInv, Agreement, ReceiptsOfSuccesses
    <2>3. ASSUME NEW m \in JobIds, receipts'[m] # Nothing
          PROVE  /\ jobs'[m].state = "succeeded"
                 /\ receipts'[m].outcome = "rolledBack" =>
                       \E k \in DOMAIN jobs :
                          jobs'[k].kind = "rollbackOperation" /\ jobs'[k].of = m
        BY <1>1, <2>1, <2>2, <2>3
    <2>4. ASSUME NEW m \in DOMAIN jobs, jobs'[m].kind = "applyPlan",
                 jobs'[m].state = "succeeded",
                 jobs'[m].result.recoverability = "rollbackAvailable"
          PROVE  receipts'[m] # Nothing /\ receipts'[m].outcome \in {"applied", "rolledBack"}
        <3>1. m # n => jobs'[m] = jobs[m]
            BY <1>1
        <3> QED BY <1>1, <1>2, <2>1, <2>2, <2>4, <3>1
    <2> QED BY <1>1, <2>3, <2>4 DEF ReceiptsOfSuccesses
<1> QED BY <1>5, <1>6, <1>7, <1>8

\* It keeps the agreement with the runner that reports.
LEMMA AcceptKeepsHistory ==
    ASSUME AgreeingInv, NEW i \in Checkouts, CompleteJob(i),
           NEW n, n = outbox[i].job, NEW result, result = outbox[i].result,
           jobs[n].state \in Held
    PROVE  ReportIsTrue(i)' /\ LatestApplyOnTop(i)' /\ ReceiptsFollowHistory(i)'
<1>1. /\ n \in JobsOf(i) /\ n \in DOMAIN jobs /\ n \in JobIds
      /\ \A m \in JobsOf(i) : m <= n
      /\ DOMAIN jobs' = DOMAIN jobs
      /\ \A m \in DOMAIN jobs : m # n => jobs'[m] = jobs[m]
      /\ jobs'[n].checkout = jobs[n].checkout /\ jobs'[n].kind = jobs[n].kind
      /\ jobs'[n].of = jobs[n].of
      /\ jobs'[n].state = TerminalState(result)
      /\ TerminalState(result) \in {"succeeded", "failed", "cancelled"}
      /\ TerminalState(result) = "succeeded" <=> result.kind = DoneBy(jobs[n].kind)
      /\ outbox'[i] = Nothing /\ UNCHANGED <<checkout, history, lost>>
    BY AcceptedRow DEF JobsOf
<1>2. JobsOf(i)' = JobsOf(i) /\ JobsOf(i) \subseteq JobIds
    BY <1>1, RowTypes DEF AgreeingInv, JobsOf
<1>3. /\ outbox[i] # Nothing
      /\ ReportIsTrue(i) /\ LatestApplyOnTop(i) /\ ReceiptsFollowHistory(i)
    BY DEF AgreeingInv, Agreement, CompleteJob
<1>4. \A m : Reported(i, m) <=> m = n
    BY <1>3 DEF Reported
<1> DEFINE b == jobs[n].of
<1>5. \/ /\ receipts' = receipts
         /\ TerminalState(result) # "succeeded" \/ jobs[n].kind = "planSetup"
      \/ /\ TerminalState(result) = "succeeded" /\ jobs[n].kind = "applyPlan"
         /\ receipts'[n].outcome \in {"applied", "noChange"}
         /\ receipts'[n].operation = result.operation
         /\ \A m \in JobIds : m # n => receipts'[m] = receipts[m]
      \/ /\ TerminalState(result) = "succeeded" /\ jobs[n].kind = "rollbackOperation"
         /\ receipts[b] # Nothing
         /\ receipts'[b].outcome = "rolledBack"
         /\ receipts'[b].operation = receipts[b].operation
         /\ \A m \in JobIds : m # b => receipts'[m] = receipts[m]
    BY AcceptedReceipts
<1>6. ReportIsTrue(i)'
    BY <1>1 DEF ReportIsTrue
<1>7. LatestApplyOnTop(i)'
    <2> SUFFICES ASSUME NEW m \in DOMAIN jobs', IsLatestOperation(i, m)',
                        jobs'[m].kind = "applyPlan", jobs'[m].state = "succeeded"
                 PROVE  IsLatest(i, m, receipts[m].operation)'
        BY <1>1 DEF LatestApplyOnTop
    <2>1. m \in DOMAIN jobs /\ IsLatestOperation(i, m) /\ m \in JobIds
        BY <1>1, <1>2 DEF IsLatestOperation, OperationsOf, PlansOf, JobsOf
    <2>2. CASE m # n
        <3>1. IsLatest(i, m, receipts[m].operation) /\ jobs[m].state = "succeeded"
            BY <1>1, <1>3, <2>1, <2>2 DEF LatestApplyOnTop
        <3>2. receipts'[m].operation = receipts[m].operation
            BY <1>5, <2>1, <2>2
        <3> QED BY <1>1, <3>1, <3>2 DEF IsLatest, LatestInHistory
    <2>3. CASE m = n
        <3>1. result.kind = "apply" /\ TerminalState(result) = "succeeded"
            BY <1>1, <2>3 DEF DoneBy
        <3>2. IsLatest(i, n, result.operation)
            BY <1>3, <3>1 DEF ReportIsTrue
        <3>3. receipts'[n].operation = result.operation
            BY <1>1, <1>5, <2>3, <3>1
        <3> QED BY <1>1, <2>3, <3>2, <3>3 DEF IsLatest, LatestInHistory
    <2> QED BY <2>2, <2>3
<1>8. ReceiptsFollowHistory(i)'
    <2> DEFINE Undone(a) == \E m \in JobsOf(i) :
                               /\ jobs[m].kind = "rollbackOperation" /\ jobs[m].of = a
                               /\ jobs[m].state = "expired" \/ m \in lost
    <2> SUFFICES ASSUME NEW a \in JobsOf(i), receipts'[a] # Nothing
                 PROVE  IF receipts'[a].outcome = "rolledBack"
                        THEN ~Kept(i, a, receipts'[a].operation)
                        ELSE Kept(i, a, receipts'[a].operation) \/ Undone(a)
        <3>1. \A m \in JobsOf(i) :
                  /\ jobs'[m].kind = jobs[m].kind /\ jobs'[m].of = jobs[m].of
                  /\ jobs[m].state = "expired" => jobs'[m].state = "expired"
            BY <1>1 DEF JobsOf, Held
        <3> QED BY <1>1, <1>2, <3>1 DEF ReceiptsFollowHistory, Kept
    <2>1. a \in JobIds
        BY <1>2
    <2>2. ASSUME receipts[a] # Nothing
          PROVE  /\ receipts[a].outcome = "rolledBack" =>
                       ~Kept(i, a, receipts[a].operation)
                 /\ receipts[a].outcome # "rolledBack" =>
                       \/ Kept(i, a, receipts[a].operation) \/ Undone(a)
                       \/ /\ jobs[n].kind = "rollbackOperation" /\ b = a
                          /\ result.kind = "rollback"
        BY <1>3, <1>4, <2>2 DEF ReceiptsFollowHistory
    <2>3. jobs[n].kind = "rollbackOperation" /\ result.kind = "rollback"
             => TerminalState(result) = "succeeded"
        BY <1>1 DEF DoneBy
    <2> HIDE DEF Undone
    <2>4. CASE receipts' = receipts /\
               (TerminalState(result) # "succeeded" \/ jobs[n].kind = "planSetup")
        BY <2>2, <2>3, <2>4
    <2>5. CASE /\ TerminalState(result) = "succeeded" /\ jobs[n].kind = "applyPlan"
               /\ receipts'[n].outcome \in {"applied", "noChange"}
               /\ receipts'[n].operation = result.operation
               /\ \A m \in JobIds : m # n => receipts'[m] = receipts[m]
        <3>1. CASE a # n
            BY <2>1, <2>2, <2>5, <3>1
        <3>2. CASE a = n
            <4>1. result.kind = "apply"
                BY <1>1, <2>5 DEF DoneBy
            <4>2. IsLatest(i, n, result.operation)
                BY <1>3, <4>1 DEF ReportIsTrue
            <4>3. Len(history[i]) \in DOMAIN history[i]
                <5>1. history[i] \in Seq([job : JobIds, previous : MaybeRevision])
                    BY DEF AgreeingInv, SwitchingInv, TypeOK
                <5>2. Len(history[i]) \in Nat \ {0}
                    BY <4>2, <5>1, EmptySeq, LenProperties DEF IsLatest
                <5> QED BY <5>1, <5>2, LenProperties
            <4>4. Kept(i, n, result.operation)
                BY <4>2, <4>3 DEF IsLatest, LatestInHistory, Kept
            <4> QED BY <2>5, <3>2, <4>4
        <3> QED BY <3>1, <3>2
    <2>6. CASE /\ TerminalState(result) = "succeeded" /\ jobs[n].kind = "rollbackOperation"
               /\ receipts[b] # Nothing
               /\ receipts'[b].outcome = "rolledBack"
               /\ receipts'[b].operation = receipts[b].operation
               /\ \A m \in JobIds : m # b => receipts'[m] = receipts[m]
        <3>1. CASE a # b
            BY <2>1, <2>2, <2>6, <3>1
        <3>2. CASE a = b
            <4>1. result.kind = "rollback"
                BY <1>1, <2>6 DEF DoneBy
            <4>2. ~Kept(i, b, receipts[b].operation)
                BY <1>3, <4>1 DEF ReportIsTrue
            <4> QED BY <2>6, <3>2, <4>2
        <3> QED BY <3>1, <3>2
    <2> QED BY <1>5, <2>4, <2>5, <2>6
<1> QED BY <1>6, <1>7, <1>8

\* It keeps what is known of the checkout: a plan adds its finding, an operation settles
\* every revision, and a plan that failed tells nothing.
LEMMA AcceptKeepsVerdicts ==
    ASSUME AgreeingInv, NEW i \in Checkouts, CompleteJob(i),
           NEW n, n = outbox[i].job, NEW result, result = outbox[i].result,
           jobs[n].state \in Held
    PROVE  VerdictsFollowReports(i)'
<1>1. /\ n \in JobsOf(i) /\ n \in DOMAIN jobs
      /\ \A m \in JobsOf(i) : m <= n
      /\ DOMAIN jobs' = DOMAIN jobs
      /\ \A m \in DOMAIN jobs : m # n => jobs'[m] = jobs[m]
      /\ jobs'[n].checkout = jobs[n].checkout /\ jobs'[n].kind = jobs[n].kind
      /\ jobs'[n].revision = jobs[n].revision /\ jobs'[n].result = result
      /\ jobs'[n].state = TerminalState(result)
      /\ TerminalState(result) \in {"succeeded", "failed", "cancelled"}
      /\ TerminalState(result) = "succeeded" <=> result.kind = DoneBy(jobs[n].kind)
      /\ result.kind \in {DoneBy(jobs[n].kind), "error", "cancellation"}
      /\ verdicts'[i] = Verdict(n, result, i)
    BY AcceptedRow DEF JobsOf
<1>2. /\ DOMAIN jobs \subseteq Nat /\ jobs[n].kind \in Kinds
      /\ verdicts[i] \in [Revisions -> {"unknown", "yes", "no"}]
    <2>1. jobs[n] \in Rows /\ DOMAIN jobs \subseteq Nat
        BY <1>1, RowTypes DEF AgreeingInv
    <2>2. verdicts \in [Checkouts -> [Revisions -> {"unknown", "yes", "no"}]]
        BY DEF AgreeingInv, SwitchingInv, TypeOK
    <2> QED BY <2>1, <2>2 DEF Rows
<1>3. OperationsOf(i)' = OperationsOf(i) /\ JobsOf(i)' = JobsOf(i)
    BY <1>1 DEF OperationsOf, PlansOf, JobsOf
<1>4. VerdictsFollowReports(i)
    BY DEF AgreeingInv, Agreement
<1> SUFFICES ASSUME NEW m \in DOMAIN jobs, NEW r \in Revisions,
                    IsLatestOperation(i, m)', jobs'[m].state = "succeeded"
             PROVE  VerdictFollows(i, r, m)'
    BY <1>1 DEF VerdictsFollowReports
<1>5. IsLatestOperation(i, m)
    BY <1>3 DEF IsLatestOperation
<1>6. CASE jobs[n].kind # "planSetup"
    <2>1. m = n
        BY <1>1, <1>2, <1>5, <1>6 DEF IsLatestOperation, OperationsOf, PlansOf, JobsOf
    <2>2. LaterPlans(i, r, m)' = {}
        BY <1>1, <1>2, <1>3, <2>1 DEF LaterPlans, PlansOf, JobsOf
    <2>3. /\ result.kind \in {"apply", "rollback"}
          /\ verdicts'[i][r] = IF r = result.revision THEN "yes" ELSE "no"
        BY <1>1, <1>2, <1>6, <2>1 DEF DoneBy, Verdict, Kinds
    <2>4. RevisionOf(m)' = result.revision
        <3>1. CASE jobs[n].kind = "applyPlan"
            <4>1. result.kind = "apply"
                BY <1>1, <2>1, <3>1 DEF DoneBy
            <4>2. result.revision = jobs[n].revision
                BY <4>1 DEF AgreeingInv, Agreement, ReportIsTrue, CompleteJob
            <4> QED BY <1>1, <2>1, <3>1, <4>2 DEF RevisionOf
        <3>2. CASE jobs[n].kind # "applyPlan"
            BY <1>1, <2>1, <3>2 DEF RevisionOf
        <3> QED BY <3>1, <3>2
    <2> QED BY <2>2, <2>3, <2>4 DEF VerdictFollows
<1>7. CASE jobs[n].kind = "planSetup"
    <2>1. m # n /\ jobs'[m] = jobs[m] /\ m < n
        BY <1>1, <1>2, <1>5, <1>7 DEF IsLatestOperation, OperationsOf, PlansOf, JobsOf
    <2>2. VerdictFollows(i, r, m)
        BY <1>4, <1>5, <2>1 DEF VerdictsFollowReports
    <2>3. RevisionOf(m)' = RevisionOf(m)
        BY <2>1 DEF RevisionOf
    <2>4. \A p \in LaterPlans(i, r, m) :
              p # n /\ (PlanHasChanges(p)' <=> PlanHasChanges(p))
        BY <1>1 DEF LaterPlans, PlansOf, JobsOf, PlanHasChanges, Held
    <2>5. CASE TerminalState(result) # "succeeded" \/ jobs[n].revision # r
        <3>1. LaterPlans(i, r, m)' = LaterPlans(i, r, m)
            BY <1>1, <2>5 DEF LaterPlans, PlansOf, JobsOf, Held
        <3>2. verdicts'[i][r] = verdicts[i][r]
            <4>1. CASE result.kind = "plan"
                BY <1>1, <1>2, <1>7, <2>5, <4>1 DEF DoneBy, Verdict
            <4>2. CASE result.kind # "plan"
                <5>1. result.kind \in {"error", "cancellation"}
                    BY <1>1, <1>7, <4>2 DEF DoneBy
                <5>2. result.recoverability = "notNeeded"
                    BY <1>7 DEF AgreeingInv, Agreement, ReportIsTrue, CompleteJob
                <5> QED BY <1>1, <5>1, <5>2 DEF Verdict
            <4> QED BY <4>1, <4>2
        <3> QED BY <2>2, <2>3, <2>4, <3>1, <3>2 DEF VerdictFollows
    <2>6. CASE TerminalState(result) = "succeeded" /\ jobs[n].revision = r
        <3>1. n \in LaterPlans(i, r, m)'
            BY <1>1, <1>7, <2>1, <2>6 DEF LaterPlans, PlansOf, JobsOf
        <3>2. \A p \in LaterPlans(i, r, m)' : (n <= p) => p = n
            BY <1>1, <1>2, <1>3 DEF LaterPlans, PlansOf, JobsOf
        <3>3. verdicts'[i][r] = IF result.digest = "unchanged" THEN "yes" ELSE "no"
            BY <1>1, <1>2, <1>7, <2>6 DEF DoneBy, Verdict
        <3>4. PlanHasChanges(n)' <=> result.digest # "unchanged"
            BY <1>1, <2>6 DEF PlanHasChanges
        <3>5. LaterPlans(i, r, m)' # {}
            BY <3>1
        <3>6. ASSUME NEW p \in LaterPlans(i, r, m)', \A q \in LaterPlans(i, r, m)' : q <= p
              PROVE  p = n
            BY <3>1, <3>2, <3>6
        <3> QED BY <3>3, <3>4, <3>5, <3>6 DEF VerdictFollows
    <2> QED BY <2>5, <2>6
<1> QED BY <1>6, <1>7

\* Accepting a result keeps the agreement, of the other checkouts as well.
LEMMA AcceptKeeps ==
    ASSUME AgreeingInv, NEW i \in Checkouts, CompleteJob(i),
           jobs[outbox[i].job].state \in Held
    PROVE  Agreement'
<1>1. PICK n, result : n = outbox[i].job /\ result = outbox[i].result
    OBVIOUS
<1>2. jobs[n].state \in Held
    BY <1>1
<1>3. /\ n \in JobsOf(i) /\ DOMAIN jobs' = DOMAIN jobs
      /\ \A m \in DOMAIN jobs : m # n => jobs'[m] = jobs[m]
      /\ jobs'[n].checkout = jobs[n].checkout /\ UNCHANGED <<checkout, history, lost>>
      /\ \A k \in Checkouts : k # i => outbox'[k] = outbox[k] /\ verdicts'[k] = verdicts[k]
    BY <1>1, <1>2, AcceptedRow
<1>4. ASSUME NEW k \in Checkouts, k # i
      PROVE  /\ ReportIsTrue(k)' /\ LatestApplyOnTop(k)'
             /\ ReceiptsFollowHistory(k)' /\ VerdictsFollowReports(k)'
    <2>1. /\ ReportIsTrue(k) /\ LatestApplyOnTop(k)
          /\ ReceiptsFollowHistory(k) /\ VerdictsFollowReports(k)
        BY DEF AgreeingInv, Agreement
    <2>2. /\ JobsOf(k)' = JobsOf(k) /\ PlansOf(k)' = PlansOf(k)
          /\ OperationsOf(k)' = OperationsOf(k)
          /\ \A m \in JobsOf(k) : jobs'[m] = jobs[m] /\ m # n
        BY <1>3, <1>4 DEF OperationsOf, PlansOf, JobsOf
    <2>3. outbox'[k] = outbox[k] /\ verdicts'[k] = verdicts[k]
        BY <1>3, <1>4
    <2>4. \A m \in JobsOf(k) : receipts'[m] = receipts[m]
        <3>1. \A m \in JobsOf(k) : m \in JobIds /\ m \notin JobsOf(i)
            BY <1>4, RowTypes DEF AgreeingInv, JobsOf
        <3> QED BY <1>1, <1>2, <2>2, <3>1, AcceptedReceipts
    <2>5. ReportIsTrue(k)'
        <3>1. outbox[k] # Nothing => /\ outbox[k].job \in JobsOf(k)
                                     /\ jobs'[outbox[k].job] = jobs[outbox[k].job]
            BY <2>2 DEF AgreeingInv, SwitchingInv, Links
        <3>2. ASSUME outbox[k] # Nothing, outbox[k].result.kind = "rollback"
              PROVE  jobs[outbox[k].job].of \in JobsOf(k)
            <4>1. DoneBy(jobs[outbox[k].job].kind) = "rollback"
                BY <2>1, <3>2 DEF ReportIsTrue
            <4>2. jobs[outbox[k].job].kind = "rollbackOperation"
                <5>1. jobs[outbox[k].job] \in Rows
                    BY <3>1, <3>2, RowTypes DEF AgreeingInv, JobsOf
                <5> QED BY <4>1, <5>1 DEF DoneBy, Rows, Kinds
            <4> QED BY <3>1, <3>2, <4>2 DEF AgreeingInv, Agreement, DecisionsNameRows, JobsOf
        <3> QED BY <1>3, <2>1, <2>3, <2>4, <3>1, <3>2
                DEF ReportIsTrue, IsLatest, LatestInHistory, Kept, DoneBy
    <2>6. LatestApplyOnTop(k)'
        <3>1. \A m \in DOMAIN jobs' : IsLatestOperation(k, m)' =>
                 /\ m \in DOMAIN jobs /\ jobs'[m] = jobs[m] /\ IsLatestOperation(k, m)
                 /\ receipts'[m] = receipts[m]
            BY <2>2, <2>4 DEF IsLatestOperation, OperationsOf, JobsOf
        <3> QED BY <1>3, <2>1, <3>1 DEF LatestApplyOnTop, IsLatest, LatestInHistory
    <2>7. ReceiptsFollowHistory(k)'
        BY <1>3, <2>1, <2>2, <2>3, <2>4 DEF ReceiptsFollowHistory, Reported, Kept
    <2>8. VerdictsFollowReports(k)'
        <3> SUFFICES ASSUME NEW m \in DOMAIN jobs, NEW r \in Revisions,
                            IsLatestOperation(k, m)', jobs'[m].state = "succeeded"
                     PROVE  VerdictFollows(k, r, m)'
            BY <1>3 DEF VerdictsFollowReports
        <3>1. IsLatestOperation(k, m) /\ jobs'[m] = jobs[m]
            BY <2>2 DEF IsLatestOperation, OperationsOf
        <3>2. VerdictFollows(k, r, m)
            BY <2>1, <3>1 DEF VerdictsFollowReports
        <3>3. LaterPlans(k, r, m)' = LaterPlans(k, r, m)
            BY <2>2 DEF LaterPlans, PlansOf
        <3>4. RevisionOf(m)' = RevisionOf(m)
            BY <3>1 DEF RevisionOf
        <3>5. \A p \in LaterPlans(k, r, m) : PlanHasChanges(p)' <=> PlanHasChanges(p)
            BY <2>2 DEF LaterPlans, PlansOf, PlanHasChanges
        <3> QED BY <2>3, <3>2, <3>3, <3>4, <3>5 DEF VerdictFollows
    <2> QED BY <2>5, <2>6, <2>7, <2>8
<1>5. ActiveIsLast' /\ DecisionsNameRows' /\ SuccessesAreTimed' /\ ReceiptsOfSuccesses'
    BY <1>1, <1>2, AcceptKeepsRows
<1>6. ReportIsTrue(i)' /\ LatestApplyOnTop(i)' /\ ReceiptsFollowHistory(i)'
    BY <1>1, <1>2, AcceptKeepsHistory
<1>7. VerdictsFollowReports(i)'
    BY <1>1, <1>2, AcceptKeepsVerdicts
<1> QED BY <1>4, <1>5, <1>6, <1>7 DEF Agreement

------------------------------------------------------------------------------
\* The control plane and the runners agree in every state.
LEMMA AgreeingInitially == Init => AgreeingInv
<1> SUFFICES ASSUME Init PROVE Agreement
    BY Initially DEF AgreeingInv
<1>1. DOMAIN jobs = {} /\ \A n \in JobIds : receipts[n] = Nothing
    BY EmptySeq DEF Init
<1>2. \A i \in Checkouts : outbox[i] = Nothing /\ history[i] = <<>> /\ DOMAIN history[i] = {}
    BY EmptySeq DEF Init
<1> QED BY <1>1, <1>2 DEF Agreement, ActiveIsLast, DecisionsNameRows, SuccessesAreTimed,
           ReceiptsOfSuccesses, ReportIsTrue, LatestApplyOnTop,
           ReceiptsFollowHistory, VerdictsFollowReports, JobsOf

LEMMA AgreeingStep ==
    ASSUME AgreeingInv, [Next]_vars
    PROVE  AgreeingInv'
<1>1. SwitchingInv'
    BY StepOfTheTable DEF AgreeingInv
<1>2. CASE \/ \E i \in Checkouts, r \in Revisions : RequestPlan(i, r)
           \/ \E i \in Checkouts, n \in JobIds :
                 ApproveAndEnqueueApply(i, n) \/ EnqueueRollback(i, n)
           \/ \E n \in JobIds : RequestCancellation(n) \/ Claim(n) \/ ExpireOverdue(n)
    BY <1>1, <1>2, QuietSteps, QuietKeeps DEF AgreeingInv
<1>3. ASSUME NEW i \in Checkouts, CompleteJob(i) PROVE AgreeingInv'
    BY <1>1, <1>3, DropKeeps, AcceptKeeps DEF AgreeingInv
<1>4. ASSUME NEW i \in Checkouts, NEW n \in JobIds, Execute(i, n) PROVE AgreeingInv'
    BY <1>1, <1>4, ExecuteKeeps DEF AgreeingInv
<1>5. ASSUME NEW i \in Checkouts, NEW shape \in Shapes, Edit(i, shape) PROVE AgreeingInv'
    BY <1>1, <1>5, EditKeeps DEF AgreeingInv
<1>6. ASSUME NEW i \in Checkouts, FinishJob(i) \/ Crash(i) PROVE AgreeingInv'
    BY <1>1, <1>6, SaveKeeps DEF AgreeingInv
<1>7. CASE UNCHANGED vars
    <2>1. QuietStep
        <3>1. \A n \in DOMAIN jobs : QuietRow(n)
            BY <1>7 DEF vars, serverVars, QuietRow
        <3> QED BY <1>7, <3>1 DEF vars, serverVars, runnerVars, QuietStep
    <2> QED BY <1>1, <2>1, QuietKeeps DEF AgreeingInv
<1> QED BY <1>2, <1>3, <1>4, <1>5, <1>6, <1>7 DEF Next

\* Receipts agree with the runners' own histories: the operation that one calls applied
\* is still there, or its rollback has run and the result was not accepted, or was lost
\* in a crash; the one it calls rolled back is not there any more.
THEOREM ReceiptsMatchHistories == Spec => []ReceiptsAreReal
<1>1. AgreeingInv => ReceiptsAreReal
    <2> SUFFICES ASSUME AgreeingInv, NEW i \in Checkouts, NEW n \in JobsOf(i),
                        receipts[n] # Nothing
                 PROVE  IF receipts[n].outcome = "rolledBack"
                        THEN ~Kept(i, n, receipts[n].operation)
                        ELSE Kept(i, n, receipts[n].operation) \/
                             \E m \in JobsOf(i) :
                                /\ jobs[m].kind = "rollbackOperation" /\ jobs[m].of = n
                                /\ jobs[m].state \in Held \cup {"expired"} \/ m \in lost
        BY DEF ReceiptsAreReal
    <2>1. ReceiptsFollowHistory(i)
        BY DEF AgreeingInv, Agreement
    <2> QED BY <2>1 DEF ReceiptsFollowHistory
<1> QED BY <1>1, AgreeingInitially, AgreeingStep, PTL DEF Spec

\* What a step does to the histories and the assignment.
LEMMA WhatChangesHistories ==
    ASSUME AgreeingInv, [Next]_vars
    PROVE  /\ history' # history =>
                 \E i \in Checkouts, n \in JobIds : ExecuteApply(i, n) \/ ExecuteRollback(i, n)
           /\ assigned' # assigned => \E i \in Checkouts : CompleteJob(i)
<1>1. CASE \/ \E i \in Checkouts, r \in Revisions : RequestPlan(i, r)
           \/ \E i \in Checkouts, n \in JobIds :
                 ApproveAndEnqueueApply(i, n) \/ EnqueueRollback(i, n)
           \/ \E n \in JobIds : RequestCancellation(n) \/ Claim(n) \/ ExpireOverdue(n)
    BY <1>1, QuietSteps DEF AgreeingInv, QuietStep
<1>2. ASSUME NEW i \in Checkouts, CompleteJob(i) PROVE history' = history
    BY <1>2 DEF CompleteJob
<1>3. ASSUME NEW i \in Checkouts, NEW n \in JobIds, Execute(i, n)
      PROVE  /\ assigned' = assigned
             /\ history' = history \/ ExecuteApply(i, n) \/ ExecuteRollback(i, n)
    BY <1>3 DEF Execute, StopUnchanged, StopTorn, ExecutePlan, ExecuteApply, ExecuteRollback,
       RefuseRollback, StopHalfWay, serverVars
<1>4. ASSUME NEW i \in Checkouts, NEW shape \in Shapes, Edit(i, shape)
      PROVE  history' = history /\ assigned' = assigned
    BY <1>4 DEF Edit, serverVars
<1>5. ASSUME NEW i \in Checkouts, FinishJob(i) \/ Crash(i)
      PROVE  history' = history /\ assigned' = assigned
    BY <1>5 DEF FinishJob, Crash, serverVars
<1>6. CASE UNCHANGED vars
    BY <1>6 DEF vars, serverVars, runnerVars
<1> QED BY <1>1, <1>2, <1>3, <1>4, <1>5, <1>6 DEF Next

\* An apply that takes effect, and one that does so again after a crash, does to the path
\* what its plan said, goes over nothing that was modified, and leaves the revision whole;
\* its plan is still the latest attempt for the checkout.
THEOREM ReviewedThenApplied == Spec => AppliesWhatWasReviewed
<1> DEFINE Done(i) ==
              LET plan == jobs[history'[i][Len(history'[i])].job].of
                  reviewed == jobs[plan].result.digest
                  revision == jobs[plan].revision
                  found == checkout[i].content
              IN  /\ reviewed = "unchanged" => found = Intact(revision)
                  /\ reviewed = "add" => found.holds = NoRevision \/ found.shape = "missing"
                  /\ reviewed = "replace" => found.holds \notin {revision, NoRevision}
                  /\ found.shape # "modified"
                  /\ checkout'[i].content = Intact(revision)
                  /\ plan = LatestPlanAttempt(i)
           Step == \A i \in Checkouts : Len(history'[i]) > Len(history[i]) => Done(i)
<1>1. AgreeingInv /\ [Next]_vars => [Step]_vars
    <2> SUFFICES ASSUME AgreeingInv, [Next]_vars, NEW i \in Checkouts,
                        Len(history'[i]) > Len(history[i])
                 PROVE  Done(i)
        OBVIOUS
    <2>1. /\ history \in [Checkouts -> Seq([job : JobIds, previous : MaybeRevision])]
          /\ checkout \in [Checkouts -> Trees]
        BY DEF AgreeingInv, SwitchingInv, TypeOK
    <2>2. history[i] \in Seq([job : JobIds, previous : MaybeRevision])
          /\ Len(history[i]) \in Nat
        BY <2>1, LenProperties
    <2>3. history' # history
        BY <2>2
    <2>4. PICK k \in Checkouts, n \in JobIds : ExecuteApply(k, n) \/ ExecuteRollback(k, n)
        BY <2>3, WhatChangesHistories
    <2>5. k = i
        BY <2>1, <2>2, <2>4 DEF ExecuteApply, ExecuteRollback
    <2>6. ~ExecuteRollback(i, n)
        <3> SUFFICES ASSUME ExecuteRollback(i, n) PROVE FALSE
            OBVIOUS
        <3>1. history[i] # <<>> /\ history'[i] = SubSeq(history[i], 1, Len(history[i]) - 1)
            BY <2>1 DEF ExecuteRollback, CanUndo, IsLatest
        <3>2. Len(history[i]) \in Nat \ {0}
            BY <2>2, <3>1, EmptySeq, LenProperties
        <3>3. Len(history'[i]) = Len(history[i]) - 1
            BY <2>2, <3>1, <3>2, SubSeqProperties
        <3> QED BY <2>2, <3>3
    <2>7. /\ n \in JobsOf(i) /\ jobs[n].kind = "applyPlan" /\ jobs[n].state \in Held
          /\ jobs[jobs[n].of].result.digest = Digest(checkout[i].content, jobs[n].revision)
          /\ Digest(checkout[i].content, jobs[n].revision) # "conflict"
          /\ checkout'[i].content = Intact(jobs[n].revision)
          /\ history'[i] = Append(history[i], [job |-> n, previous |-> checkout[i].content.holds])
        BY <2>1, <2>4, <2>5, <2>6 DEF ExecuteApply, Holds, SameAsReviewed, FreshDigest, Whole
    <2>8. history'[i][Len(history'[i])].job = n
        <3>1. checkout[i].content.holds \in MaybeRevision
            BY <2>1 DEF Trees, Contents
        <3>2. [job |-> n, previous |-> checkout[i].content.holds]
                 \in [job : JobIds, previous : MaybeRevision]
            BY <3>1
        <3>3. history'[i][Len(history'[i])] = [job |-> n, previous |-> checkout[i].content.holds]
            BY <2>2, <2>7, <3>2, AppendProperties
        <3> QED BY <3>3
    <2> DEFINE plan == jobs[n].of
    <2>9. /\ plan \in DOMAIN jobs /\ plan < n /\ jobs[plan].checkout = i
          /\ jobs[plan].kind = "planSetup" /\ jobs[plan].revision = jobs[n].revision
          /\ \A m \in DOMAIN jobs :
                jobs[m].kind = "planSetup" /\ jobs[m].checkout = i /\ m < n => m <= plan
        BY <2>7 DEF AgreeingInv, Agreement, DecisionsNameRows, JobsOf
    <2>10. plan = LatestPlanAttempt(i)
        <3>1. \A m \in PlansOf(i) : m < n
            BY <2>7, WhileHeld, RowTypes DEF AgreeingInv, PlansOf, JobsOf
        <3>2. plan \in PlansOf(i) /\ \A m \in PlansOf(i) : m <= plan
            BY <2>9, <3>1 DEF PlansOf, JobsOf
        <3>3. PlansOf(i) \subseteq DOMAIN jobs /\ DOMAIN jobs \subseteq Nat
            BY RowTypes DEF AgreeingInv, PlansOf, JobsOf
        <3> HIDE DEF plan
        <3> QED BY <3>2, <3>3, LastIsLast DEF LatestPlanAttempt, AgreeingInv
    <2>11. checkout[i].content \in Contents /\ jobs[n].revision \in MaybeRevision
        BY <2>1, <2>7, WhileHeld DEF Trees, Rows
    <2>12. LET reviewed == jobs[plan].result.digest
               found == checkout[i].content
           IN  /\ reviewed = "unchanged" => found = Intact(jobs[n].revision)
               /\ reviewed = "add" => found.holds = NoRevision \/ found.shape = "missing"
               /\ reviewed = "replace" => found.holds \notin {jobs[n].revision, NoRevision}
               /\ found.shape # "modified"
        BY <2>7, <2>11, DigestTells
    <2> QED BY <2>7, <2>8, <2>9, <2>10, <2>12
<1> QED BY <1>1, AgreeingInitially, AgreeingStep, PTL DEF Spec, AppliesWhatWasReviewed

\* The assignment claims no success that did not happen: it moves to a revision that the
\* reporting checkout holds, by the very report that moves it.
THEOREM AssignmentIsOnDisk == Spec => AssignmentFollowsDisk
<1> DEFINE Step == assigned' # assigned =>
                      \E i \in Checkouts :
                         /\ outbox[i] # Nothing /\ outbox'[i] = Nothing
                         /\ outbox[i].result.kind \in {"apply", "rollback"}
                         /\ outbox[i].result.revision = assigned'
                         /\ checkout[i].content.holds = assigned'
<1>1. AgreeingInv /\ [Next]_vars => [Step]_vars
    <2> SUFFICES ASSUME AgreeingInv, [Next]_vars, assigned' # assigned
                 PROVE  Step
        OBVIOUS
    <2>1. PICK i \in Checkouts : CompleteJob(i)
        BY WhatChangesHistories
    <2>2. PICK n, result : n = outbox[i].job /\ result = outbox[i].result
        OBVIOUS
    <2>3. jobs[n].state \in Held /\ TerminalState(result) = "succeeded"
        BY <2>1, <2>2 DEF CompleteJob, serverVars
    <2>4. /\ outbox[i] # Nothing /\ PersistPortableReceipt(n, result)
        BY <2>1, <2>2, <2>3 DEF CompleteJob
    <2>5. outbox'[i] = Nothing /\ result.kind = DoneBy(jobs[n].kind)
        BY <2>1, <2>2, <2>3, AcceptedRow
    <2>6. /\ result.kind \in {"apply", "rollback"} =>
                checkout[i].content.holds = result.revision
          /\ result.kind = "apply" => result.revision = jobs[n].revision
        BY <2>2, <2>4 DEF AgreeingInv, Agreement, ReportIsTrue
    <2>7. result.kind \in {"apply", "rollback"} /\ result.revision = assigned'
        BY <2>4, <2>5, <2>6 DEF PersistPortableReceipt, DoneBy
    <2> QED BY <2>2, <2>4, <2>5, <2>6, <2>7
<1> QED BY <1>1, AgreeingInitially, AgreeingStep, PTL DEF Spec, AssignmentFollowsDisk

\* What the browser offers to roll back is what the runner would undo, and its receipt
\* allows it.
THEOREM OfferedIsOnTop == Spec => []OfferedRollbackIsLatest
<1>1. AgreeingInv => OfferedRollbackIsLatest
    <2> SUFFICES ASSUME AgreeingInv, NEW i \in Checkouts, Offered(i) # 0
                 PROVE  LET n == Offered(i)
                        IN  /\ IsLatest(i, n, receipts[n].operation)
                            /\ receipts[n].outcome = "applied"
        BY DEF OfferedRollbackIsLatest
    <2> DEFINE n == LatestOperation(i)
    <2>1. /\ Offered(i) = n /\ n # 0
          /\ jobs[n].kind = "applyPlan" /\ jobs[n].state = "succeeded"
          /\ jobs[n].result.recoverability = "rollbackAvailable"
        BY DEF Offered
    <2>2. n \in OperationsOf(i) /\ \A m \in OperationsOf(i) : m <= n
        <3>1. OperationsOf(i) \subseteq DOMAIN jobs
            BY DEF OperationsOf, JobsOf
        <3> QED BY <2>1, <3>1, LastIsLast DEF AgreeingInv, LatestOperation
    <2> HIDE DEF n
    <2>3. n \in JobsOf(i) /\ n \in DOMAIN jobs /\ DOMAIN jobs \subseteq Nat
        BY <2>2, RowTypes DEF AgreeingInv, OperationsOf, JobsOf
    <2>4. IsLatest(i, n, receipts[n].operation)
        BY <2>1, <2>2, <2>3 DEF AgreeingInv, Agreement, LatestApplyOnTop, IsLatestOperation
    <2>5. receipts[n].outcome # "rolledBack"
        <3> SUFFICES ASSUME receipts[n].outcome = "rolledBack" PROVE FALSE
            OBVIOUS
        <3>1. n \in JobIds /\ receipts[n] # Nothing
            BY <2>1, <2>3, RowTypes DEF AgreeingInv, Agreement, ReceiptsOfSuccesses
        <3>2. PICK m \in DOMAIN jobs : jobs[m].kind = "rollbackOperation" /\ jobs[m].of = n
            BY <3>1 DEF AgreeingInv, Agreement, ReceiptsOfSuccesses
        <3>3. n < m /\ jobs[m].checkout = i
            BY <2>3, <3>2 DEF AgreeingInv, Agreement, DecisionsNameRows, JobsOf
        <3>4. m \in OperationsOf(i)
            BY <3>2, <3>3 DEF OperationsOf, PlansOf, JobsOf
        <3> QED BY <2>2, <2>3, <3>2, <3>3, <3>4
    <2>6. receipts[n].outcome = "applied"
        BY <2>1, <2>3, <2>5 DEF AgreeingInv, Agreement, ReceiptsOfSuccesses
    <2> QED BY <2>1, <2>4, <2>6
<1> QED BY <1>1, AgreeingInitially, AgreeingStep, PTL DEF Spec

\* Rows of one checkout that succeeded did so in the order they were asked for.
LEMMA SuccessesAreOrdered ==
    ASSUME AgreeingInv, NEW i \in Checkouts, NEW m \in Succeeded(JobsOf(i)),
           NEW n \in Succeeded(JobsOf(i))
    PROVE  /\ jobs[m].completed \in Nat /\ jobs[m].completed # 0
           /\ m <= n <=> jobs[m].completed <= jobs[n].completed
<1>1. /\ m \in DOMAIN jobs /\ n \in DOMAIN jobs /\ DOMAIN jobs \subseteq Nat
      /\ jobs[m] \in Rows /\ jobs[n] \in Rows
    BY RowTypes DEF AgreeingInv, Succeeded, JobsOf
<1>2. jobs[m].completed \in Nat /\ jobs[n].completed \in Nat /\ m # 0 /\ n # 0
    BY <1>1, RowTypes DEF AgreeingInv, Rows
<1>3. /\ IssuedAt(m) < jobs[m].completed /\ IssuedAt(n) < jobs[n].completed
      /\ m < n => jobs[m].completed < IssuedAt(n)
      /\ n < m => jobs[n].completed < IssuedAt(m)
    BY <1>1 DEF AgreeingInv, Agreement, SuccessesAreTimed, Succeeded, JobsOf
<1>4. IssuedAt(m) \in Nat /\ IssuedAt(n) \in Nat /\ m \in Nat /\ n \in Nat
    BY <1>1, <1>2 DEF IssuedAt
<1>5. m = n \/ m < n \/ n < m
    BY <1>4
<1> QED BY <1>2, <1>3, <1>4, <1>5

\* So the one of a set of them that completed last is the last of them.
LEMMA LastCompletedIsLast ==
    ASSUME AgreeingInv, NEW i \in Checkouts, NEW S, S \subseteq Succeeded(JobsOf(i))
    PROVE  LastCompletedIn(S) = LastIn(S)
<1>1. S \subseteq DOMAIN jobs /\ DOMAIN jobs \subseteq Nat
    BY RowTypes DEF AgreeingInv, Succeeded, JobsOf
<1>2. {n \in S : \A m \in S : jobs[m].completed <= jobs[n].completed}
        = {n \in S : \A m \in S : m <= n}
    BY SuccessesAreOrdered
<1>3. CASE S = {}
    BY <1>3 DEF LastCompletedIn, LastIn
<1>4. CASE S # {}
    <2> DEFINE T == {n \in S : \A m \in S : m <= n}
    <2>1. LastIn(S) \in S /\ \A m \in S : m <= LastIn(S)
        BY <1>1, <1>4, LastIsLast DEF AgreeingInv
    <2>2. T = {LastIn(S)}
        <3>1. LastIn(S) \in T
            BY <2>1
        <3>2. \A n \in T : n = LastIn(S)
            BY <1>1, <2>1
        <3> QED BY <3>1, <3>2
    <2>3. LastIn(T) \in T
        <3>1. T \subseteq DOMAIN jobs
            BY <1>1
        <3> HIDE DEF T
        <3> QED BY <2>2, <3>1, LastIsLast DEF AgreeingInv
    <2>4. LastCompletedIn(S) = LastIn(T)
        BY <1>2 DEF LastCompletedIn
    <2> QED BY <2>2, <2>3, <2>4
<1> QED BY <1>3, <1>4

\* After an operation that succeeded, the health shown agrees with the last report that
\* bears on the assigned revision.
THEOREM HealthIsHonest == Spec => []SettledHealthIsHonest
<1>1. AgreeingInv => SettledHealthIsHonest
    <2> SUFFICES ASSUME AgreeingInv, NEW i \in Checkouts,
                        LatestOperation(i) \in Succeeded(OperationsOf(i)),
                        assigned # NoRevision
                 PROVE  /\ Health(i) = "current" => verdicts[i][assigned] = "yes"
                        /\ Health(i) = "drifted" => verdicts[i][assigned] = "no"
        BY DEF SettledHealthIsHonest
    <2> DEFINE n == LatestOperation(i)
               later == LaterPlans(i, assigned, n)
               last == LastIn(AssignedPlans(i))
    <2>1. assigned \in Revisions
        BY DEF AgreeingInv, SwitchingInv, TypeOK, MaybeRevision
    <2>2. /\ DOMAIN jobs \subseteq Nat \ {0}
          /\ n \in OperationsOf(i) /\ n \in DOMAIN jobs /\ n \in Succeeded(JobsOf(i))
          /\ jobs[n].state = "succeeded" /\ n # 0
        BY RowTypes DEF AgreeingInv, Succeeded, OperationsOf, JobsOf
    <2>3. \A m \in OperationsOf(i) : m <= n
        <3>1. OperationsOf(i) \subseteq DOMAIN jobs
            BY DEF OperationsOf, JobsOf
        <3> QED BY <2>2, <3>1, LastIsLast DEF AgreeingInv, LatestOperation
    <2>4. VerdictFollows(i, assigned, n)
        BY <2>1, <2>2, <2>3
           DEF AgreeingInv, Agreement, VerdictsFollowReports, IsLatestOperation
    <2>5. /\ AssignedPlans(i) \subseteq Succeeded(JobsOf(i))
          /\ AssignedPlans(i) \subseteq DOMAIN jobs
          /\ \A p \in AssignedPlans(i) : p # n
          /\ later = {p \in AssignedPlans(i) : n < p}
        BY <2>2 DEF AssignedPlans, LaterPlans, Succeeded, OperationsOf, PlansOf, JobsOf
    <2>6. \/ AssignedPlans(i) = {} /\ last = 0
          \/ last \in AssignedPlans(i) /\ \A p \in AssignedPlans(i) : p <= last
        BY <2>5, LastIsLast DEF AgreeingInv
    <2>7. Barrier(i) = jobs[n].completed
        BY <2>2, SuccessesAreOrdered DEF Barrier
    <2>8. FreshPlan(i) = IF last # 0 /\ n < last THEN last ELSE 0
        <3>1. LastCompletedIn(AssignedPlans(i)) = last
            BY <2>5, LastCompletedIsLast
        <3>2. last # 0 => (jobs[last].completed > jobs[n].completed <=> n < last)
            <4> SUFFICES ASSUME last # 0
                         PROVE  jobs[last].completed > jobs[n].completed <=> n < last
                OBVIOUS
            <4>1. last \in Succeeded(JobsOf(i)) /\ last \in Nat /\ n \in Nat
                BY <2>2, <2>5, <2>6
            <4>2. /\ jobs[last].completed \in Nat /\ jobs[n].completed \in Nat
                  /\ last <= n <=> jobs[last].completed <= jobs[n].completed
                BY <2>2, <4>1, SuccessesAreOrdered
            <4> HIDE DEF last, n
            <4> QED BY <4>1, <4>2
        <3> HIDE DEF last, n
        <3> QED BY <2>7, <3>1, <3>2 DEF FreshPlan
    <2>9. ~RequiresAttention(i)
        BY <2>2 DEF RequiresAttention
    <2> HIDE DEF last
    <2>10. CASE FreshPlan(i) = 0
        <3>1. later = {}
            <4> SUFFICES ASSUME NEW p \in later PROVE FALSE
                OBVIOUS
            <4>1. p \in AssignedPlans(i) /\ n < p /\ p \in Nat /\ n \in Nat
                BY <2>2, <2>5
            <4>2. last # 0 /\ p <= last /\ last \in Nat
                BY <2>2, <2>5, <2>6, <4>1
            <4> HIDE DEF n
            <4> QED BY <2>8, <2>10, <4>1, <4>2
        <3>2. verdicts[i][assigned] = IF assigned = RevisionOf(n) THEN "yes" ELSE "no"
            BY <2>4, <3>1 DEF VerdictFollows
        <3>3. LastIn(Succeeded(OperationsOf(i))) = n
            <4>1. /\ Succeeded(OperationsOf(i)) \subseteq DOMAIN jobs
                  /\ n \in Succeeded(OperationsOf(i))
                  /\ \A m \in Succeeded(OperationsOf(i)) : m <= n
                BY <2>2, <2>3 DEF Succeeded, OperationsOf, JobsOf
            <4> DEFINE S == Succeeded(OperationsOf(i))
            <4>2. LastIn(S) \in S /\ \A m \in S : m <= LastIn(S)
                <5> HIDE DEF S
                <5> QED BY <4>1, LastIsLast DEF AgreeingInv, S
            <4> HIDE DEF S, n
            <4> QED BY <2>2, <4>1, <4>2 DEF S
        <3>4. Materialized(i) = RevisionOf(n)
            BY <2>2, <2>10, <3>3 DEF Materialized
        <3> HIDE DEF n
        <3> QED BY <2>9, <2>10, <3>2, <3>4 DEF Health, HasDrift
    <2>11. CASE FreshPlan(i) # 0
        <3>1. FreshPlan(i) = last /\ last \in later /\ \A q \in later : q <= last
            BY <2>5, <2>6, <2>8, <2>11
        <3>2. verdicts[i][assigned] = IF PlanHasChanges(last) THEN "no" ELSE "yes"
            BY <2>4, <3>1 DEF VerdictFollows
        <3>3. Health(i) = IF PlanHasChanges(last) THEN "drifted" ELSE "current"
            BY <2>9, <2>11, <3>1 DEF Health, HasDrift, Materialized
        <3> QED BY <3>2, <3>3
    <2> QED BY <2>10, <2>11
<1> QED BY <1>1, AgreeingInitially, AgreeingStep, PTL DEF Spec
=============================================================================
