-------------------------- MODULE SkillUpdateProofs --------------------------
(* Updating skills loses no content, keeps the person's work and reports     *)
(* success only of what is in the copies, for any skills, targets, versions, *)
(* faults, changes and requests.                                             *)
EXTENDS SkillUpdate, TLAPS

Works == [all : BOOLEAN, asked : BOOLEAN,
          step : {"check", "fetch", "clear", "place", "record", "copy", "write", "next"},
          skill : Skills \cup {None}, new : Versions \cup {None}, left : SUBSET Targets,
          target : Targets \cup {None}]

Reports == {"none", "ok", "failed", "refused"}

\* A step of an update has what it works on.
WorkTypeOK ==
    Busy => /\ work \in Works
            /\ work.step # "next" => work.skill \in Skills
            /\ work.step \in {"clear", "place"} => work.new \in Versions
            /\ work.step = "write" => work.target \in Rewritten(work.skill)
            /\ work.left \subseteq Rewritten(work.skill)
            /\ work.step \notin {"copy", "write"} => work.left = {}
            /\ work.step \in {"record", "copy", "write"} =>
                   central[work.skill] \in Versions \cup {"inplace"}

\* The state keeps its types.
UpdateTypeOK ==
    /\ central \in [Skills -> Whole \cup {"none", "torn"}]
    /\ staged \in [Skills -> SUBSET Versions]
    /\ disk \in [Targets -> Whole \cup {"none", "torn", "link"}]
    /\ recorded \in [Skills -> Versions \cup {"inplace", None}]
    /\ report \in [Skills -> Reports]
    /\ call \in Skills \cup {"all", None}
    /\ WorkTypeOK

\* The staging directory has the new folder until it is in place.
StagedUntilPlaced == Busy /\ work.step \in {"clear", "place"} => work.new \in staged[work.skill]

SwapInv == UpdateTypeOK /\ StagedUntilPlaced /\ ContentSurvives

------------------------------------------------------------------------------
LEMMA InitSwapInv ==
    ASSUME Init PROVE SwapInv
<1>1. First \in Whole /\ First \in Versions
    BY UpdateAssumption DEF Whole
<1>3. /\ central \in [Skills -> Whole \cup {"none", "torn"}]
      /\ staged \in [Skills -> SUBSET Versions]
      /\ disk \in [Targets -> Whole \cup {"none", "torn", "link"}]
      /\ recorded \in [Skills -> Versions \cup {"inplace", None}]
      /\ report \in [Skills -> Reports]
    BY <1>1 DEF Init, Reports
<1>4. ~Busy /\ call = None
    BY DEF Init, Busy
<1> QED BY <1>1, <1>3, <1>4
        DEF Init, SwapInv, UpdateTypeOK, WorkTypeOK, StagedUntilPlaced, ContentSurvives

LEMMA EndedTypes ==
    ASSUME SwapInv, Busy, work.skill \in Skills, NEW how \in Reports, Ended(work.skill, how)
    PROVE  /\ report' \in [Skills -> Reports]
           /\ call' \in Skills \cup {"all", None}
           /\ Busy' => work' \in Works /\ work'.step = "next" /\ work'.left = {}
<1>1. work \in Works
    BY DEF SwapInv, UpdateTypeOK, WorkTypeOK
<1>2. report' \in [Skills -> Reports]
    BY DEF SwapInv, UpdateTypeOK, WorkTypeOK, Ended
<1>3. CASE work.all
    <2>1. work' = [work EXCEPT !.step = "next", !.skill = None, !.left = {}]
        BY <1>3 DEF Ended
    <2>2. work' \in Works /\ work'.step = "next" /\ work'.left = {}
        BY <1>1, <2>1 DEF Works
    <2>3. call' = call
        BY <1>3 DEF Ended
    <2> QED BY <1>2, <2>2, <2>3 DEF SwapInv, UpdateTypeOK, WorkTypeOK
<1>4. CASE ~work.all
    BY <1>2, <1>4 DEF Ended, SwapInv, UpdateTypeOK, WorkTypeOK, Busy
<1> QED BY <1>3, <1>4

\* A step that leaves the folders alone, and goes on or ends.
LEMMA FoldersAlone ==
    ASSUME SwapInv, UNCHANGED <<central, staged>>,
           Busy' /\ work'.step \in {"clear", "place"} =>
               Busy /\ work.step \in {"clear", "place"} /\ work'.skill = work.skill
               /\ work'.new = work.new
    PROVE  StagedUntilPlaced' /\ ContentSurvives'
BY DEF SwapInv, StagedUntilPlaced, ContentSurvives

LEMMA SwapPreserved ==
    ASSUME SwapInv, [Next]_vars PROVE SwapInv'
<1> USE DEF machine, store, process, bounds, ghosts, Rewritten, TargetsOf, Whole
<1>0. Busy => work \in Works
    BY DEF SwapInv, UpdateTypeOK, WorkTypeOK
<1>1. CASE Refuse
    <2>1. work.skill \in Skills /\ Busy /\ UNCHANGED <<machine, recorded>>
          /\ Ended(work.skill, "refused") /\ "refused" \in Reports
        BY <1>1 DEF Refuse, At, SwapInv, UpdateTypeOK, WorkTypeOK, Reports
    <2>2. UpdateTypeOK'
        BY <2>1, EndedTypes DEF SwapInv, UpdateTypeOK, WorkTypeOK
    <2>3. Busy' => work'.step = "next"
        BY <2>1, EndedTypes
    <2> QED BY <2>1, <2>2, <2>3, FoldersAlone DEF SwapInv
<1>2. CASE Accept
    <2>1. Busy /\ work' = [work EXCEPT !.step = "fetch"] /\ work.skill \in Skills
        BY <1>2 DEF Accept, At, SwapInv, UpdateTypeOK, WorkTypeOK
    <2>2. work' \in Works /\ work'.step = "fetch" /\ work'.skill = work.skill
          /\ work'.left = work.left
        BY <1>0, <2>1 DEF Works
    <2>3. WorkTypeOK'
        BY <1>2, <2>1, <2>2 DEF Accept, At, SwapInv, UpdateTypeOK, WorkTypeOK
    <2>4. report' \in [Skills -> Reports]
        BY <1>2 DEF Accept, SwapInv, UpdateTypeOK, Reports
    <2>5. UpdateTypeOK'
        BY <1>2, <2>3, <2>4 DEF Accept, SwapInv, UpdateTypeOK
    <2> QED BY <1>2, <2>2, <2>5, FoldersAlone DEF Accept, SwapInv
<1>3. ASSUME Busy, work.skill \in Skills, Failed(work.skill),
             central' \in [Skills -> Whole \cup {"none", "torn"}],
             staged' \in [Skills -> SUBSET Versions], ContentSurvives'
      PROVE  SwapInv'
    <2>1. Ended(work.skill, "failed") /\ "failed" \in Reports /\ UNCHANGED <<disk, recorded>>
        BY <1>3 DEF Failed, Reports
    <2>2. UpdateTypeOK'
        BY <1>3, <2>1, EndedTypes DEF SwapInv, UpdateTypeOK, WorkTypeOK
    <2>3. Busy' => work'.step = "next"
        BY <1>3, <2>1, EndedTypes
    <2> QED BY <1>3, <2>2, <2>3 DEF SwapInv, StagedUntilPlaced
<1>4. CASE CentralMissing \/ FetchFails
    BY <1>3, <1>4 DEF CentralMissing, FetchFails, At, SwapInv, UpdateTypeOK, WorkTypeOK, ContentSurvives
<1>5. CASE Fetch
    <2>1. PICK v \in Versions :
              /\ staged' = [staged EXCEPT ![work.skill] = @ \cup {v}]
              /\ work' = [work EXCEPT !.step = "clear", !.new = v]
        BY <1>5 DEF Fetch
    <2>2. Busy /\ work.skill \in Skills
        BY <1>5 DEF Fetch, At, SwapInv, UpdateTypeOK, WorkTypeOK
    <2>3. /\ work' \in Works /\ work'.step = "clear" /\ work'.skill = work.skill
          /\ work'.new = v /\ work'.left = work.left
        BY <1>0, <2>1, <2>2 DEF Works
    <2>4. WorkTypeOK'
        BY <1>5, <2>2, <2>3 DEF Fetch, At, SwapInv, UpdateTypeOK, WorkTypeOK
    <2>5. staged' \in [Skills -> SUBSET Versions]
        BY <2>1 DEF SwapInv, UpdateTypeOK
    <2>6. UpdateTypeOK'
        BY <1>5, <2>4, <2>5 DEF Fetch, SwapInv, UpdateTypeOK
    <2> QED BY <1>5, <2>1, <2>2, <2>3, <2>6
            DEF Fetch, SwapInv, StagedUntilPlaced, ContentSurvives, UpdateTypeOK, WorkTypeOK
<1>6. CASE Clear
    <2>1. /\ Busy /\ work.step = "clear" /\ work.skill \in Skills /\ work.new \in Versions
          /\ work.new \in staged[work.skill] /\ UNCHANGED staged
        BY <1>6 DEF Clear, At, SwapInv, UpdateTypeOK, WorkTypeOK, StagedUntilPlaced
    <2>2. \/ /\ central' = [central EXCEPT ![work.skill] = "torn"]
             /\ work' = work
          \/ /\ central' = [central EXCEPT ![work.skill] = "none"]
             /\ work' = [work EXCEPT !.step = "place"]
        BY <1>6 DEF Clear
    <2>3. /\ work' \in Works /\ work'.step \in {"clear", "place"} /\ work'.skill = work.skill
          /\ work'.new = work.new /\ work'.left = work.left
        BY <1>0, <2>1, <2>2 DEF Works
    <2>4. central' \in [Skills -> Whole \cup {"none", "torn"}]
        BY <2>2 DEF SwapInv, UpdateTypeOK, WorkTypeOK
    <2>5. UpdateTypeOK'
        BY <1>6, <2>1, <2>3, <2>4 DEF Clear, SwapInv, UpdateTypeOK, WorkTypeOK
    <2> QED BY <2>1, <2>2, <2>3, <2>5
            DEF SwapInv, StagedUntilPlaced, ContentSurvives, UpdateTypeOK, WorkTypeOK
<1>7. CASE Place
    <2>1. Busy /\ work.skill \in Skills /\ work.new \in Versions
        BY <1>7 DEF Place, At, SwapInv, UpdateTypeOK, WorkTypeOK
    <2>2. /\ work' \in Works /\ work'.step = "record" /\ work'.skill = work.skill
          /\ work'.left = work.left
        BY <1>0, <1>7, <2>1 DEF Place, Works
    <2>3. /\ central' = [central EXCEPT ![work.skill] = work.new]
          /\ staged' = [staged EXCEPT ![work.skill] = @ \ {work.new}]
        BY <1>7 DEF Place
    <2>4. WorkTypeOK'
        BY <1>7, <2>1, <2>2, <2>3 DEF Place, At, SwapInv, UpdateTypeOK, WorkTypeOK
    <2>5. /\ central' \in [Skills -> Whole \cup {"none", "torn"}]
          /\ staged' \in [Skills -> SUBSET Versions]
        BY <2>1, <2>3 DEF SwapInv, UpdateTypeOK
    <2>6. UpdateTypeOK'
        BY <1>7, <2>4, <2>5 DEF Place, SwapInv, UpdateTypeOK
    <2> QED BY <2>1, <2>2, <2>3, <2>6
            DEF SwapInv, StagedUntilPlaced, ContentSurvives, UpdateTypeOK, WorkTypeOK
<1>8. CASE SwapFails
    <2>1. /\ Busy /\ work.skill \in Skills /\ work.new \in staged[work.skill]
          /\ Failed(work.skill) /\ UNCHANGED staged
        BY <1>8 DEF SwapFails, At, SwapInv, UpdateTypeOK, WorkTypeOK, StagedUntilPlaced
    <2>2. central' = central \/ central' = [central EXCEPT ![work.skill] = "torn"]
        BY <1>8 DEF SwapFails
    <2>3. central' \in [Skills -> Whole \cup {"none", "torn"}] /\ ContentSurvives'
        BY <2>1, <2>2 DEF SwapInv, UpdateTypeOK, WorkTypeOK, ContentSurvives
    <2> QED BY <1>3, <2>1, <2>3 DEF SwapInv, UpdateTypeOK, WorkTypeOK
<1>9. CASE Record
    <2>1. Busy /\ work.skill \in Skills /\ UNCHANGED machine
        BY <1>9 DEF Record, At, SwapInv, UpdateTypeOK, WorkTypeOK
    <2>2. work' = [work EXCEPT !.step = "copy", !.left = Rewritten(work.skill)]
        BY <1>9 DEF Record
    <2>3. /\ work' \in Works /\ work'.step = "copy" /\ work'.skill = work.skill
          /\ work'.left = Rewritten(work.skill)
        BY <1>0, <2>1, <2>2 DEF Works
    <2>4. central[work.skill] \in Versions \cup {"inplace"}
        BY <1>9 DEF Record, At, SwapInv, UpdateTypeOK, WorkTypeOK
    <2>5. recorded' \in [Skills -> Versions \cup {"inplace", None}]
        BY <1>9, <2>4 DEF Record, SwapInv, UpdateTypeOK, WorkTypeOK
    <2>6. UpdateTypeOK'
        BY <1>9, <2>1, <2>3, <2>4, <2>5 DEF Record, SwapInv, UpdateTypeOK, WorkTypeOK
    <2> QED BY <2>1, <2>3, <2>6, FoldersAlone DEF SwapInv
<1>10. ASSUME NEW t \in Targets, StartCopy(t) PROVE SwapInv'
    <2>1. /\ Busy /\ work.skill \in Skills /\ t \in Rewritten(work.skill)
          /\ central[work.skill] \in Versions \cup {"inplace"}
        BY <1>10 DEF StartCopy, At, SwapInv, UpdateTypeOK, WorkTypeOK
    <2>2. work' = [work EXCEPT !.step = "write", !.left = @ \ {t}, !.target = t]
        BY <1>10 DEF StartCopy
    <2>3. /\ work' \in Works /\ work'.step = "write" /\ work'.skill = work.skill
          /\ work'.left = work.left \ {t} /\ work'.target = t
        BY <1>0, <2>1, <2>2 DEF Works
    <2>4. UpdateTypeOK'
        BY <1>10, <2>1, <2>3 DEF StartCopy, SwapInv, UpdateTypeOK, WorkTypeOK
    <2> QED BY <1>10, <2>3, <2>4, FoldersAlone DEF StartCopy, SwapInv
<1>11. CASE EndCopy
    <2>1. /\ Busy /\ work.skill \in Skills
          /\ central[work.skill] \in Versions \cup {"inplace"}
        BY <1>11 DEF EndCopy, At, SwapInv, UpdateTypeOK, WorkTypeOK
    <2>2. work' = [work EXCEPT !.step = "copy", !.target = None]
        BY <1>11 DEF EndCopy
    <2>3. /\ work' \in Works /\ work'.step = "copy" /\ work'.skill = work.skill
          /\ work'.left = work.left
        BY <1>0, <2>1, <2>2 DEF Works
    <2>4. UpdateTypeOK'
        BY <1>11, <2>1, <2>3 DEF EndCopy, SwapInv, UpdateTypeOK, WorkTypeOK
    <2> QED BY <1>11, <2>3, <2>4, FoldersAlone DEF EndCopy, SwapInv
<1>12. ASSUME NEW t \in Targets, CopyFails(t) PROVE SwapInv'
    <2>1. work.skill \in Skills /\ Busy /\ UNCHANGED <<machine, recorded>>
          /\ Ended(work.skill, "failed") /\ "failed" \in Reports
        BY <1>12 DEF CopyFails, At, SwapInv, UpdateTypeOK, WorkTypeOK, Reports
    <2>2. UpdateTypeOK'
        BY <2>1, EndedTypes DEF SwapInv, UpdateTypeOK, WorkTypeOK
    <2>3. Busy' => work'.step = "next"
        BY <2>1, EndedTypes
    <2> QED BY <2>1, <2>2, <2>3, FoldersAlone DEF SwapInv
<1>13. CASE EndSkill
    <2>1. work.skill \in Skills /\ Busy /\ UNCHANGED <<machine, recorded>>
          /\ Ended(work.skill, "ok") /\ "ok" \in Reports
        BY <1>13 DEF EndSkill, At, SwapInv, UpdateTypeOK, WorkTypeOK, Reports
    <2>2. UpdateTypeOK'
        BY <2>1, EndedTypes DEF SwapInv, UpdateTypeOK, WorkTypeOK
    <2>3. Busy' => work'.step = "next"
        BY <2>1, EndedTypes
    <2> QED BY <2>1, <2>2, <2>3, FoldersAlone DEF SwapInv
<1>14. ASSUME NEW s \in Skills, StartSkill(s) PROVE SwapInv'
    <2>1. Busy /\ work' = [work EXCEPT !.step = "check", !.skill = s]
        BY <1>14 DEF StartSkill, At
    <2>2. /\ work' \in Works /\ work'.step = "check" /\ work'.skill = s
          /\ work'.left = work.left
        BY <1>0, <2>1 DEF Works
    <2>3. work.left = {}
        BY <1>14 DEF StartSkill, At, SwapInv, UpdateTypeOK, WorkTypeOK
    <2>4. UpdateTypeOK'
        BY <1>14, <2>2, <2>3 DEF StartSkill, SwapInv, UpdateTypeOK, WorkTypeOK
    <2> QED BY <1>14, <2>2, <2>4, FoldersAlone DEF StartSkill, SwapInv
<1>15. ASSUME NEW b, StartRun(b), b \in BOOLEAN, UNCHANGED <<machine, recorded, report>>,
              call' \in Skills \cup {"all", None}
       PROVE  SwapInv'
    <2>1. work' = [all |-> TRUE, asked |-> b, step |-> "next", skill |-> None,
                   new |-> None, left |-> {}, target |-> None]
        BY <1>15 DEF StartRun, OneUpdate
    <2>2. work' \in Works /\ work'.step = "next" /\ work'.left = {}
        BY <1>15, <2>1 DEF Works
    <2> QED BY <1>15, <2>2 DEF SwapInv, UpdateTypeOK, WorkTypeOK, StagedUntilPlaced, ContentSurvives
<1>16. CASE EndRun
    <2>1. ~Busy'
        BY <1>16 DEF EndRun, Busy
    <2> QED BY <1>16, <2>1
            DEF EndRun, SwapInv, UpdateTypeOK, WorkTypeOK, StagedUntilPlaced, ContentSurvives
<1>17. CASE Maintenance
    BY <1>15, <1>17 DEF Maintenance, SwapInv, UpdateTypeOK, WorkTypeOK
<1>18. CASE Reject
    BY <1>18
       DEF Reject, SwapInv, UpdateTypeOK, WorkTypeOK, StagedUntilPlaced, ContentSurvives, Reports, Busy
<1>19. CASE Execute
    <2>1. CASE call = "all"
        BY <1>15, <1>19, <2>1 DEF Execute, SwapInv, UpdateTypeOK, WorkTypeOK
    <2>2. CASE call # "all"
        <3>1. call \in Skills /\ UNCHANGED <<machine, store, call, report>>
            BY <1>19, <2>2 DEF Execute, SwapInv, UpdateTypeOK, WorkTypeOK
        <3>2. work' = [all |-> FALSE, asked |-> TRUE, step |-> "check", skill |-> call,
                       new |-> None, left |-> {}, target |-> None]
            BY <1>19, <2>2 DEF Execute, OneUpdate
        <3>3. work' \in Works /\ work'.step = "check" /\ work'.left = {} /\ work'.skill = call
            BY <3>1, <3>2 DEF Works
        <3> QED BY <3>1, <3>3
                DEF SwapInv, UpdateTypeOK, WorkTypeOK, StagedUntilPlaced, ContentSurvives
    <2> QED BY <2>1, <2>2
<1>20. ASSUME NEW what \in Skills \cup {"all"}, Ask(what) PROVE SwapInv'
    BY <1>20 DEF Ask, SwapInv, UpdateTypeOK, WorkTypeOK, StagedUntilPlaced, ContentSurvives, Busy
<1>21. ASSUME NEW on \in BOOLEAN, SetEnabled(on) PROVE SwapInv'
    BY <1>21
       DEF SetEnabled, SwapInv, UpdateTypeOK, WorkTypeOK, StagedUntilPlaced, ContentSurvives, Busy
<1>22. CASE Crash
    <2>1. /\ Busy /\ ~Busy' /\ call' \in {call, None}
          /\ UNCHANGED <<staged, disk, recorded, report>>
        BY <1>22 DEF Crash, Busy
    <2>2. \/ UNCHANGED central
          \/ /\ central' = [central EXCEPT ![work.skill] = "torn"]
             /\ work.skill \in Skills /\ work.new \in staged[work.skill]
        BY <1>22 DEF Crash, At, SwapInv, UpdateTypeOK, WorkTypeOK, StagedUntilPlaced
    <2>3. UpdateTypeOK'
        BY <2>1, <2>2 DEF SwapInv, UpdateTypeOK, WorkTypeOK
    <2>4. ContentSurvives'
        BY <2>1, <2>2 DEF SwapInv, UpdateTypeOK, WorkTypeOK, ContentSurvives
    <2> QED BY <2>1, <2>3, <2>4 DEF SwapInv, StagedUntilPlaced
<1>23. CASE Elapse
    BY <1>23 DEF Elapse, SwapInv, UpdateTypeOK, WorkTypeOK, StagedUntilPlaced, ContentSurvives, Busy
<1>24. ASSUME Person, UNCHANGED central, disk' \in [Targets -> Whole \cup {"none", "torn", "link"}]
       PROVE  SwapInv'
    BY <1>24 DEF Person, SwapInv, UpdateTypeOK, WorkTypeOK, StagedUntilPlaced, ContentSurvives, Busy
<1>25. ASSUME NEW t \in Targets, EditTarget(t) \/ RemoveTarget(t) PROVE SwapInv'
    <2>1. disk' \in [Targets -> Whole \cup {"none", "torn", "link"}]
        BY <1>25 DEF EditTarget, RemoveTarget, SwapInv, UpdateTypeOK, WorkTypeOK
    <2> QED BY <1>24, <1>25, <2>1 DEF EditTarget, RemoveTarget
<1>26. ASSUME NEW s \in Skills, EditCentral(s) PROVE SwapInv'
    <2>1. central' = [central EXCEPT ![s] = "inplace"]
        BY <1>26 DEF EditCentral
    <2>2. UNCHANGED <<staged, disk, recorded, report, call, work>>
        BY <1>26 DEF EditCentral, Person
    <2> QED BY <2>1, <2>2
            DEF SwapInv, UpdateTypeOK, WorkTypeOK, StagedUntilPlaced, ContentSurvives, Busy
<1>27. ASSUME NEW p \in Projects, RemoveProject(p) PROVE SwapInv'
    <2>1. disk' \in [Targets -> Whole \cup {"none", "torn", "link"}]
        BY <1>27 DEF RemoveProject, SwapInv, UpdateTypeOK, WorkTypeOK
    <2> QED BY <1>24, <1>27, <2>1 DEF RemoveProject
<1>28. CASE UNCHANGED vars
    BY <1>28 DEF vars, SwapInv, UpdateTypeOK, WorkTypeOK, StagedUntilPlaced, ContentSurvives, Busy
<1>29. CASE Work
    BY <1>1, <1>2, <1>4, <1>5, <1>6, <1>7, <1>8, <1>9, <1>10, <1>11, <1>12, <1>13, <1>14, <1>16,
       <1>29 DEF Work
<1> QED BY <1>17, <1>18, <1>19, <1>20, <1>21, <1>22, <1>23, <1>25, <1>26, <1>27, <1>28, <1>29
        DEF Next

\* The state keeps its types, and (installer.rs:764) the machine holds a whole folder of every skill
\* at every moment, also in the middle of an update that failed or was killed.
THEOREM NoSkillIsLost == Spec => [](UpdateTypeOK /\ ContentSurvives)
<1>1. Init => SwapInv
    BY InitSwapInv
<1>2. SwapInv /\ [Next]_vars => SwapInv'
    BY SwapPreserved
<1>3. SwapInv => UpdateTypeOK /\ ContentSurvives
    BY DEF SwapInv
<1> QED BY <1>1, <1>2, <1>3, PTL DEF Spec

------------------------------------------------------------------------------
\* The steps of an update that found the targets as the last one left them.
Writing == Busy /\ work.step \in {"fetch", "clear", "place", "record", "copy", "write"}

\* The person's work that an update met is there, and not where it writes.
EditsInv ==
    /\ changes \in Nat
    /\ before \subseteq OwnWork
    /\ Writing => before \cap Rewritten(work.skill) = {}

LEMMA ChangesCount ==
    ASSUME [Next]_vars PROVE changes' \in {changes, changes + 1}
BY DEF Next, Work, Refuse, Accept, CentralMissing, FetchFails, Fetch, Clear, Place, SwapFails,
       Record, StartCopy, CopyFails, EndCopy, EndSkill, StartSkill, EndRun, Failed, Maintenance,
       Reject, Execute, Ask, SetEnabled, Crash, Elapse, EditTarget, RemoveTarget, EditCentral,
       RemoveProject, Person, vars, bounds

\* What an update does to disk and to the work it met.
LEMMA EditsStep ==
    ASSUME SwapInv, EditsInv, [Next]_vars
    PROVE  EditsInv' /\ (changes' = changes => \A t \in before : disk'[t] = "own")
<1> USE DEF machine, store, process, bounds, ghosts
<1>0. /\ disk \in [Targets -> Whole \cup {"none", "torn", "link"}]
      /\ before \subseteq OwnWork /\ OwnWork \subseteq Targets
      /\ Busy => work \in Works
      /\ changes \in Nat /\ changes' \in Nat
    BY ChangesCount DEF SwapInv, UpdateTypeOK, WorkTypeOK, EditsInv, OwnWork
<1> DEFINE Goal == EditsInv' /\ (changes' = changes => \A t \in before : disk'[t] = "own")
<1>1. ASSUME UNCHANGED disk, before' = {} PROVE Goal
    BY <1>0, <1>1 DEF EditsInv, OwnWork
<1>2. ASSUME UNCHANGED disk, before' \in {before, OwnWork}, ~Writing' PROVE Goal
    BY <1>0, <1>2 DEF EditsInv, OwnWork
<1>3. ASSUME UNCHANGED <<disk, before>>, Writing, work'.skill = work.skill PROVE Goal
    BY <1>0, <1>3 DEF EditsInv, OwnWork, Rewritten, TargetsOf
<1>4. ASSUME NEW t, Writing, t \in Rewritten(work.skill), UNCHANGED before,
             NEW c, disk' = [disk EXCEPT ![t] = c], work'.skill = work.skill
      PROVE  Goal
    <2>1. t \notin before
        BY <1>4 DEF EditsInv
    <2>2. \A u \in before : disk'[u] = "own"
        BY <1>0, <1>4, <2>1 DEF OwnWork
    <2> QED BY <1>0, <1>4, <2>2 DEF EditsInv, OwnWork, Rewritten, TargetsOf
<1>5. CASE Accept
    <2>1. work' = [work EXCEPT !.step = "fetch"] /\ Busy /\ OwnsTargets(work.skill)
          /\ UNCHANGED <<disk, before>>
        BY <1>5 DEF Accept, At
    <2>2. work'.skill = work.skill
        BY <1>0, <2>1 DEF Works
    <2>3. ASSUME NEW t \in before \cap Rewritten(work.skill) PROVE FALSE
        <3>1. t \in Targets /\ Of[t] = work.skill /\ t \in Copies /\ disk[t] = "own"
            BY <1>0, <2>3 DEF Rewritten, TargetsOf, OwnWork
        <3>2. recorded[Of[t]] = "own"
            BY <2>1, <3>1 DEF OwnsTargets, TargetsOf, Exists, Owned
        <3>3. Of[t] \in Skills /\ "own" \notin Versions \cup {"inplace", None}
            BY <3>1, UpdateAssumption
        <3> QED BY <3>2, <3>3 DEF SwapInv, UpdateTypeOK
    <2> QED BY <1>0, <2>1, <2>2, <2>3 DEF EditsInv, OwnWork, Rewritten, TargetsOf
<1>6. CASE Refuse \/ CentralMissing \/ FetchFails \/ SwapFails \/ EndSkill
    BY <1>1, <1>6 DEF Refuse, CentralMissing, FetchFails, SwapFails, EndSkill, Failed, Ended
<1>7. ASSUME NEW t \in Targets, CopyFails(t) PROVE Goal
    BY <1>1, <1>7 DEF CopyFails, Ended
<1>8. CASE Fetch \/ Clear \/ Place \/ Record
    <2>1. Writing /\ UNCHANGED <<disk, before>>
        BY <1>8 DEF Fetch, Clear, Place, Record, At, Writing
    <2>2. work'.skill = work.skill
        BY <1>0, <1>8 DEF Fetch, Clear, Place, Record, At, Works
    <2> QED BY <1>3, <2>1, <2>2
<1>9. ASSUME NEW t \in Targets, StartCopy(t) PROVE Goal
    <2>1. Writing /\ t \in Rewritten(work.skill) /\ UNCHANGED before
          /\ disk' = [disk EXCEPT ![t] = "torn"]
          /\ work' = [work EXCEPT !.step = "write", !.left = @ \ {t}, !.target = t]
        BY <1>9 DEF StartCopy, At, Writing, SwapInv, UpdateTypeOK, WorkTypeOK
    <2>2. work'.skill = work.skill
        BY <1>0, <2>1 DEF Writing, Works
    <2> QED BY <1>4, <2>1, <2>2
<1>10. CASE EndCopy
    <2>1. Writing /\ work.target \in Rewritten(work.skill) /\ UNCHANGED before
          /\ disk' = [disk EXCEPT ![work.target] = central[work.skill]]
          /\ work' = [work EXCEPT !.step = "copy", !.target = None]
        BY <1>10 DEF EndCopy, At, Writing, SwapInv, UpdateTypeOK, WorkTypeOK
    <2>2. work'.skill = work.skill
        BY <1>0, <2>1 DEF Writing, Works
    <2> QED BY <1>4, <2>1, <2>2
<1>11. ASSUME NEW s \in Skills, StartSkill(s) PROVE Goal
    <2>1. work' = [work EXCEPT !.step = "check", !.skill = s] /\ Busy
          /\ UNCHANGED disk /\ before' = OwnWork
        BY <1>11 DEF StartSkill, At
    <2>2. work'.step = "check"
        BY <1>0, <2>1 DEF Works
    <2> QED BY <1>2, <2>1, <2>2 DEF Writing
<1>12. CASE EndRun \/ Maintenance \/ Execute
    <2>1. UNCHANGED disk /\ before' \in {before, OwnWork}
        BY <1>12 DEF EndRun, Maintenance, Execute
    <2>2. ~Writing'
        <3>1. CASE EndRun
            BY <3>1 DEF EndRun, Writing, Busy
        <3>2. ASSUME NEW b, StartRun(b) PROVE work'.step = "next"
            BY <3>2 DEF StartRun, OneUpdate
        <3>3. CASE Maintenance
            BY <3>2, <3>3 DEF Maintenance, Writing
        <3>4. CASE Execute
            <4>1. work' = OneUpdate(call) => work'.step = "check"
                BY DEF OneUpdate
            <4>2. work' = OneUpdate(call) \/ StartRun(TRUE)
                BY <3>4 DEF Execute
            <4> QED BY <3>2, <4>1, <4>2 DEF Writing
        <3> QED BY <1>12, <3>1, <3>3, <3>4
    <2> QED BY <1>2, <2>1, <2>2
<1>13. CASE Crash
    BY <1>1, <1>13 DEF Crash
<1>14. ASSUME UNCHANGED <<disk, before, work>> PROVE Goal
    BY <1>0, <1>14 DEF EditsInv, Writing, Busy, OwnWork, Rewritten, TargetsOf
<1>15. CASE Reject \/ Elapse \/ UNCHANGED vars
    BY <1>14, <1>15 DEF Reject, Elapse, vars
<1>16. ASSUME NEW what, Ask(what) PROVE Goal
    BY <1>14, <1>16 DEF Ask
<1>17. ASSUME NEW on, SetEnabled(on) PROVE Goal
    BY <1>14, <1>17 DEF SetEnabled
<1>18. ASSUME NEW s, EditCentral(s) PROVE Goal
    BY <1>14, <1>18 DEF EditCentral, Person
<1>19. ASSUME Person, before' \subseteq before, \A t \in before' : disk'[t] = disk[t]
       PROVE  Goal
    <2>1. changes' # changes
        BY <1>0, <1>19 DEF Person
    <2>2. UNCHANGED work
        BY <1>19 DEF Person
    <2> QED BY <1>0, <1>19, <2>1, <2>2 DEF EditsInv, Writing, Busy, OwnWork, Rewritten, TargetsOf
<1>20. ASSUME NEW t \in Targets, EditTarget(t) \/ RemoveTarget(t) PROVE Goal
    BY <1>0, <1>19, <1>20 DEF EditTarget, RemoveTarget
<1>21. ASSUME NEW p \in Projects, RemoveProject(p) PROVE Goal
    <2>1. \A t \in before' : t \in Targets /\ t \in before /\ disk'[t] = disk[t]
        BY <1>0, <1>21 DEF RemoveProject
    <2> QED BY <1>19, <1>21, <2>1 DEF RemoveProject
<1>22. CASE Work
    BY <1>5, <1>6, <1>7, <1>8, <1>9, <1>10, <1>11, <1>12, <1>22 DEF Work
<1> QED BY <1>12, <1>13, <1>15, <1>16, <1>17, <1>18, <1>20, <1>21, <1>22 DEF Next

\* An update never takes what the person made of a target before it began, nor
\* does a run over all skills, however the updates before it ended (library.rs:168).
THEOREM PersonsWorkIsKept == Spec => EditsAreKept
<1>1. Init => SwapInv /\ EditsInv
    BY InitSwapInv DEF Init, EditsInv, Writing, Busy
<1>2. SwapInv /\ EditsInv /\ [Next]_vars => SwapInv' /\ EditsInv'
    BY SwapPreserved, EditsStep
<1>3. SwapInv /\ EditsInv /\ [Next]_vars =>
          [changes' = changes => \A t \in before : disk'[t] = "own"]_vars
    BY EditsStep
<1> QED BY <1>1, <1>2, <1>3, PTL DEF Spec, EditsAreKept

------------------------------------------------------------------------------
\* What success means for one skill, but for the targets in S.
Propagated(s, S) ==
    central[s] # "inplace" =>
        /\ hashing => recorded[s] \in {central[s], "inplace"}
        /\ \A t \in Rewritten(s) \ (touched \cup S) : disk[t] \in {central[s], "inplace"}

\* The copies that an update still has to write.
ToWrite == work.left \cup (IF work.step = "write" THEN {work.target} ELSE {})

\* What is reported as done is propagated; what is underway is not reported, and
\* is propagated but for the copies that are to be written.
PropagationInv ==
    /\ \A s \in Skills : report[s] = "ok" => Propagated(s, {})
    /\ Writing => report[work.skill] = "none"
    /\ Busy /\ work.step \in {"copy", "write"} => Propagated(work.skill, ToWrite)

\* Steps that write nothing and report no success.
LEMMA NothingPropagated ==
    ASSUME PropagationInv, UNCHANGED <<central, hashing, recorded, disk>>, touched \subseteq touched',
           \A s \in Skills : report'[s] = "ok" => report[s] = "ok",
           \/ UNCHANGED work /\ (Writing => report'[work.skill] = report[work.skill])
           \/ ~Writing'
    PROVE  PropagationInv'
<1>1. \A s : \A S : Propagated(s, S) => (Propagated(s, S))'
    BY DEF Propagated, Rewritten, TargetsOf
<1>2. CASE ~Writing'
    BY <1>1, <1>2 DEF PropagationInv, Writing
<1>3. CASE UNCHANGED work
    <2>1. UNCHANGED <<Busy, ToWrite>>
        BY <1>3 DEF Busy, ToWrite
    <2>2. Writing' = Writing
        BY <1>3 DEF Writing, Busy
    <2> QED BY <1>1, <1>2, <1>3, <2>1, <2>2 DEF PropagationInv, Writing
<1> QED BY <1>2, <1>3

\* An update writes to one skill, and to its copies only.
LEMMA OtherSkills ==
    ASSUME SwapInv, PropagationInv, Busy, NEW w \in Skills,
           UNCHANGED hashing, touched' \cup TargetsOf(w) = touched \cup TargetsOf(w),
           \A s \in Skills \ {w} : /\ central'[s] = central[s] /\ recorded'[s] = recorded[s]
                                   /\ report'[s] = report[s],
           \A t \in Targets \ Rewritten(w) : disk'[t] = disk[t]
    PROVE  \A s \in Skills \ {w} : report'[s] = "ok" => (Propagated(s, {}))'
<1>1. ASSUME NEW s \in Skills \ {w}, report'[s] = "ok" PROVE (Propagated(s, {}))'
    <2>1. Propagated(s, {})
        BY <1>1 DEF PropagationInv
    <2>2. \A t \in Rewritten(s) : t \in Targets \ Rewritten(w) /\ t \notin TargetsOf(w)
        BY <1>1 DEF Rewritten, TargetsOf
    <2>3. (Rewritten(s))' = Rewritten(s)
        BY DEF Rewritten, TargetsOf
    <2>4. \A t \in Rewritten(s) : disk'[t] = disk[t] /\ (t \in touched' <=> t \in touched)
        BY <2>2
    <2> QED BY <1>1, <2>1, <2>3, <2>4 DEF Propagated
<1> QED BY <1>1

\* An update that ended writes nothing.
LEMMA EndedIsNotWriting ==
    ASSUME SwapInv, Busy, work.skill \in Skills, NEW how, Ended(work.skill, how) PROVE ~Writing'
<1>1. CASE work.all
    <2>1. work \in Works /\ work' = [work EXCEPT !.step = "next", !.skill = None, !.left = {}]
        BY <1>1 DEF Ended, SwapInv, UpdateTypeOK, WorkTypeOK
    <2>2. work'.step = "next"
        BY <2>1 DEF Works
    <2> QED BY <2>2 DEF Writing
<1>2. CASE ~work.all
    BY <1>2 DEF Ended, Writing, Busy
<1> QED BY <1>1, <1>2

LEMMA PropagationPreserved ==
    ASSUME SwapInv, PropagationInv, [Next]_vars PROVE PropagationInv'
<1> USE DEF machine, store, process, bounds, ghosts
<1>0. /\ central \in [Skills -> Whole \cup {"none", "torn"}]
      /\ disk \in [Targets -> Whole \cup {"none", "torn", "link"}]
      /\ recorded \in [Skills -> Versions \cup {"inplace", None}]
      /\ report \in [Skills -> Reports]
      /\ Busy => work \in Works
    BY DEF SwapInv, UpdateTypeOK, WorkTypeOK
<1>1. ASSUME NEW how, how # "ok", Busy, work.skill \in Skills, Ended(work.skill, how),
             UNCHANGED <<hashing, recorded>>,
             \A s \in Skills \ {work.skill} : central'[s] = central[s],
             \A t \in Targets \ Rewritten(work.skill) : disk'[t] = disk[t]
      PROVE  PropagationInv'
    <2>1. report' = [report EXCEPT ![work.skill] = how] /\ UNCHANGED touched
        BY <1>1 DEF Ended
    <2>2. ~Writing'
        BY <1>1, EndedIsNotWriting
    <2>3. \A s \in Skills \ {work.skill} : report'[s] = "ok" => (Propagated(s, {}))'
        BY <1>0, <1>1, <2>1, OtherSkills
    <2>4. report'[work.skill] # "ok"
        BY <1>0, <1>1, <2>1
    <2> QED BY <2>2, <2>3, <2>4 DEF PropagationInv, Writing
<1>2. CASE Refuse \/ CentralMissing \/ FetchFails \/ SwapFails
    <2>1. Busy /\ work.skill \in Skills
        BY <1>2 DEF Refuse, CentralMissing, FetchFails, SwapFails, At, SwapInv, UpdateTypeOK, WorkTypeOK
    <2>2. /\ UNCHANGED <<hashing, recorded, disk>>
          /\ Ended(work.skill, "refused") \/ Ended(work.skill, "failed")
          /\ central' = central \/ central' = [central EXCEPT ![work.skill] = "torn"]
        BY <1>2 DEF Refuse, CentralMissing, FetchFails, SwapFails, Failed
    <2>3. \A s \in Skills \ {work.skill} : central'[s] = central[s]
        BY <1>0, <2>2
    <2> QED BY <1>1, <2>1, <2>2, <2>3
<1>3. ASSUME NEW t \in Targets, CopyFails(t) PROVE PropagationInv'
    <2>1. Busy /\ work.skill \in Skills
        BY <1>3 DEF CopyFails, At, SwapInv, UpdateTypeOK, WorkTypeOK
    <2> QED BY <1>1, <1>3, <2>1 DEF CopyFails
\* Steps of an update before it records what it fetched.
<1>4. ASSUME Busy, work.skill \in Skills, UNCHANGED <<hashing, recorded, disk>>,
             report' = [report EXCEPT ![work.skill] = "none"],
             touched' \cup TargetsOf(work.skill) = touched \cup TargetsOf(work.skill),
             \A s \in Skills \ {work.skill} : central'[s] = central[s],
             work'.skill = work.skill, work'.step \notin {"copy", "write"}
      PROVE  PropagationInv'
    <2>1. \A s \in Skills \ {work.skill} : report'[s] = "ok" => (Propagated(s, {}))'
        BY <1>0, <1>4, OtherSkills
    <2> QED BY <1>0, <1>4, <2>1 DEF PropagationInv
<1>5. CASE Accept
    <2>1. Busy /\ work.skill \in Skills /\ work' = [work EXCEPT !.step = "fetch"]
        BY <1>5 DEF Accept, At, SwapInv, UpdateTypeOK, WorkTypeOK
    <2>2. work'.skill = work.skill /\ work'.step = "fetch"
        BY <1>0, <2>1 DEF Works
    <2>3. touched' \cup TargetsOf(work.skill) = touched \cup TargetsOf(work.skill)
        BY <1>5 DEF Accept
    <2> QED BY <1>4, <1>5, <2>1, <2>2, <2>3 DEF Accept
<1>6. CASE Fetch \/ Clear \/ Place
    <2>1. Busy /\ work.skill \in Skills /\ Writing
        BY <1>6 DEF Fetch, Clear, Place, At, Writing, SwapInv, UpdateTypeOK, WorkTypeOK
    <2>2. work'.skill = work.skill /\ work'.step \notin {"copy", "write"}
        BY <1>0, <1>6, <2>1 DEF Fetch, Clear, Place, At, Works
    <2>3. report[work.skill] = "none" /\ UNCHANGED <<report, touched, hashing, recorded, disk>>
        BY <1>6, <2>1 DEF Fetch, Clear, Place, PropagationInv
    <2>4. report' = [report EXCEPT ![work.skill] = "none"]
        BY <1>0, <2>1, <2>3
    <2>5. \A s \in Skills \ {work.skill} : central'[s] = central[s]
        BY <1>0, <1>6 DEF Fetch, Clear, Place
    <2> QED BY <1>4, <2>1, <2>2, <2>3, <2>4, <2>5
<1>7. CASE Record
    <2>1. Busy /\ work.skill \in Skills /\ Writing /\ UNCHANGED <<report, touched, hashing, central, disk>>
        BY <1>7 DEF Record, At, Writing, SwapInv, UpdateTypeOK, WorkTypeOK
    <2>2. work' = [work EXCEPT !.step = "copy", !.left = Rewritten(work.skill)]
          /\ recorded' = [recorded EXCEPT ![work.skill] = IF hashing THEN central[work.skill] ELSE None]
        BY <1>7 DEF Record
    <2>3. work'.skill = work.skill /\ work'.step = "copy" /\ work'.left = Rewritten(work.skill)
        BY <1>0, <2>1, <2>2 DEF Works
    <2>4. \A s \in Skills \ {work.skill} : report'[s] = "ok" => (Propagated(s, {}))'
        BY <1>0, <2>1, <2>2, OtherSkills
    <2>5. (Propagated(work.skill, ToWrite))'
        BY <1>0, <2>1, <2>2, <2>3 DEF Propagated, ToWrite, Rewritten, TargetsOf
    <2> QED BY <2>1, <2>3, <2>4, <2>5 DEF PropagationInv
\* Steps that write the copies.
<1>8. ASSUME NEW t \in Targets, StartCopy(t) PROVE PropagationInv'
    <2>1. /\ Busy /\ work.step = "copy" /\ work.skill \in Skills /\ Writing
          /\ t \in Rewritten(work.skill) /\ t \in work.left
          /\ UNCHANGED <<report, touched, hashing, central, recorded>>
          /\ disk' = [disk EXCEPT ![t] = "torn"]
        BY <1>8 DEF StartCopy, At, Writing, SwapInv, UpdateTypeOK, WorkTypeOK
    <2>2. work' = [work EXCEPT !.step = "write", !.left = @ \ {t}, !.target = t]
        BY <1>8 DEF StartCopy
    <2>3. /\ work'.skill = work.skill /\ work'.step = "write" /\ work'.left = work.left \ {t}
          /\ work'.target = t
        BY <1>0, <2>1, <2>2 DEF Works
    <2>4. \A s \in Skills \ {work.skill} : report'[s] = "ok" => (Propagated(s, {}))'
        BY <1>0, <2>1, OtherSkills
    <2>5. ToWrite' = ToWrite /\ t \in ToWrite
        BY <2>1, <2>3 DEF ToWrite
    <2>6. (Propagated(work.skill, ToWrite))'
        <3>1. Propagated(work.skill, ToWrite)
            BY <2>1 DEF PropagationInv
        <3>2. \A u \in Targets \ ToWrite : disk'[u] = disk[u]
            BY <1>0, <2>1, <2>5
        <3> QED BY <2>1, <2>3, <2>5, <3>1, <3>2 DEF Propagated, Rewritten, TargetsOf
    <2> QED BY <2>1, <2>3, <2>4, <2>6 DEF PropagationInv
<1>9. CASE EndCopy
    <2>1. /\ Busy /\ work.step = "write" /\ work.skill \in Skills /\ Writing
          /\ work.target \in Rewritten(work.skill)
          /\ UNCHANGED <<report, touched, hashing, central, recorded>>
          /\ disk' = [disk EXCEPT ![work.target] = central[work.skill]]
        BY <1>9 DEF EndCopy, At, Writing, SwapInv, UpdateTypeOK, WorkTypeOK
    <2>2. work' = [work EXCEPT !.step = "copy", !.target = None]
        BY <1>9 DEF EndCopy
    <2>3. work'.skill = work.skill /\ work'.step = "copy" /\ work'.left = work.left
        BY <1>0, <2>1, <2>2 DEF Works
    <2>4. \A s \in Skills \ {work.skill} : report'[s] = "ok" => (Propagated(s, {}))'
        BY <1>0, <2>1, OtherSkills
    <2>5. (Propagated(work.skill, ToWrite))'
        <3>1. Propagated(work.skill, ToWrite)
            BY <2>1 DEF PropagationInv
        <3>2. ToWrite = work.left \cup {work.target} /\ ToWrite' = work.left
            BY <2>1, <2>3 DEF ToWrite
        <3>3. \A u \in Targets : disk'[u] = IF u = work.target THEN central[work.skill] ELSE disk[u]
            BY <1>0, <2>1
        <3> QED BY <2>1, <2>3, <3>1, <3>2, <3>3 DEF Propagated, Rewritten, TargetsOf
    <2> QED BY <2>1, <2>3, <2>4, <2>5 DEF PropagationInv
<1>10. CASE EndSkill
    <2>1. /\ Busy /\ work.step = "copy" /\ work.left = {} /\ work.skill \in Skills
          /\ Ended(work.skill, "ok")
          /\ UNCHANGED <<hashing, central, recorded, disk>>
        BY <1>10 DEF EndSkill, At, SwapInv, UpdateTypeOK, WorkTypeOK
    <2>2. report' = [report EXCEPT ![work.skill] = "ok"] /\ UNCHANGED touched
        BY <2>1 DEF Ended
    <2>3. \A s \in Skills \ {work.skill} : report'[s] = "ok" => (Propagated(s, {}))'
        BY <1>0, <2>1, <2>2, OtherSkills
    <2>4. ASSUME NEW s \in Skills, s = work.skill PROVE (Propagated(s, {}))'
        <3>1. Propagated(s, ToWrite) /\ ToWrite = {}
            BY <2>1, <2>4 DEF PropagationInv, ToWrite
        <3> QED BY <2>1, <2>2, <3>1 DEF Propagated, Rewritten, TargetsOf
    <2>5. ~Writing'
        BY <2>1, EndedIsNotWriting
    <2> QED BY <2>3, <2>4, <2>5 DEF PropagationInv, Writing
<1>11. ASSUME UNCHANGED <<central, hashing, recorded, disk, touched, report>>, ~Writing'
       PROVE  PropagationInv'
    BY <1>11, NothingPropagated
<1>12. ASSUME NEW s \in Skills, StartSkill(s) PROVE PropagationInv'
    <2>1. Busy /\ work' = [work EXCEPT !.step = "check", !.skill = s]
        BY <1>12 DEF StartSkill, At
    <2>2. work'.step = "check"
        BY <1>0, <2>1 DEF Works
    <2> QED BY <1>11, <1>12, <2>2 DEF StartSkill, Writing
<1>13. ASSUME NEW b, StartRun(b) PROVE ~Writing'
    BY <1>13 DEF StartRun, OneUpdate, Writing
<1>14. CASE EndRun \/ Maintenance
    BY <1>11, <1>13, <1>14 DEF EndRun, Maintenance, Writing, Busy
<1>15. CASE Execute
    <2>1. CASE StartRun(TRUE)
        BY <1>11, <1>13, <1>15, <2>1 DEF Execute
    <2>2. CASE work' = OneUpdate(call)
        <3>1. work'.step = "check"
            BY <2>2 DEF OneUpdate
        <3> QED BY <1>11, <1>15, <3>1 DEF Execute, Writing
    <2> QED BY <1>15, <2>1, <2>2 DEF Execute
<1>16. CASE Reject
    <2>1. ~Busy /\ UNCHANGED <<work, touched, central, hashing, recorded, disk>>
          /\ report' = [s \in Skills |-> IF s \in Asked /\ ~OwnsTargets(s) THEN "refused" ELSE report[s]]
        BY <1>16 DEF Reject
    <2>2. ~Writing' /\ \A s \in Skills : report'[s] = "ok" => report[s] = "ok"
        BY <2>1 DEF Writing, Busy
    <2> QED BY <2>1, <2>2, NothingPropagated
<1>17. ASSUME UNCHANGED <<work, touched, report, central, hashing, recorded, disk>>
       PROVE  PropagationInv'
    BY <1>17, NothingPropagated
<1>18. CASE Elapse \/ UNCHANGED vars
    BY <1>17, <1>18 DEF Elapse, vars
<1>19. ASSUME NEW what, Ask(what) PROVE PropagationInv'
    BY <1>17, <1>19 DEF Ask
<1>20. ASSUME NEW on, SetEnabled(on) PROVE PropagationInv'
    BY <1>17, <1>20 DEF SetEnabled
\* What happens to the folder of a skill, or to a target, when no step writes to them.
<1>21. ASSUME UNCHANGED <<hashing, recorded, report>>,
              UNCHANGED work \/ ~Writing',
              touched \subseteq touched',
              \A s \in Skills : central'[s] \in {central[s], "inplace"}
                                \/ (Writing /\ s = work.skill /\ work.step = "place" /\ ~Busy'),
              \A t \in Targets \ touched' : disk'[t] = disk[t]
       PROVE  PropagationInv'
    <2>1. \A t, s : (Rewritten(s))' = Rewritten(s) /\ (t \in Rewritten(s) => t \in Targets)
        BY DEF Rewritten, TargetsOf
    <2>2. ASSUME NEW s \in Skills, NEW S, Propagated(s, S), central'[s] \in {central[s], "inplace"}
          PROVE  (Propagated(s, S))'
        BY <1>21, <2>1, <2>2 DEF Propagated
    <2>3. ASSUME NEW s \in Skills, report'[s] = "ok" PROVE (Propagated(s, {}))'
        BY <1>21, <2>2, <2>3 DEF PropagationInv
    <2>4. CASE ~Writing'
        BY <2>3, <2>4 DEF PropagationInv, Writing
    <2>5. CASE UNCHANGED work
        <3>1. UNCHANGED <<Busy, ToWrite>> /\ (Writing' <=> Writing)
            BY <2>5 DEF Busy, ToWrite, Writing
        <3>2. ASSUME Busy, work.step \in {"copy", "write"} PROVE (Propagated(work.skill, ToWrite))'
            <4>1. work.skill \in Skills /\ Propagated(work.skill, ToWrite)
                BY <3>2 DEF PropagationInv, SwapInv, UpdateTypeOK, WorkTypeOK
            <4>2. central'[work.skill] \in {central[work.skill], "inplace"}
                BY <1>21, <3>1, <3>2, <4>1
            <4> QED BY <1>21, <2>1, <2>5, <3>1, <4>1, <4>2 DEF Propagated
        <3> QED BY <1>21, <2>3, <2>5, <3>1, <3>2 DEF PropagationInv
    <2> QED BY <1>21, <2>4, <2>5
<1>22. CASE Crash
    <2>1. /\ Busy /\ work' = None /\ ~Busy'
          /\ UNCHANGED <<hashing, recorded, report, touched, disk>>
        BY <1>22 DEF Crash, Busy
    <2>2. \/ work.step = "place" /\ central' = [central EXCEPT ![work.skill] = "torn"]
          \/ central' = central
        BY <1>22 DEF Crash, At
    <2>3. \A s \in Skills : central'[s] = central[s]
                            \/ (Writing /\ s = work.skill /\ work.step = "place" /\ ~Busy')
        BY <1>0, <2>1, <2>2 DEF Writing
    <2> QED BY <1>21, <2>1, <2>3 DEF Writing
<1>23. ASSUME NEW t \in Targets, EditTarget(t) \/ RemoveTarget(t) PROVE PropagationInv'
    <2>1. /\ UNCHANGED <<hashing, recorded, report, work, central>>
          /\ touched' = touched \cup {t}
        BY <1>23 DEF EditTarget, RemoveTarget, Person
    <2>2. \A u \in Targets \ touched' : disk'[u] = disk[u]
        BY <1>0, <1>23, <2>1 DEF EditTarget, RemoveTarget
    <2> QED BY <1>21, <2>1, <2>2
<1>24. ASSUME NEW p \in Projects, RemoveProject(p) PROVE PropagationInv'
    <2>1. /\ UNCHANGED <<hashing, recorded, report, work, central>>
          /\ touched' = touched \cup {t \in Targets : In[t] = p}
          /\ disk' = [t \in Targets |-> IF In[t] = p THEN "none" ELSE disk[t]]
        BY <1>24 DEF RemoveProject, Person
    <2>2. \A u \in Targets \ touched' : disk'[u] = disk[u]
        BY <2>1
    <2> QED BY <1>21, <2>1, <2>2
<1>25. ASSUME NEW s \in Skills, EditCentral(s) PROVE PropagationInv'
    <2>1. /\ UNCHANGED <<hashing, recorded, report, work, disk, touched>>
          /\ central' = [central EXCEPT ![s] = "inplace"]
        BY <1>25 DEF EditCentral, Person
    <2>2. \A u \in Skills : central'[u] \in {central[u], "inplace"}
        BY <1>0, <2>1
    <2> QED BY <1>21, <2>1, <2>2
<1>26. CASE Work
    BY <1>2, <1>3, <1>5, <1>6, <1>7, <1>8, <1>9, <1>10, <1>12, <1>14, <1>26 DEF Work
<1> QED BY <1>14, <1>15, <1>16, <1>18, <1>19, <1>20, <1>22, <1>23, <1>24, <1>25, <1>26 DEF Next

(* Success is reported only of a skill whose copies hold what the central    *)
(* folder holds, but for what the person changed since (installer.rs:893).   *)
THEOREM SuccessIsPropagated == Spec => []SuccessMeansPropagated
<1>1. Init => PropagationInv
    BY DEF Init, PropagationInv, Writing, Busy
<1>2. SwapInv /\ PropagationInv /\ [Next]_vars => (SwapInv /\ PropagationInv)'
    BY SwapPreserved, PropagationPreserved
<1>3. PropagationInv => SuccessMeansPropagated
    BY DEF PropagationInv, SuccessMeansPropagated, Propagated
<1> QED BY <1>1, <1>2, <1>3, InitSwapInv, PTL DEF Spec
==============================================================================
