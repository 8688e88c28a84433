----------------------------- MODULE SkillUpdate -----------------------------
(* How the runner brings managed skills up to date with their sources        *)
(* (installer.rs, auto_update.rs, library.rs): one skill on request, all of  *)
(* them on request or when the schedule says so.                             *)
(*                                                                           *)
(* A skill has a folder in the central repository, and targets: links to it  *)
(* and copies of it in the directories of tools.  A copy is known to be      *)
(* unchanged by the hash that the last update recorded, if the build records *)
(* hashes at all.  An update fetches into a staging directory beside the     *)
(* central folder, removes that folder, moves the new one in, records it and *)
(* writes the copies again, one by one.  The person edits targets, central   *)
(* folders and sources meanwhile, operations on files fail, and the process  *)
(* is killed between any two of these steps.                                 *)
(*                                                                           *)
(* Git and local sources are one.  Left out: targets that are skipped, as    *)
(* they are disabled or their tool is not installed, Cursor targets recorded *)
(* as links, sources found again by name, and the library's other commands.  *)
EXTENDS Naturals, FiniteSets

CONSTANTS
    Skills,       \* the managed skills that have a source
    Targets,      \* rows of skill_targets
    Of,           \* Of[t]: the skill that t is a target of
    Copies,       \* the targets with mode "copy"; the others are links
    Projects,     \* directories of projects
    In,           \* In[t]: the project that t is in, or None
    Versions,     \* versions of a source
    First,        \* the one that was installed
    MaxChanges,   \* bound on what the person does to directories
    MaxFaults,    \* bound on failed operations and kills
    MaxRequests,  \* bound on updates asked for in the browser
    None

ASSUME UpdateAssumption ==
    /\ Of \in [Targets -> Skills]
    /\ Copies \subseteq Targets
    /\ In \in [Targets -> Projects \cup {None}]
    /\ First \in Versions
    /\ Versions \cap {"none", "torn", "link", "own", "inplace"} = {}
    /\ {MaxChanges, MaxFaults, MaxRequests} \subseteq Nat
    /\ None \notin Projects \cup Skills \cup Targets \cup Versions \cup {"own"}

VARIABLES
    \* the machine
    central,   \* central[s]: what the central folder holds
    staged,    \* staged[s]: whole folders in the staging directories of s
    disk,      \* disk[t]: what is at the target path
    there,     \* the projects whose directory exists
    \* the store
    hashing,   \* should_compute_content_hash
    recorded,  \* recorded[s]: content_hash
    status,    \* status[s]: the status of the skill's row
    row,       \* row[t]: the status of the target's row
    auto,      \* the auto_update_* settings; failed: some skill did so far
    elapsed,   \* the interval has passed since last_run_at
    \* the process, and the request that the browser waits for
    work,      \* the update it is busy with, or None
    call,
    \* bounds, and what the properties need
    changes, faults, requests,
    touched,   \* targets the person changed since the last update began
    before,    \* targets that hold the person's work as they did when it began
    report     \* report[s]: how the last update of s ended

machine == <<central, staged, disk, there>>
store == <<hashing, recorded, status, row, auto, elapsed>>
process == <<work, call>>
bounds == <<changes, faults, requests>>
ghosts == <<touched, before, report>>
vars == <<machine, store, process, bounds, ghosts>>

\* "own" is what the person made of a target, "inplace" of a central folder.
Whole == Versions \cup {"own", "inplace"}

TargetsOf(s) == {t \in Targets : Of[t] = s}
NoRun == [status |-> "none", enabled |-> FALSE, pending |-> {}, running |-> None,
          failed |-> FALSE]

\* The skills were installed, and put into their targets.
Init ==
    /\ central = [s \in Skills |-> First]
    /\ staged = [s \in Skills |-> {}]
    /\ row = [t \in Targets |-> "ok"]
    /\ disk = [t \in Targets |-> IF t \in Copies THEN First ELSE "link"]
    /\ there = Projects
    /\ hashing \in BOOLEAN
    /\ recorded = [s \in Skills |-> IF hashing THEN First ELSE None]
    /\ status = [s \in Skills |-> "ok"]
    /\ auto \in {NoRun, [NoRun EXCEPT !.enabled = TRUE]}
    /\ elapsed = TRUE
    /\ work = None /\ call = None
    /\ changes = 0 /\ faults = 0 /\ requests = 0
    /\ touched = {} /\ before = {}
    /\ report = [s \in Skills |-> "none"]

------------------------------------------------------------------------------
(* check_owned_targets.                                                      *)

\* A link leads to the central folder, if that is there.
Exists(t) == IF disk[t] = "link" THEN central[Of[t]] # "none" ELSE disk[t] # "none"

Owned(t) == IF t \in Copies THEN hashing /\ recorded[Of[t]] = disk[t] ELSE disk[t] = "link"

\* Mutant: only where the row says that the target is fine.
OwnsGoodTargets(s) == \A t \in TargetsOf(s) : Exists(t) /\ row[t] = "ok" => Owned(t)

OwnsTargets(s) == \A t \in TargetsOf(s) : Exists(t) => Owned(t)

\* The locks of the projects are files named after their canonical paths, so a
\* project that is gone cannot be locked.
Locks(S) == {In[t] : t \in {u \in Targets : Of[u] \in S}} \ {None} \subseteq there

------------------------------------------------------------------------------
(* One update.                                                               *)

Busy == work # None
At(step) == Busy /\ work.step = step

Ended(s, how) ==
    /\ report' = [report EXCEPT ![s] = how]
    /\ IF work.all
       THEN /\ work' = [work EXCEPT !.step = "next", !.skill = None, !.left = {}]
            /\ auto' = [auto EXCEPT !.running = None, !.failed = @ \/ how # "ok"]
            /\ UNCHANGED call
       ELSE /\ work' = None
            /\ call' = None
            /\ UNCHANGED auto
    /\ before' = {}
    /\ UNCHANGED touched

\* update_managed_skill_from_source begins by looking at the targets.
Refuse ==
    /\ At("check") /\ ~OwnsTargets(work.skill)
    /\ Ended(work.skill, "refused")
    /\ UNCHANGED <<machine, hashing, recorded, status, row, elapsed, bounds>>

Accept ==
    /\ At("check") /\ OwnsTargets(work.skill)
    /\ work' = [work EXCEPT !.step = "fetch"]
    /\ report' = [report EXCEPT ![work.skill] = "none"]
    /\ touched' = touched \ TargetsOf(work.skill)
    /\ UNCHANGED <<machine, store, call, bounds, before>>

\* An error before the row is written marks the skill (installer.rs:733).
Failed(s) ==
    /\ status' = [status EXCEPT ![s] = "error"]
    /\ Ended(s, "failed")
    /\ UNCHANGED <<disk, there, hashing, recorded, row, elapsed,
                   changes, requests>>

\* Without a central folder an update ends here, for good.
CentralMissing ==
    /\ At("fetch") /\ central[work.skill] = "none"
    /\ Failed(work.skill)
    /\ UNCHANGED <<central, staged, faults>>

FetchFails ==
    /\ At("fetch") /\ central[work.skill] # "none" /\ faults < MaxFaults
    /\ Failed(work.skill)
    /\ faults' = faults + 1
    /\ UNCHANGED <<central, staged>>

\* The source offers what it does at that moment.
Fetch ==
    /\ At("fetch") /\ central[work.skill] # "none"
    /\ \E v \in Versions :
          /\ staged' = [staged EXCEPT ![work.skill] = @ \cup {v}]
          /\ work' = [work EXCEPT !.step = "clear", !.new = v]
    /\ UNCHANGED <<central, disk, there, store, call, bounds, ghosts>>

\* remove_dir_all takes one file after the other.
Clear ==
    /\ At("clear")
    /\ \/ /\ central[work.skill] # "torn"
          /\ central' = [central EXCEPT ![work.skill] = "torn"]
          /\ UNCHANGED work
       \/ /\ central[work.skill] = "torn"
          /\ central' = [central EXCEPT ![work.skill] = "none"]
          /\ work' = [work EXCEPT !.step = "place"]
    /\ UNCHANGED <<staged, disk, there, store, call, bounds, ghosts>>

\* The folder is renamed, or copied file by file where it cannot be.
Place ==
    /\ At("place")
    /\ central' = [central EXCEPT ![work.skill] = work.new]
    /\ staged' = [staged EXCEPT ![work.skill] = @ \ {work.new}]
    /\ work' = [work EXCEPT !.step = "record"]
    /\ UNCHANGED <<disk, there, store, call, bounds, ghosts>>

\* Mutant: the staging directory is cleaned up after a failure.
SwapFailsClean ==
    /\ faults < MaxFaults
    /\ \/ At("clear") /\ UNCHANGED central
       \/ At("place") /\ central' = [central EXCEPT ![work.skill] = "torn"]
    /\ Failed(work.skill)
    /\ faults' = faults + 1
    /\ staged' = [staged EXCEPT ![work.skill] = {}]

\* What could not be removed, or be copied, stays as it is.
SwapFails ==
    /\ faults < MaxFaults
    /\ \/ At("clear") /\ UNCHANGED central
       \/ At("place") /\ central' = [central EXCEPT ![work.skill] = "torn"]
    /\ Failed(work.skill)
    /\ faults' = faults + 1
    /\ UNCHANGED staged

Rewritten(s) == TargetsOf(s) \cap Copies

Record ==
    /\ At("record")
    /\ recorded' = [recorded EXCEPT ![work.skill] =
                      IF hashing THEN central[work.skill] ELSE None]
    /\ status' = [status EXCEPT ![work.skill] = "ok"]
    /\ work' = [work EXCEPT !.step = "copy", !.left = Rewritten(work.skill)]
    /\ UNCHANGED <<machine, hashing, row, auto, elapsed, call, bounds, ghosts>>

------------------------------------------------------------------------------
(* The copies.                                                               *)

\* sync_dir_copy_with_overwrite removes what is there and writes anew.
StartCopy(t) ==
    /\ At("copy") /\ t \in work.left
    /\ disk' = [disk EXCEPT ![t] = "torn"]
    /\ work' = [work EXCEPT !.step = "write", !.left = @ \ {t}, !.target = t]
    /\ UNCHANGED <<central, staged, there, store, call, bounds, ghosts>>

\* The directories above it are made where they are gone.
EndCopy ==
    /\ At("write")
    /\ disk' = [disk EXCEPT ![work.target] = central[work.skill]]
    /\ there' = there \cup ({In[work.target]} \ {None})
    /\ row' = [row EXCEPT ![work.target] = "ok"]
    /\ work' = [work EXCEPT !.step = "copy", !.target = None]
    /\ UNCHANGED <<central, staged, hashing, recorded, status, auto, elapsed,
                   call, bounds, ghosts>>

\* Mutant: the failure is noted in the row, and the update goes on.
CopyFailsQuietly(t) ==
    /\ faults < MaxFaults
    /\ \/ At("copy") /\ t \in work.left
       \/ At("write") /\ t = work.target
    /\ row' = [row EXCEPT ![t] = "error"]
    /\ work' = [work EXCEPT !.step = "copy", !.left = @ \ {t}, !.target = None]
    /\ faults' = faults + 1
    /\ UNCHANGED <<machine, hashing, recorded, status, auto, elapsed, call,
                   changes, requests, ghosts>>

\* The first copy that fails, to be removed or to be written, ends the update:
\* the others are not tried, and their rows keep saying "ok".
CopyFails(t) ==
    /\ faults < MaxFaults
    /\ \/ At("copy") /\ t \in work.left
       \/ At("write") /\ t = work.target
    /\ row' = [row EXCEPT ![t] = "error"]
    /\ Ended(work.skill, "failed")
    /\ faults' = faults + 1
    /\ UNCHANGED <<machine, hashing, recorded, status, elapsed, changes, requests>>

EndSkill ==
    /\ At("copy") /\ work.left = {}
    /\ Ended(work.skill, "ok")
    /\ UNCHANGED <<machine, hashing, recorded, status, row, elapsed, bounds>>

------------------------------------------------------------------------------
(* A run over all skills.                                                    *)

OneUpdate(s) == [all |-> FALSE, asked |-> TRUE, step |-> "check", skill |-> s,
                 new |-> None, left |-> {}, target |-> None]

OwnWork == {t \in Targets : disk[t] = "own"}

\* record_auto_update_started: it sets last_run_at, so the interval begins anew.
StartRun(asked) ==
    /\ work' = [OneUpdate(None) EXCEPT !.all = TRUE, !.asked = asked, !.step = "next"]
    /\ auto' = [NoRun EXCEPT !.status = "running", !.enabled = auto.enabled,
                             !.pending = Skills]
    /\ elapsed' = FALSE

StartSkill(s) ==
    /\ At("next") /\ s \in auto.pending
    /\ auto' = [auto EXCEPT !.running = s, !.pending = @ \ {s}]
    /\ work' = [work EXCEPT !.step = "check", !.skill = s]
    /\ before' = OwnWork
    /\ UNCHANGED <<machine, hashing, recorded, status, row, elapsed, call, bounds,
                   touched, report>>

\* record_auto_update_result.
EndRun ==
    /\ At("next") /\ auto.pending = {}
    /\ auto' = [auto EXCEPT !.status = IF auto.failed THEN "error" ELSE "ok",
                            !.failed = FALSE]
    /\ elapsed' = FALSE
    /\ work' = None
    /\ call' = IF work.asked THEN None ELSE call
    /\ UNCHANGED <<machine, hashing, recorded, status, row, bounds, ghosts>>

\* Mutant: a run that is marked as running is not disturbed.
MaintenanceUnlessRunning ==
    /\ ~Busy /\ auto.enabled /\ elapsed /\ Locks(Skills) /\ auto.status # "running"
    /\ StartRun(FALSE)
    /\ UNCHANGED <<machine, hashing, recorded, status, row, call, bounds, ghosts>>

\* Before every claim.  Where a project cannot be locked it fails, and only the
\* log says so.
Maintenance ==
    /\ ~Busy /\ auto.enabled /\ elapsed /\ Locks(Skills)
    /\ StartRun(FALSE)
    /\ UNCHANGED <<machine, hashing, recorded, status, row, call, bounds, ghosts>>

------------------------------------------------------------------------------
(* Requests of the browser.  The first of the two jobs of each, which answers *)
(* with a fingerprint of the library, changes nothing (SkillsHub has both).  *)

\* TriggerAutoUpdateTaskNowCmd ("all") names no skill, and then the targets of
\* every skill are looked at; UpdateManagedSkill names one.
Asked == IF call = "all" THEN Skills ELSE {call}
Admitted == (\A s \in Asked : OwnsTargets(s)) /\ Locks(Asked)

Ask(what) ==
    /\ call = None /\ requests < MaxRequests
    /\ call' = what
    /\ requests' = requests + 1
    /\ UNCHANGED <<machine, store, work, changes, faults, ghosts>>

Reject ==
    /\ ~Busy /\ call # None /\ ~Admitted
    /\ call' = None
    /\ report' = [s \in Skills |->
                    IF s \in Asked /\ ~OwnsTargets(s) THEN "refused" ELSE report[s]]
    /\ UNCHANGED <<machine, store, work, bounds, touched, before>>

Execute ==
    /\ ~Busy /\ call # None /\ Admitted
    /\ IF call = "all"
       THEN StartRun(TRUE) /\ UNCHANGED before
       ELSE /\ work' = OneUpdate(call)
            /\ before' = OwnWork
            /\ UNCHANGED <<auto, elapsed>>
    /\ UNCHANGED <<machine, hashing, recorded, status, row, call, bounds, touched, report>>

SetEnabled(on) ==
    /\ ~Busy /\ requests < MaxRequests /\ auto.enabled # on
    /\ auto' = [auto EXCEPT !.enabled = on]
    /\ requests' = requests + 1
    /\ UNCHANGED <<machine, hashing, recorded, status, row, elapsed, process,
                   changes, faults, ghosts>>

------------------------------------------------------------------------------
(* The surroundings.                                                         *)

\* The process is killed.  A folder that it was writing stays half written.  A job of
\* the library that it had begun is executed again when it is delivered again
\* (JobDelivery), which cannot be told from a later request.
Crash ==
    /\ Busy /\ faults < MaxFaults
    /\ faults' = faults + 1
    /\ \/ At("place") /\ central' = [central EXCEPT ![work.skill] = "torn"]
       \/ UNCHANGED central
    /\ work' = None
    /\ call' = IF work.asked THEN None ELSE call
    /\ before' = {}
    /\ UNCHANGED <<staged, disk, there, store, changes, requests, touched, report>>

Person ==
    /\ changes < MaxChanges
    /\ changes' = changes + 1
    /\ UNCHANGED <<staged, store, process, faults, requests, report>>

EditTarget(t) ==
    /\ Person
    /\ disk[t] # "none" /\ disk[t] # "own"
    /\ disk' = [disk EXCEPT ![t] = "own"]
    /\ touched' = touched \cup {t} /\ before' = before \ {t}
    /\ UNCHANGED <<central, there>>

RemoveTarget(t) ==
    /\ Person
    /\ disk[t] # "none"
    /\ disk' = [disk EXCEPT ![t] = "none"]
    /\ touched' = touched \cup {t} /\ before' = before \ {t}
    /\ UNCHANGED <<central, there>>

\* In the central repository, or through a link to it.
EditCentral(s) ==
    /\ Person
    /\ central[s] \in Versions
    /\ central' = [central EXCEPT ![s] = "inplace"]
    /\ UNCHANGED <<disk, there, touched, before>>

RemoveProject(p) ==
    /\ Person
    /\ p \in there
    /\ there' = there \ {p}
    /\ disk' = [t \in Targets |-> IF In[t] = p THEN "none" ELSE disk[t]]
    /\ touched' = touched \cup {t \in Targets : In[t] = p}
    /\ before' = before \ {t \in Targets : In[t] = p}
    /\ UNCHANGED <<central>>

\* Nobody asks for it while there is work.
Elapse ==
    /\ ~Busy /\ ~elapsed
    /\ elapsed' = TRUE
    /\ UNCHANGED <<machine, hashing, recorded, status, row, auto, process, bounds, ghosts>>

------------------------------------------------------------------------------
Work ==
    \/ Refuse \/ Accept
    \/ CentralMissing \/ FetchFails \/ Fetch
    \/ Clear \/ Place \/ SwapFails \/ Record
    \/ \E t \in Targets : StartCopy(t) \/ CopyFails(t)
    \/ EndCopy \/ EndSkill
    \/ \E s \in Skills : StartSkill(s)
    \/ EndRun

Next ==
    \/ Work \/ Maintenance
    \/ Reject \/ Execute
    \/ \E what \in Skills \cup {"all"} : Ask(what)
    \/ \E on \in BOOLEAN : SetEnabled(on)
    \/ Crash \/ Elapse
    \/ \E t \in Targets : EditTarget(t) \/ RemoveTarget(t)
    \/ \E s \in Skills : EditCentral(s)
    \/ \E p \in Projects : RemoveProject(p)

Spec == Init /\ [][Next]_vars

\* The process goes on with what it began, and looks at the schedule before it
\* claims a job; time passes.
FairSpec == Spec /\ WF_vars(Work) /\ WF_vars(Maintenance) /\ WF_vars(Elapse)

------------------------------------------------------------------------------
(* What an update must not do.                                               *)

\* What a person made of a target before an update began is there after it, if
\* the person leaves it there, whatever failed or was killed in earlier updates
\* (library.rs:168).
EditsAreKept ==
    [][changes' = changes => \A t \in before : disk'[t] = "own"]_vars

\* At every moment, also after a kill or a failure in the middle, the machine
\* holds a whole folder of every skill, in the central repository or beside it
\* (installer.rs:764).
ContentSurvives == \A s \in Skills : central[s] \in Whole \/ staged[s] # {}

\* Once an update is reported as done, every copy that is in use holds what the
\* central folder holds and the next update can tell it by its hash, but for
\* what the person changed meanwhile (installer.rs:893).
SuccessMeansPropagated ==
    \A s \in Skills : report[s] = "ok" /\ central[s] # "inplace" =>
        /\ hashing => recorded[s] \in {central[s], "inplace"}
        /\ \A t \in Rewritten(s) \ touched : disk[t] \in {central[s], "inplace"}

\* A schedule that is due starts a run, whatever became of the run before and
\* of single skills, so long as the directories of all projects are there
\* (library.rs:196).
Due == auto.enabled /\ elapsed /\ Locks(Skills)
DueUpdatesRun == Due ~> (work # None /\ work.all) \/ ~auto.enabled \/ ~Locks(Skills)

\* "A managed target has local changes" is said of a skill only if somebody
\* changed a target of it (library.rs:163).
RefusalsAreHonest ==
    [][\A s \in Skills : report[s] # "refused" /\ report'[s] = "refused"
         => \E t \in TargetsOf(s) : disk[t] = "own"]_vars
=============================================================================
