------------------------------ MODULE SkillsHub ------------------------------
(* The Skills page (SkillsHub.tsx, LibraryProvider.tsx), open in several     *)
(* tabs, over the skill library of one runner (library.rs,                   *)
(* library_commands.rs) and the directories that tools read skills from.     *)
(*                                                                           *)
(* A handler of the page is a list of commands computed from what the tab    *)
(* shows.  Each command is two jobs: the first answers with a fingerprint of *)
(* the library, the second names that fingerprint and acts.  In between, the *)
(* other tabs act, the person works in the directories, tools come and go,   *)
(* and calls are lost.  A job runs whole under the runner's lock, or is cut  *)
(* by a crash, after which it is not repeated.                               *)
(*                                                                           *)
(* Targets are links (a copy is one that can be told from its source by its  *)
(* content).  A list is worked off in any order that keeps the steps of each *)
(* item in theirs.  Tags, updates, the settings, what fails before a command *)
(* is sent, and the deletion cut after the central folder are left out.      *)
EXTENDS Naturals, FiniteSets

CONSTANTS
    Tabs,
    Skills,      \* names a skill can have in the central repository
    Contents,    \* contents of a skill directory
    Offered,     \* the contents that folders and repositories offer
    Tools,
    Projects,    \* directories of projects that skills are put in
    Home,        \* the scope that is no project
    HomeDir,     \* HomeDir[t]: skills_dir of t
    ProjectDir,  \* ProjectDir[t]: project_skills_dir of t
    Scoped,      \* the tools with supports_project_scope
    MaxClicks,   \* bound on actions started in the tabs
    MaxEvents,   \* bound on crashes, failed removals, lost calls and changes that
                 \* the person makes to directories and tools
    None

ASSUME HubAssumption ==
    /\ Home \notin Projects
    /\ Scoped \subseteq Tools
    /\ Offered \subseteq Contents
    /\ None \notin Contents \cup Tools \cup Projects \cup {Home, "deleted"}
    /\ Contents \cap {"empty", "ours", "deleted"} = {}
    /\ {MaxClicks, MaxEvents} \subseteq Nat

VARIABLES
    \* the runner and its machine
    central,    \* central[s]: the content of the managed skill s, None or "deleted"
    enabled,    \* the skills whose enabled flag is set
    target,     \* target[s, t, r]: status of the skill_targets row, or "none"
    disk,       \* disk[p]: what is at the path p: nothing, our link, or content
    installed,  \* the tools that are detected
    \* the tabs
    shown,      \* shown[w]: managedSkills
    detected,   \* detected[w]: toolStatus.installed
    scope,      \* scope[w][s]: skillScopeState
    plan,       \* plan[w]: the scan that an import starts from, or None
    todo,       \* todo[w]: commands the handler has yet to send
    call,       \* call[w]: the command it waits for, or NoCall
    handler,    \* handler[w]: what runs (loading), and whether a part failed
    lost,       \* commits that no tab waits for
    \* bounds, and what the properties need
    clicks, events,
    asked,      \* asked[w]: every command of the handler
    quiet       \* the tabs whose handler is alone with the library so far

library == <<central, enabled, target, disk>>
machine == <<library, installed>>
page == <<shown, detected, scope, plan>>
work == <<todo, call, handler, lost, asked>>
vars == <<machine, page, work, clicks, events, quiet>>

Roots == Projects \cup {Home}
Dir(t, r) == IF r = Home THEN HomeDir[t] ELSE ProjectDir[t]
Path(s, t, r) == <<s, Dir(t, r), r>>
Rows == Skills \X Tools \X Roots
Paths == {Path(s, t, r) : s \in Skills, t \in Tools, r \in Roots}
PathOf(k) == Path(k[1], k[2], k[3])
Statuses == {"none", "ok", "error", "disabled"}

RowsOf(s) == {k \in Rows : k[1] = s /\ target[k] # "none"}
\* A skill installed again has another id: a deleted name is not used again.
Managed == {s \in Skills : central[s] \notin {None, "deleted"}}

View == [managed |-> Managed, enabled |-> enabled, target |-> target]
NoCall == [cmd |-> [op |-> "none"], digest |-> None]
Idle == [kind |-> "idle", scope |-> None, failed |-> FALSE]

\* Some skills are there, each in no directory, in all at home or in all of the
\* projects; nothing else is where a skill would go.
Init ==
    /\ central \in [Skills -> Offered \cup {None}]
    /\ enabled = Managed
    /\ \E R \in [Managed -> {{}, {Home}, Projects}] :
        LET rows == {k \in Rows : k[1] \in Managed /\ k[3] \in R[k[1]]
                                  /\ (k[3] = Home \/ k[2] \in Scoped)}
        IN  /\ target = [k \in Rows |-> IF k \in rows THEN "ok" ELSE "none"]
            /\ disk = [p \in Paths |-> IF \E k \in rows : PathOf(k) = p THEN "ours" ELSE "empty"]
    /\ installed = Tools
    /\ shown = [w \in Tabs |-> View]
    /\ detected = [w \in Tabs |-> installed]
    /\ scope = [w \in Tabs |-> [s \in Skills |-> "unset"]]
    /\ plan = [w \in Tabs |-> None]
    /\ todo = [w \in Tabs |-> {}]
    /\ call = [w \in Tabs |-> NoCall]
    /\ handler = [w \in Tabs |-> Idle]
    /\ lost = {}
    /\ clicks = 0 /\ events = 0
    /\ asked = [w \in Tabs |-> {}]
    /\ quiet = {}

------------------------------------------------------------------------------
(* The commands of a handler.                                                *)

\* stage orders the commands of one item; a failure ends the rest of its try.
Command(op, s, t, r, stage, try) ==
    [op |-> op, skill |-> s, tool |-> t, root |-> r, stage |-> stage,
     try |-> try, from |-> None, overwrite |-> FALSE]

Whole(op, s) == Command(op, s, None, None, 1, s)
Sync(s, t, r, try) == Command("sync", s, t, r, 2, try)
Unsync(s, t, r, try) == Command("unsync", s, t, r, 1, try)

\* What getSkillScope, getSkillProjects and the roots of a sync come to.
Shown(w, s) == {k \in Rows : k[1] = s /\ shown[w].target[k] # "none"}
ProjectsOf(w, s) == {k[3] : k \in Shown(w, s)} \ {Home}
ScopeOf(w, s) ==
    LET home == \E k \in Shown(w, s) : k[3] = Home
        project == ProjectsOf(w, s) # {}
    IN  CASE home /\ ~project -> "global"
          [] project /\ ~home -> "project"
          [] scope[w][s] # "unset" -> scope[w][s]
          [] OTHER -> IF project THEN "project" ELSE "global"
RootsOf(w, s) == IF ScopeOf(w, s) = "global" THEN {Home} ELSE ProjectsOf(w, s)
Usable(w, s) == IF ScopeOf(w, s) = "global" THEN detected[w] ELSE detected[w] \cap Scoped
InScope(w, s) == {k \in Shown(w, s) : (k[3] = Home) = (ScopeOf(w, s) = "global")}

\* One tool for each of the directories (uniqueToolIdsBySkillsDir).
OnePerDir(T, r) ==
    {t \in T : t = CHOOSE u \in T : Dir(u, r) = Dir(t, r)}

\* restoreSkillSavedTargets: a sync for each row that can be put back.
Restore(w, s) ==
    {Sync(s, k[2], k[3], s) : k \in {k \in Shown(w, s) :
        IF k[3] = Home THEN k[2] \in detected[w] ELSE k[2] \in Scoped}}

Enabling(w, S) == S \cap shown[w].enabled = {}

\* Mutant: enabling a skill does not put its targets back.
TogglingForgets(w, S) == {Whole(IF Enabling(w, S) THEN "enable" ELSE "disable", s) : s \in S}

\* handleToggleBulkEnabled; handleToggleSkillEnabled for a set of one.
Toggling(w, S) ==
    IF Enabling(w, S)
      THEN {Whole("enable", s) : s \in S} \cup UNION {Restore(w, s) : s \in S}
      ELSE {Whole("disable", s) : s \in S \cap shown[w].enabled}

\* handleConfirmBulkDelete; handleDeleteManaged for a set of one.
Deleting(S) == {Whole("delete", s) : s \in S}

\* Mutant: tools that share a directory with a chosen one are not chosen too.
WithSharingNot(w, s, T) == T

WithSharing(w, s, T) ==
    {u \in Tools : \E t \in T : IF ScopeOf(w, s) = "global" THEN HomeDir[u] = HomeDir[t]
                                                          ELSE ProjectDir[u] = ProjectDir[t]}

\* handleConfirmBulkSync with the tools T chosen.
BulkSyncing(w, S, T) ==
    UNION {{Unsync(s, k[2], k[3], k) : k \in {k \in InScope(w, s) :
                k[2] \in Usable(w, s) \ WithSharing(w, s, T)}}
           \cup {Sync(s, t, r, <<s, t>>) :
                t \in Usable(w, s) \cap WithSharing(w, s, T), r \in RootsOf(w, s)}
           : s \in S}

\* handleSyncAllManagedToTools with the newly installed tools T.
SyncingAll(w, T) ==
    UNION {{Sync(s, t, r, <<s, t>>) :
               t \in OnePerDir(T, Home) \cap Usable(w, s), r \in RootsOf(w, s)}
           : s \in shown[w].managed}

\* handleScopeChange of s to the roots R: all that is elsewhere goes first.
Rescoping(w, s, R) ==
    {Unsync(s, k[2], k[3], s) : k \in {k \in Shown(w, s) : k[3] \notin R}}
    \cup {Sync(s, t, r, s) :
            t \in IF R = {Home} THEN detected[w] ELSE detected[w] \cap Scoped, r \in R}

Synced(w, s, t) ==
    LET rows == {k \in InScope(w, s) : k[2] = t /\ shown[w].target[k] # "disabled"}
    IN  rows # {} /\ \A k \in rows : shown[w].target[k] = "ok"

\* runToggleToolForSkill: every row of the tool in this scope, or every root.
TogglingTool(w, s, t) ==
    IF Synced(w, s, t)
      THEN {Unsync(s, t, k[3], s) : k \in {k \in InScope(w, s) :
              k[2] = t /\ shown[w].target[k] # "disabled"}}
      ELSE {Sync(s, t, r, s) : r \in RootsOf(w, s)}

\* syncInstalledSkill after an install of the content x, chosen for R and T.
Installing(s, x, R, T) ==
    {[Whole("install", s) EXCEPT !.from = x]}
    \cup {Sync(s, t, r, <<s, t, r>>) : t \in OnePerDir(T, CHOOSE r \in R : TRUE), r \in R}

\* handleImport of what the scan saw at the path p.  The directories where it
\* saw the same content may be overwritten.
Importing(w, s, p, T) ==
    {[Whole("import", s) EXCEPT !.from = p]}
    \cup {[Sync(s, t, Home, <<s, t>>) EXCEPT
             !.overwrite = plan[w][Path(s, t, Home)] = plan[w][p]] : t \in OnePerDir(T, Home)}

------------------------------------------------------------------------------
(* The handlers start.                                                       *)

Start(w, kind, to, commands, failed) ==
    /\ handler[w] = Idle
    /\ clicks < MaxClicks
    /\ clicks' = clicks + 1
    /\ handler' = [handler EXCEPT ![w] = [kind |-> kind, scope |-> to, failed |-> failed]]
    /\ todo' = [todo EXCEPT ![w] = commands]
    /\ asked' = [asked EXCEPT ![w] = commands]
    /\ quiet' = quiet \cup {w}
    /\ UNCHANGED <<machine, page, call, lost, events>>

Begin(w, kind, commands, failed) == Start(w, kind, None, commands, failed)

Selections(w) == SUBSET shown[w].managed \ {{}}

ToggleEnabled(w) ==
    \E S \in Selections(w) : Begin(w, "toggle", Toggling(w, S), FALSE)

Delete(w) == \E S \in Selections(w) : Begin(w, "delete", Deleting(S), FALSE)

\* A skill in project scope without a project is an error of its item.
BulkSync(w) ==
    \E S \in Selections(w), T \in SUBSET detected[w] :
        /\ S \subseteq shown[w].enabled
        /\ Begin(w, "bulkSync", BulkSyncing(w, S, T), T # {} /\ \E s \in S : RootsOf(w, s) = {})

SyncAllNewTools(w) ==
    /\ shown[w].managed # {}
    /\ \E T \in SUBSET detected[w] \ {{}} : Begin(w, "syncAll", SyncingAll(w, T), FALSE)

ChangeScope(w) ==
    \E s \in shown[w].managed, R \in {{Home}} \cup SUBSET Projects :
        /\ \/ (R = {Home}) # (ScopeOf(w, s) = "global")
           \/ {k[3] : k \in Shown(w, s)} # R
        /\ Start(w, "scope", <<s, IF R = {Home} THEN "global" ELSE "project">>,
                 Rescoping(w, s, R), FALSE)

ToggleTool(w) ==
    \E s \in shown[w].managed, t \in detected[w] :
        /\ s \in shown[w].enabled
        /\ ScopeOf(w, s) = "project" => t \in Scoped /\ ProjectsOf(w, s) # {}
        /\ Begin(w, "toggleTool", TogglingTool(w, s, t), FALSE)

\* handleCreateLocal, handleCreateGit and the pickers, for each chosen skill.
Install(w) ==
    \E s \in {s \in Skills \ shown[w].managed : central[s] # "deleted"}, x \in Offered,
       T \in SUBSET detected[w], R \in {{Home}} \cup (SUBSET Projects \ {{}}) :
        LET chosen == IF R = {Home} THEN T ELSE T \cap Scoped
        IN  Begin(w, "install", Installing(s, x, R, chosen), chosen = {})

Import(w) ==
    /\ plan[w] # None
    /\ \E p \in DOMAIN plan[w], T \in SUBSET detected[w] :
        /\ plan[w][p] \in Contents /\ central[p[1]] # "deleted"
        /\ Begin(w, "import", Importing(w, p[1], p, T), FALSE)

\* loadPlan: what an import may start from, as it is now.
ScanExisting(w) ==
    LET found == [p \in {q \in Paths : q[3] = Home} |->
                    IF disk[p] = "ours" THEN "empty" ELSE disk[p]]
    IN  /\ handler[w] = Idle
        /\ \E p \in DOMAIN found : found[p] # "empty"
        /\ plan' = [plan EXCEPT ![w] = found]
        /\ UNCHANGED <<machine, shown, detected, scope, work, clicks, events, quiet>>

\* loadManagedSkills and the tool status, when the page opens or is retried.
Reload(w) ==
    /\ handler[w] = Idle
    /\ shown' = [shown EXCEPT ![w] = View]
    /\ detected' = [detected EXCEPT ![w] = installed]
    /\ UNCHANGED <<machine, scope, plan, work, clicks, events, quiet>>

------------------------------------------------------------------------------
(* The runner: what a command does to the library.                           *)

\* check_owned_targets: what stands at a row that is not disabled is our link.
Owned(s) == \A k \in RowsOf(s) : target[k] # "disabled" => disk[PathOf(k)] \in {"empty", "ours"}

\* Mutant: the targets are not looked at.
RefusedUnmanaged(c) == c.op = "sync" /\ c.skill \notin Managed

\* What execute_checked refuses before it compares fingerprints.
Refused(c) ==
    \/ c.op = "sync" /\ c.skill \notin Managed
    \/ c.op = "import" /\ disk[c.from] = "empty"
    \/ \E s \in Managed : (c.op \in {"install", "import"} \/ s = c.skill) /\ ~Owned(s)

\* The rows and flags, and the content of every target and of the source.
Seen(p) == IF disk[p] = "ours" THEN central[p[1]] ELSE disk[p]
Fingerprint(c) ==
    <<central, enabled, target,
      [p \in {PathOf(k) : k \in {k \in Rows : target[k] # "none"}} |-> Seen(p)],
      IF c.op = "import" THEN Seen(c.from) ELSE None>>

\* runtime_tools_sharing_dir.
Sharing(t, r) == {u \in installed : Dir(u, r) = Dir(t, r)}
Group(c) == {<<c.skill, u, c.root>> : u \in Sharing(c.tool, c.root)}
Mark(rows, status) == [k \in Rows |-> IF k \in rows THEN status ELSE target[k]]
Without(paths) == [p \in Paths |-> IF p \in paths THEN "empty" ELSE disk[p]]

Nothing(result, as) == result = as /\ UNCHANGED <<library, events>>

\* Paths that cannot be removed now: permissions, an open file.
Stuck(paths) == IF events < MaxEvents THEN SUBSET paths ELSE {{}}
Spend(F) == events' = IF F = {} THEN events ELSE events + 1

\* sync_skill_to_tool: the row says what became of it.
SyncSkill(c, result) ==
    LET k == <<c.skill, c.tool, c.root>>
        p == PathOf(k)
        failure == /\ result = "error"
                   /\ target' = Mark({k}, "error")
                   /\ UNCHANGED <<central, enabled, disk, events>>
        links == disk[p] \in {"empty", "ours", central[c.skill]} \/ c.overwrite
    IN  IF c.root = Home /\ c.tool \notin installed THEN failure
        ELSE IF target[k] = "ok" /\ disk[p] # "empty" THEN Nothing(result, "ok")
        ELSE \/ ~links /\ failure
             \/ /\ links /\ result = "ok"
                /\ disk' = [disk EXCEPT ![p] = "ours"]
                /\ target' = Mark(Group(c), "ok")
                /\ UNCHANGED <<central, enabled, events>>

\* Mutant: the rows of the tools that share the directory are kept.
UnsyncedAlone(c) == {<<c.skill, c.tool, c.root>>}

Unsynced(c) == Group(c) \cap RowsOf(c.skill)

\* unsync_skill_from_tool: the path goes once, with the rows of its group.
UnsyncSkill(c, result) ==
    LET paths == {PathOf(k) : k \in Group(c) \cap RowsOf(c.skill)}
    IN  \E F \in Stuck(paths) :
          /\ Spend(F)
          /\ UNCHANGED <<central, enabled>>
          /\ IF F # {} THEN result = "error" /\ UNCHANGED <<disk, target>>
             ELSE /\ result = "ok"
                  /\ disk' = Without(paths)
                  /\ target' = Mark(Unsynced(c), "none")

\* set_skill_enabled: a path that cannot be removed stays, its row is disabled.  The
\* record that another tab has removed is not found.
DisableSkill(s, result) ==
    LET paths == {PathOf(k) : k \in {k \in RowsOf(s) : target[k] # "disabled"}}
    IN  \E F \in Stuck(paths) :
          /\ result = IF F = {} /\ s \in Managed THEN "ok" ELSE "error"
          /\ disk' = Without(paths \ F)
          /\ target' = Mark(RowsOf(s), "disabled")
          /\ enabled' = enabled \ {s}
          /\ UNCHANGED central
          /\ Spend(F)

EnableSkill(s, result) ==
    /\ result = IF s \in Managed THEN "ok" ELSE "error"
    /\ enabled' = enabled \cup (Managed \cap {s})
    /\ UNCHANGED <<central, target, disk, events>>

\* delete_managed_skill: every path of a row, then the folder and the rows.
DeleteSkill(s, result) ==
    LET paths == {PathOf(k) : k \in RowsOf(s)}
    IN  \E F \in Stuck(paths) :
          /\ result = IF F = {} THEN "ok" ELSE "error"
          /\ disk' = Without(paths \ F)
          /\ target' = Mark(RowsOf(s), "none")
          /\ central' = [central EXCEPT ![s] = IF s \in Managed THEN "deleted" ELSE @]
          /\ enabled' = enabled \ {s}
          /\ Spend(F)

\* install_local_selection, install_git_selection and import_existing_skill.
InstallSkill(c, result) ==
    LET content == IF c.op = "import" THEN Seen(c.from) ELSE c.from
    IN  IF central[c.skill] # None
          THEN Nothing(result, IF c.op = "import" /\ central[c.skill] = content
                               THEN "ok" ELSE "error")
          ELSE /\ result = "ok"
               /\ central' = [central EXCEPT ![c.skill] = content]
               /\ enabled' = enabled \cup {c.skill}
               /\ UNCHANGED <<target, disk, events>>

Execute(c, result) ==
    \/ c.op = "sync" /\ SyncSkill(c, result)
    \/ c.op = "unsync" /\ UnsyncSkill(c, result)
    \/ c.op = "disable" /\ DisableSkill(c.skill, result)
    \/ c.op = "enable" /\ EnableSkill(c.skill, result)
    \/ c.op = "delete" /\ DeleteSkill(c.skill, result)
    \/ c.op \in {"install", "import"} /\ InstallSkill(c, result)

Changed(c, digest) == Fingerprint(c) # digest

\* execute_checked with the fingerprint of the preview.
CommitJob(c, digest, result) ==
    IF Refused(c) \/ Changed(c, digest) THEN Nothing(result, "error") ELSE Execute(c, result)

\* The worker dies on the way: some paths and rows are done, no flag is.
CutShort(c) ==
    LET k == <<c.skill, c.tool, c.root>>
        rows == CASE c.op = "sync" -> Group(c)
                  [] c.op = "unsync" -> Group(c) \cap RowsOf(c.skill)
                  [] OTHER -> {j \in RowsOf(c.skill) : target[j] # "disabled"}
    IN  /\ c.op \in {"sync", "unsync", "disable"}
        /\ c.op = "sync" => disk[PathOf(k)] = "empty" /\ (c.root = Home => c.tool \in installed)
        /\ \E D \in SUBSET rows :
             /\ disk' = CASE c.op = "sync" -> [disk EXCEPT ![PathOf(k)] = "ours"]
                           [] c.op = "unsync" -> Without({PathOf(j) : j \in rows})
                           [] OTHER -> Without({PathOf(j) : j \in D})
             /\ target' = Mark(D, CASE c.op = "sync" -> "ok"
                                     [] c.op = "unsync" -> "none"
                                     [] OTHER -> "disabled")
        /\ UNCHANGED <<central, enabled>>

------------------------------------------------------------------------------
(* A tab and its command (request, invokeLibrary).                           *)

\* The handlers that catch the error of an item go on with the next one.
Fail(w, c) ==
    /\ todo' = [todo EXCEPT ![w] = {d \in @ \ {c} :
           d.try # c.try /\ ~(c.op \in {"install", "import"} /\ d.skill = c.skill)}]
    /\ handler' = [handler EXCEPT ![w].failed = TRUE]
    /\ call' = [call EXCEPT ![w] = NoCall]
    /\ UNCHANGED asked

\* Whose handler is no longer alone after a step of the tabs W on the library.
Disturb(W) == quiet' = IF UNCHANGED library THEN quiet ELSE quiet \cap W

\* The first job: refused, or answered with the fingerprint, on which the tab
\* posts the second one.
Preview(w) ==
    /\ call[w] = NoCall
    /\ \E c \in todo[w] :
        /\ \A d \in todo[w] : d.skill = c.skill => d.stage >= c.stage
        /\ IF Refused(c) THEN Fail(w, c)
           ELSE /\ todo' = [todo EXCEPT ![w] = @ \ {c}]
                /\ call' = [call EXCEPT ![w] = [cmd |-> c, digest |-> Fingerprint(c)]]
                /\ UNCHANGED <<handler, asked>>
    /\ UNCHANGED <<machine, page, lost, clicks, events, quiet>>

\* The command ends for the tab: with its answer, or with an error.
Answer(w, result) ==
    IF result = "error" THEN Fail(w, call[w].cmd)
    ELSE /\ call' = [call EXCEPT ![w] = NoCall]
         /\ UNCHANGED <<todo, handler, asked>>

\* The runner executes it, and a poll brings the result.
Run(w) ==
    /\ call[w] # NoCall
    /\ \E result \in {"ok", "error"} :
        /\ CommitJob(call[w].cmd, call[w].digest, result)
        /\ Answer(w, result)
    /\ Disturb({w})
    /\ UNCHANGED <<installed, page, lost, clicks>>

RunLost ==
    \E job \in lost, result \in {"ok", "error"} :
        /\ CommitJob(job.cmd, job.digest, result)
        /\ lost' = lost \ {job}
        /\ Disturb({})
        /\ UNCHANGED <<installed, page, todo, call, handler, asked, clicks>>

\* The worker dies while it executes, and the tab hears of an error.  (A job that is
\* delivered again is executed again; that cannot be told from a later request.)
Crash(w) ==
    /\ call[w] # NoCall
    /\ events < MaxEvents
    /\ events' = events + 1
    /\ ~Refused(call[w].cmd) /\ ~Changed(call[w].cmd, call[w].digest)
    /\ CutShort(call[w].cmd)
    /\ Answer(w, "error")
    /\ Disturb({w})
    /\ UNCHANGED <<installed, page, lost, clicks>>

\* The post or a poll fails: the tab gives the command up, its job is queued.
LoseCall(w) ==
    /\ call[w] # NoCall
    /\ events < MaxEvents
    /\ events' = events + 1
    /\ lost' = lost \cup {[cmd |-> call[w].cmd, digest |-> call[w].digest]}
    /\ Answer(w, "error")
    /\ UNCHANGED <<machine, page, clicks, quiet>>

\* cancel_current_operation: the command ends if its job has not started.  What
\* comes later in the handler is not cancelled, and neither is a job that is
\* being posted, whose id no list of jobs to cancel has yet.
Cancel(w) ==
    /\ call[w] # NoCall
    /\ Answer(w, "error")
    /\ UNCHANGED <<machine, page, lost, clicks, events, quiet>>

\* The handler ends, and loads the skills again.
Finish(w) ==
    /\ handler[w] # Idle /\ todo[w] = {} /\ call[w] = NoCall
    /\ handler' = [handler EXCEPT ![w] = Idle]
    /\ shown' = [shown EXCEPT ![w] = View]
    /\ LET to == handler[w].scope
       IN  scope' = IF to # None /\ ~handler[w].failed
                      THEN [scope EXCEPT ![w][to[1]] = to[2]] ELSE scope
    /\ plan' = [plan EXCEPT ![w] = IF handler[w].kind = "import" THEN None ELSE @]
    /\ asked' = [asked EXCEPT ![w] = {}]
    /\ quiet' = quiet \ {w}
    /\ UNCHANGED <<machine, detected, todo, call, lost, clicks, events>>

------------------------------------------------------------------------------
(* The person, outside the page.                                             *)

Touch ==
    /\ events < MaxEvents
    /\ events' = events + 1
    /\ \/ \E p \in Paths, x \in Contents \cup {"empty"} :
            /\ disk[p] # x
            /\ disk' = [disk EXCEPT ![p] = x]
            /\ UNCHANGED installed
       \/ \E t \in Tools :
            /\ installed' = IF t \in installed THEN installed \ {t} ELSE installed \cup {t}
            /\ UNCHANGED disk
    /\ quiet' = {}
    /\ UNCHANGED <<central, enabled, target, page, work, clicks>>

TabStep(w) ==
    \/ ToggleEnabled(w) \/ Delete(w) \/ BulkSync(w) \/ SyncAllNewTools(w)
    \/ ChangeScope(w) \/ ToggleTool(w) \/ Install(w) \/ Import(w)
    \/ ScanExisting(w) \/ Reload(w)
    \/ Preview(w) \/ LoseCall(w) \/ Cancel(w) \/ Finish(w)

JobStep == (\E w \in Tabs : Run(w) \/ Crash(w)) \/ RunLost

Next == (\E w \in Tabs : TabStep(w)) \/ JobStep \/ Touch

Spec == Init /\ [][Next]_vars

------------------------------------------------------------------------------
(* Properties.                                                               *)

Commands == [op : {"install", "import", "sync", "unsync", "enable", "disable", "delete"},
             skill : Skills, tool : Tools \cup {None}, root : Roots \cup {None},
             stage : 1..2]

\* Types of the library and of what a tab shows and does.
TypeOK ==
    /\ central \in [Skills -> Contents \cup {None, "deleted"}]
    /\ enabled \subseteq Managed
    /\ target \in [Rows -> Statuses]
    /\ \A k \in Rows : target[k] # "none" => k[1] \in Managed
    /\ disk \in [Paths -> Contents \cup {"empty", "ours"}]
    /\ installed \subseteq Tools
    /\ \A w \in Tabs :
        /\ todo[w] \cup asked[w] # {} => handler[w] # Idle
        /\ \A c \in todo[w] \cup asked[w] :
              [op |-> c.op, skill |-> c.skill, tool |-> c.tool, root |-> c.root,
               stage |-> c.stage] \in Commands

ByTheRunner == call' # call \/ lost' # lost
Ends(w) == handler[w] # Idle /\ handler'[w] = Idle

\* What a person put into a directory of a tool, and no skill of that name
\* holds, is never removed by the page, whatever the tabs, lost calls and
\* crashes do to one another - except through the row of a disabled skill, and
\* where an import was told to take over what its scan had seen.
OwnContentIsKept ==
    [][ByTheRunner => \A p \in Paths :
        disk[p] \in Contents /\ disk'[p] # disk[p] /\ disk[p] # central[p[1]] =>
           \/ \E k \in Rows : PathOf(k) = p /\ target[k] = "disabled"
           \/ \E w \in Tabs : call'[w] # call[w] /\ call[w].cmd.overwrite
           \/ \E job \in lost : job.cmd.overwrite]_vars

\* A command that was not cut short leaves rows and directories in step: no row
\* of a detected tool says synced where it removed the link, and no link is
\* without a row.
RowsFollowDisk ==
    [][ByTheRunner /\ events' = events => \A k \in Rows :
        k[2] \in installed =>
           /\ target'[k] = "ok" /\ disk[PathOf(k)] = "ours" => disk'[PathOf(k)] = "ours"
           /\ disk'[PathOf(k)] = "ours" /\ disk[PathOf(k)] # "ours" => target'[k] = "ok"]_vars

Done(c) ==
    LET k == <<c.skill, c.tool, c.root>>
    IN  CASE c.op = "sync" -> target[k] = "ok" /\ disk[PathOf(k)] = "ours"
          [] c.op = "unsync" -> target[k] = "none"
          [] c.op = "enable" -> c.skill \in enabled
          [] c.op = "disable" -> /\ c.skill \notin enabled
                                 /\ \A j \in RowsOf(c.skill) : target[j] = "disabled"
          [] OTHER -> (c.skill \in Managed) = (c.op # "delete")

\* A handler that reports success did all it was asked: no command of it undid
\* what an earlier one did, though tools share directories - unless another
\* tab, a lost job or the person changed something meanwhile, or a tool that
\* the page shows is gone.
SuccessIsReal ==
    [][\A w \in Tabs :
         Ends(w) /\ ~handler[w].failed /\ w \in quiet =>
            \A c \in asked[w] : c.tool \in installed \cup {None} => Done(c)]_vars

\* Enabling a skill through the page puts every target back that the page shows
\* and the tool can take, if nothing failed and nobody else worked on the library
\* meanwhile (CHANGELOG.md:94).
EnablingRestores ==
    [][\A w \in Tabs :
         Ends(w) /\ handler[w].kind = "toggle" /\ ~handler[w].failed /\ w \in quiet =>
            \A c \in asked[w] : c.op = "enable" => \A k \in Shown(w, c.skill) :
               k[2] \in installed \cap (IF k[3] = Home THEN detected[w] ELSE Scoped) =>
                  target[k] = "ok"]_vars

\* docs/AGENT-HARNESS-MANAGER-ROADMAP.md:172: unmanaged content is not deleted
\* or overwritten without an explicit decision.
DeletionSparesOwnContent ==
    [][\A w \in Tabs : ByTheRunner /\ call[w] # NoCall /\ call[w].cmd.op = "delete" =>
         \A p \in Paths : disk[p] \in Contents => disk'[p] = disk[p]]_vars
=============================================================================
