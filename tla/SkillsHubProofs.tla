--------------------------- MODULE SkillsHubProofs ---------------------------
(* The Skills page keeps the person's own content and leaves rows and        *)
(* directories in step, and a handler that reports success did what it was   *)
(* asked: for any tabs, skills, tools and directories, however tools share   *)
(* them, and any number of actions, lost calls and crashes.                  *)
EXTENDS SkillsHub, TLAPS

\* The columns of the library and the calls of the tabs.
LibraryTypes ==
    /\ DOMAIN central = Skills
    /\ target \in [Rows -> Statuses]
    /\ disk \in [Paths -> Contents \cup {"empty", "ours"}]
    /\ events \in Nat
    /\ call = [w \in Tabs |-> call[w]]

\* A target row belongs to a skill of the library.
RowsAreManaged == \A k \in Rows : target[k] # "none" => k[1] \in Managed

HubInv == LibraryTypes /\ RowsAreManaged

------------------------------------------------------------------------------
(* Rows and paths.                                                           *)

LEMMA RowShape ==
    ASSUME NEW k \in Rows
    PROVE  /\ k = <<k[1], k[2], k[3]>>
           /\ k[1] \in Skills /\ k[2] \in Tools /\ k[3] \in Roots
           /\ PathOf(k) = <<k[1], Dir(k[2], k[3]), k[3]>>
           /\ PathOf(k) \in Paths
<1>1. /\ k = <<k[1], k[2], k[3]>>
      /\ k[1] \in Skills /\ k[2] \in Tools /\ k[3] \in Roots
    BY DEF Rows
<1>2. PathOf(k) = <<k[1], Dir(k[2], k[3]), k[3]>>
    BY DEF PathOf, Path
<1>3. PathOf(k) \in Paths
    BY <1>1 DEF PathOf, Paths
<1> QED BY <1>1, <1>2, <1>3

\* The rows at one path are of one skill; those of detected tools are one group.
LEMMA GroupOfPath ==
    ASSUME NEW k \in Rows, NEW c, k[2] \in installed,
           PathOf(k) = <<c.skill, Dir(c.tool, c.root), c.root>>
    PROVE  k \in Group(c)
<1>1. k = <<c.skill, k[2], c.root>> /\ Dir(k[2], c.root) = Dir(c.tool, c.root)
    BY RowShape
<1> QED BY <1>1 DEF Group, Sharing

LEMMA GroupHasOnePath ==
    ASSUME NEW c, NEW k \in Group(c), k \in Rows
    PROVE  PathOf(k) = <<c.skill, Dir(c.tool, c.root), c.root>>
<1>1. PICK u \in Sharing(c.tool, c.root) : k = <<c.skill, u, c.root>>
    BY DEF Group
<1>2. k[1] = c.skill /\ k[2] = u /\ k[3] = c.root
    BY <1>1
<1> QED BY <1>1, <1>2, RowShape DEF Sharing

LEMMA MarkIsRow ==
    ASSUME LibraryTypes, NEW R, NEW status \in Statuses
    PROVE  /\ Mark(R, status) \in [Rows -> Statuses]
           /\ \A k \in Rows : Mark(R, status)[k] = IF k \in R THEN status ELSE target[k]
BY DEF Mark, LibraryTypes

LEMMA WithoutIsDisk ==
    ASSUME LibraryTypes, NEW P
    PROVE  /\ Without(P) \in [Paths -> Contents \cup {"empty", "ours"}]
           /\ \A p \in Paths : Without(P)[p] = IF p \in P THEN "empty" ELSE disk[p]
BY DEF Without, LibraryTypes

------------------------------------------------------------------------------
(* What a command may do to the library.                                     *)

\* A command changes rows, links and skills of one name.
Typed == /\ DOMAIN central' = Skills
         /\ target' \in [Rows -> Statuses]
         /\ disk' \in [Paths -> Contents \cup {"empty", "ours"}]
         /\ events' \in Nat

\* The person's content goes where a disabled row is, or where a command of a
\* tab overwrites it.
Keeps(c) ==
    \A p \in Paths : disk[p] \in Contents /\ disk'[p] # disk[p] /\ disk[p] # central[p[1]] =>
        \/ \E k \in Rows : PathOf(k) = p /\ target[k] = "disabled"
        \/ c.overwrite

InStep ==
    \A k \in Rows : k[2] \in installed =>
        /\ target'[k] = "ok" /\ disk[PathOf(k)] = "ours" => disk'[PathOf(k)] = "ours"
        /\ disk'[PathOf(k)] = "ours" /\ disk[PathOf(k)] # "ours" => target'[k] = "ok"

\* All that the theorems need to know of a command.
Behaves(c) == Typed /\ RowsAreManaged' /\ Keeps(c) /\ (events' = events => InStep)

\* Nothing but rows of a managed skill changed.
LEMMA RowsStayManaged ==
    ASSUME HubInv, NEW R, NEW status \in Statuses, target' = Mark(R, status), central' = central,
           \A k \in R \cap Rows : status # "none" => k[1] \in Managed
    PROVE  RowsAreManaged'
<1>1. Managed' = Managed
    BY DEF Managed
<1> QED BY <1>1, MarkIsRow DEF HubInv, RowsAreManaged

\* What stands at a row that is not disabled is a link of ours.
LEMMA OwnedRows ==
    ASSUME HubInv, NEW c, ~Refused(c), NEW k \in RowsOf(c.skill), disk[PathOf(k)] \in Contents
    PROVE  target[k] = "disabled"
<1>1. c.skill \in Managed
    BY DEF RowsOf, HubInv, RowsAreManaged
<1>2. Owned(c.skill)
    BY <1>1 DEF Refused
<1> QED BY <1>2, HubAssumption DEF Owned

\* Links are removed only where there are rows.
LEMMA RemovalKeeps ==
    ASSUME HubInv, NEW c, ~Refused(c), NEW P,
           \A p \in P : \E k \in RowsOf(c.skill) : PathOf(k) = p,
           disk' = Without(P)
    PROVE  Keeps(c)
<1> SUFFICES ASSUME NEW p \in Paths, disk[p] \in Contents, disk'[p] # disk[p]
             PROVE  \E k \in Rows : PathOf(k) = p /\ target[k] = "disabled"
    BY DEF Keeps
<1>1. p \in P
    BY WithoutIsDisk DEF HubInv
<1>2. PICK k \in RowsOf(c.skill) : PathOf(k) = p
    BY <1>1
<1> QED BY <1>2, OwnedRows DEF RowsOf

LEMMA SyncBehaves ==
    ASSUME HubInv, NEW c, NEW result, c.op = "sync", ~Refused(c), SyncSkill(c, result)
    PROVE  Behaves(c)
<1> DEFINE k == <<c.skill, c.tool, c.root>>
           p == PathOf(k)
<1>1. c.skill \in Managed
    BY DEF Refused
<1>2. p = <<c.skill, Dir(c.tool, c.root), c.root>>
    BY DEF PathOf, Path
<1>3. CASE /\ target' = Mark({k}, "error")
           /\ UNCHANGED <<central, enabled, disk, events>>
    <2>1. RowsAreManaged'
        BY <1>1, <1>3, RowsStayManaged DEF Statuses
    <2>2. Typed
        BY <1>3, MarkIsRow DEF Typed, HubInv, LibraryTypes, Statuses
    <2> QED BY <1>3, <2>1, <2>2 DEF Behaves, Keeps, InStep
<1>4. CASE UNCHANGED <<library, events>>
    <2>1. Typed /\ RowsAreManaged'
        BY <1>4 DEF library, Typed, HubInv, LibraryTypes, RowsAreManaged, Managed
    <2> QED BY <1>4, <2>1 DEF library, Behaves, Keeps, InStep
<1>5. CASE /\ disk[p] \in {"empty", "ours", central[c.skill]} \/ c.overwrite
           /\ disk' = [disk EXCEPT ![p] = "ours"]
           /\ target' = Mark(Group(c), "ok")
           /\ UNCHANGED <<central, enabled, events>>
    <2> HIDE DEF p
    <2>1. \A q \in Paths : disk'[q] = IF q = p THEN "ours" ELSE disk[q]
        BY <1>5 DEF HubInv, LibraryTypes
    <2>2. Typed
        BY <1>5, MarkIsRow DEF Typed, HubInv, LibraryTypes, Statuses
    <2>3. RowsAreManaged'
        BY <1>1, <1>5, RowsStayManaged DEF Statuses, Group
    <2>4. Keeps(c)
        BY <1>2, <1>5, <2>1, HubAssumption DEF Keeps
    <2>5. ASSUME NEW j \in Rows, j[2] \in installed
          PROVE  /\ target'[j] = "ok" /\ disk[PathOf(j)] = "ours" => disk'[PathOf(j)] = "ours"
                 /\ disk'[PathOf(j)] = "ours" /\ disk[PathOf(j)] # "ours" => target'[j] = "ok"
        <3>1. PathOf(j) = p => j \in Group(c)
            BY <1>2, <2>5, GroupOfPath
        <3>2. PathOf(j) \in Paths
            BY RowShape
        <3>3. j \in Group(c) => target'[j] = "ok"
            BY <1>5, MarkIsRow DEF HubInv, Statuses
        <3> QED BY <2>1, <3>1, <3>2, <3>3
    <2> QED BY <2>2, <2>3, <2>4, <2>5 DEF Behaves, InStep
<1> QED BY <1>3, <1>4, <1>5 DEF SyncSkill, Nothing

LEMMA UnsyncBehaves ==
    ASSUME HubInv, NEW c, NEW result, ~Refused(c), UnsyncSkill(c, result)
    PROVE  Behaves(c)
<1> DEFINE paths == {PathOf(k) : k \in Group(c) \cap RowsOf(c.skill)}
<1>1. PICK F : /\ Spend(F) /\ UNCHANGED <<central, enabled>>
               /\ IF F # {} THEN result = "error" /\ UNCHANGED <<disk, target>>
                  ELSE /\ result = "ok"
                       /\ disk' = Without(paths)
                       /\ target' = Mark(Unsynced(c), "none")
    BY DEF UnsyncSkill
<1>2. events \in Nat /\ events' \in Nat
    BY <1>1 DEF Spend, HubInv, LibraryTypes
<1>3. CASE F # {}
    <2>1. Typed /\ RowsAreManaged'
        BY <1>1, <1>2, <1>3 DEF Typed, HubInv, LibraryTypes, RowsAreManaged, Managed
    <2> QED BY <1>1, <1>3, <2>1 DEF Behaves, Keeps, InStep
<1>4. CASE F = {}
    <2>1. disk' = Without(paths) /\ target' = Mark(Unsynced(c), "none") /\ central' = central
        BY <1>1, <1>4
    <2>2. Typed
        BY <1>2, <2>1, MarkIsRow, WithoutIsDisk DEF Typed, HubInv, LibraryTypes, Statuses
    <2>3. RowsAreManaged'
        BY <2>1, RowsStayManaged DEF Statuses
    <2>4. Keeps(c)
        BY <2>1, RemovalKeeps
    <2>5. ASSUME NEW j \in Rows, j[2] \in installed
          PROVE  /\ target'[j] = "ok" /\ disk[PathOf(j)] = "ours" => disk'[PathOf(j)] = "ours"
                 /\ disk'[PathOf(j)] = "ours" /\ disk[PathOf(j)] # "ours" => target'[j] = "ok"
        <3>1. PathOf(j) \in Paths
            BY RowShape
        <3>2. disk'[PathOf(j)] = IF PathOf(j) \in paths THEN "empty" ELSE disk[PathOf(j)]
            BY <2>1, <3>1, WithoutIsDisk DEF HubInv
        <3>3. target'[j] = IF j \in Unsynced(c) THEN "none" ELSE target[j]
            BY <2>1, MarkIsRow DEF HubInv, Statuses
        <3>4. ASSUME PathOf(j) \in paths, target[j] # "none" PROVE j \in Unsynced(c)
            <4>1. PICK k \in Group(c) \cap RowsOf(c.skill) : PathOf(j) = PathOf(k)
                BY <3>4
            <4>2. PathOf(j) = <<c.skill, Dir(c.tool, c.root), c.root>>
                BY <4>1, GroupHasOnePath DEF RowsOf
            <4>3. j \in Group(c) /\ j[1] = c.skill
                BY <2>5, <4>2, GroupOfPath, RowShape
            <4> QED BY <3>4, <4>3 DEF Unsynced, RowsOf
        <3> QED BY <3>2, <3>3, <3>4
    <2> QED BY <2>2, <2>3, <2>4, <2>5 DEF Behaves, InStep
<1> QED BY <1>3, <1>4

\* Whole skills: their rows share no path with those of another skill.
LEMMA SkillOfPath ==
    ASSUME NEW s, NEW j \in Rows, NEW k \in RowsOf(s), PathOf(j) = PathOf(k), target[j] # "none"
    PROVE  j \in RowsOf(s)
<1>1. k \in Rows /\ k[1] = s
    BY DEF RowsOf
<1>2. j[1] = s
    BY <1>1, RowShape
<1> QED BY <1>2 DEF RowsOf

LEMMA DisableBehaves ==
    ASSUME HubInv, NEW c, NEW result, ~Refused(c), DisableSkill(c.skill, result)
    PROVE  Behaves(c)
<1> DEFINE s == c.skill
           paths == {PathOf(k) : k \in {k \in RowsOf(s) : target[k] # "disabled"}}
<1>1. PICK F : /\ Spend(F)
               /\ disk' = Without(paths \ F)
               /\ target' = Mark(RowsOf(s), "disabled")
               /\ central' = central
    BY DEF DisableSkill
<1>2. events \in Nat /\ events' \in Nat
    BY <1>1 DEF Spend, HubInv, LibraryTypes
<1>3. Typed
    BY <1>1, <1>2, MarkIsRow, WithoutIsDisk DEF Typed, HubInv, LibraryTypes, Statuses
<1>4. RowsAreManaged'
    <2>1. \A k \in RowsOf(s) : k[1] \in Managed
        BY DEF HubInv, RowsAreManaged, RowsOf
    <2> QED BY <1>1, <2>1, RowsStayManaged DEF Statuses
<1>5. Keeps(c)
    BY <1>1, RemovalKeeps
<1>6. ASSUME NEW j \in Rows
      PROVE  /\ target'[j] = "ok" /\ disk[PathOf(j)] = "ours" => disk'[PathOf(j)] = "ours"
             /\ disk'[PathOf(j)] = "ours" /\ disk[PathOf(j)] # "ours" => target'[j] = "ok"
    <2>1. PathOf(j) \in Paths
        BY RowShape
    <2>2. disk'[PathOf(j)] = IF PathOf(j) \in paths \ F THEN "empty" ELSE disk[PathOf(j)]
        BY <1>1, <2>1, WithoutIsDisk DEF HubInv
    <2>3. target'[j] = IF j \in RowsOf(s) THEN "disabled" ELSE target[j]
        BY <1>1, MarkIsRow DEF HubInv, Statuses
    <2>4. PathOf(j) \in paths /\ target[j] # "none" => j \in RowsOf(s)
        BY SkillOfPath
    <2> QED BY <2>2, <2>3, <2>4
<1> QED BY <1>3, <1>4, <1>5, <1>6 DEF Behaves, InStep

LEMMA DeleteBehaves ==
    ASSUME HubInv, NEW c, NEW result, ~Refused(c), DeleteSkill(c.skill, result)
    PROVE  Behaves(c)
<1> DEFINE s == c.skill
           paths == {PathOf(k) : k \in RowsOf(s)}
<1>1. PICK F : /\ Spend(F)
               /\ disk' = Without(paths \ F)
               /\ target' = Mark(RowsOf(s), "none")
               /\ central' = [central EXCEPT ![s] = IF s \in Managed THEN "deleted" ELSE @]
    BY DEF DeleteSkill
<1>2. events \in Nat /\ events' \in Nat
    BY <1>1 DEF Spend, HubInv, LibraryTypes
<1>3. Typed
    BY <1>1, <1>2, MarkIsRow, WithoutIsDisk DEF Typed, HubInv, LibraryTypes, Statuses
<1>4. RowsAreManaged'
    <2>1. \A j \in Rows : target'[j] = IF j \in RowsOf(s) THEN "none" ELSE target[j]
        BY <1>1, MarkIsRow DEF HubInv, Statuses
    <2>2. ASSUME NEW j \in Rows, target'[j] # "none" PROVE j[1] \in Managed'
        <3>1. target[j] # "none" /\ j \notin RowsOf(s) /\ j[1] # s
            BY <2>1, <2>2 DEF RowsOf
        <3>2. j[1] \in Managed
            BY <3>1 DEF HubInv, RowsAreManaged
        <3> QED BY <1>1, <3>1, <3>2 DEF Managed, HubInv, LibraryTypes
    <2> QED BY <2>2 DEF RowsAreManaged
<1>5. Keeps(c)
    BY <1>1, RemovalKeeps
<1>6. ASSUME NEW j \in Rows
      PROVE  /\ target'[j] = "ok" /\ disk[PathOf(j)] = "ours" => disk'[PathOf(j)] = "ours"
             /\ disk'[PathOf(j)] = "ours" /\ disk[PathOf(j)] # "ours" => target'[j] = "ok"
    <2>1. PathOf(j) \in Paths
        BY RowShape
    <2>2. disk'[PathOf(j)] = IF PathOf(j) \in paths \ F THEN "empty" ELSE disk[PathOf(j)]
        BY <1>1, <2>1, WithoutIsDisk DEF HubInv
    <2>3. target'[j] = IF j \in RowsOf(s) THEN "none" ELSE target[j]
        BY <1>1, MarkIsRow DEF HubInv, Statuses
    <2>4. PathOf(j) \in paths /\ target[j] # "none" => j \in RowsOf(s)
        BY SkillOfPath
    <2> QED BY <2>2, <2>3, <2>4
<1> QED BY <1>3, <1>4, <1>5, <1>6 DEF Behaves, InStep

\* What leaves rows and links alone.
LEMMA LibraryRest ==
    ASSUME HubInv, NEW c, UNCHANGED <<target, disk, events>>,
           central' = central \/ \E s, x : central[s] = None /\ central' = [central EXCEPT ![s] = x]
    PROVE  Behaves(c)
<1>1. Managed \subseteq Managed' \/ central' = central
    BY DEF Managed, HubInv, LibraryTypes
<1>2. ASSUME NEW k \in Rows, target'[k] # "none" PROVE k[1] \in Managed'
    BY <1>1, <1>2 DEF HubInv, RowsAreManaged, Managed
<1>3. Typed
    BY DEF Typed, HubInv, LibraryTypes
<1> QED BY <1>2, <1>3 DEF Behaves, RowsAreManaged, Keeps, InStep

LEMMA CommandBehaves ==
    ASSUME HubInv, NEW c, NEW digest, NEW result, CommitJob(c, digest, result)
    PROVE  Behaves(c)
<1>1. CASE Nothing(result, "error")
    BY <1>1, LibraryRest DEF Nothing, library
<1>2. CASE ~Refused(c) /\ Execute(c, result)
    <2>1. CASE c.op = "enable" /\ EnableSkill(c.skill, result)
        BY <2>1, LibraryRest DEF EnableSkill
    <2>2. CASE InstallSkill(c, result)
        BY <2>2, LibraryRest DEF InstallSkill, Nothing, library
    <2> QED BY <1>2, <2>1, <2>2, SyncBehaves, UnsyncBehaves, DisableBehaves, DeleteBehaves
            DEF Execute
<1> QED BY <1>1, <1>2 DEF CommitJob

LEMMA CutBehaves ==
    ASSUME HubInv, NEW c, ~Refused(c), CutShort(c), events' = events + 1
    PROVE  Behaves(c)
<1> DEFINE k == <<c.skill, c.tool, c.root>>
           rows == CASE c.op = "sync" -> Group(c)
                     [] c.op = "unsync" -> Group(c) \cap RowsOf(c.skill)
                     [] OTHER -> {j \in RowsOf(c.skill) : target[j] # "disabled"}
           status == CASE c.op = "sync" -> "ok"
                       [] c.op = "unsync" -> "none"
                       [] OTHER -> "disabled"
<1>1. /\ c.op \in {"sync", "unsync", "disable"}
      /\ c.op = "sync" => disk[PathOf(k)] = "empty"
      /\ central' = central
    BY DEF CutShort
<1>2. PICK D \in SUBSET rows :
          /\ disk' = CASE c.op = "sync" -> [disk EXCEPT ![PathOf(k)] = "ours"]
                        [] c.op = "unsync" -> Without({PathOf(j) : j \in rows})
                        [] OTHER -> Without({PathOf(j) : j \in D})
          /\ target' = Mark(D, status)
    BY DEF CutShort
<1>3. events \in Nat /\ events' \in Nat /\ events' # events
    BY DEF HubInv, LibraryTypes
<1>4. status \in Statuses
    BY DEF Statuses
<1>5. RowsAreManaged'
    <2>1. \A j \in D \cap Rows : status # "none" => j[1] \in Managed
        <3>1. CASE c.op = "sync"
            BY <3>1 DEF Refused, Group
        <3>2. CASE c.op = "disable"
            BY <3>2 DEF HubInv, RowsAreManaged, RowsOf
        <3> QED BY <1>1, <3>1, <3>2
    <2> HIDE DEF status
    <2> QED BY <1>1, <1>2, <1>4, <2>1, RowsStayManaged
<1>6. Typed
    <2>1. target' \in [Rows -> Statuses]
        <3> HIDE DEF status
        <3> QED BY <1>2, <1>4, MarkIsRow DEF HubInv
    <2>2. disk' \in [Paths -> Contents \cup {"empty", "ours"}]
        BY <1>1, <1>2, WithoutIsDisk DEF HubInv, LibraryTypes
    <2> QED BY <1>1, <1>3, <2>1, <2>2 DEF Typed, HubInv, LibraryTypes
<1>7. Keeps(c)
    <2>1. CASE c.op = "sync"
        <3>1. \A p \in Paths : p # PathOf(k) => disk'[p] = disk[p]
            BY <1>2, <2>1 DEF HubInv, LibraryTypes
        <3> QED BY <1>1, <2>1, <3>1, HubAssumption DEF Keeps
    <2>2. CASE c.op # "sync"
        <3>1. CASE c.op = "unsync"
            <4> DEFINE P == {PathOf(j) : j \in rows}
            <4>1. disk' = Without(P) /\ rows \subseteq RowsOf(c.skill)
                BY <1>2, <3>1
            <4> QED BY <4>1, RemovalKeeps
        <3>2. CASE c.op = "disable"
            <4> DEFINE P == {PathOf(j) : j \in D}
            <4>1. disk' = Without(P) /\ D \subseteq RowsOf(c.skill)
                BY <1>2, <3>2
            <4> QED BY <4>1, RemovalKeeps
        <3> QED BY <1>1, <2>2, <3>1, <3>2
    <2> QED BY <2>1, <2>2
<1> QED BY <1>3, <1>5, <1>6, <1>7 DEF Behaves

------------------------------------------------------------------------------
(* Steps.                                                                    *)

\* What the step of a command that is executed gives to the theorems: the tab
\* that waits for it, if any, gets its answer.
Executes(c) ==
    /\ Behaves(c)
    /\ \/ \E w \in Tabs : call[w].cmd = c /\ call'[w] # call[w]
       \/ \E job \in lost : job.cmd = c

\* A step that executes no command of the page.
Leaves ==
    /\ UNCHANGED <<central, enabled, target>>
    /\ events' \in Nat
    /\ \/ disk' = disk
       \/ /\ UNCHANGED <<call, lost>>
          /\ disk' \in [Paths -> Contents \cup {"empty", "ours"}]

CallsKept == call' = [w \in Tabs |-> call'[w]]

LEMMA Answered ==
    ASSUME HubInv, NEW w \in Tabs, NEW result, Answer(w, result), call[w] # NoCall
    PROVE  CallsKept /\ call'[w] # call[w]
<1>1. call' = [call EXCEPT ![w] = NoCall]
    BY DEF Answer, Fail
<1> QED BY <1>1 DEF CallsKept, HubInv, LibraryTypes

LEMMA StepCases ==
    ASSUME HubInv, [Next]_vars
    PROVE  CallsKept /\ (Leaves \/ \E c : Executes(c))
<1>0. call = [w \in Tabs |-> call[w]] /\ events \in Nat /\ events + 1 \in Nat
    BY DEF HubInv, LibraryTypes
<1> USE DEF machine, library, page, work
<1>1. ASSUME NEW w \in Tabs, Run(w) PROVE CallsKept /\ \E c : Executes(c)
    <2>1. PICK result : /\ CommitJob(call[w].cmd, call[w].digest, result)
                        /\ Answer(w, result)
        BY <1>1 DEF Run
    <2>2. CallsKept /\ call'[w] # call[w]
        BY <1>1, <2>1, Answered DEF Run
    <2>3. Behaves(call[w].cmd)
        BY <2>1, CommandBehaves
    <2> QED BY <2>2, <2>3 DEF Executes
<1>2. ASSUME NEW w \in Tabs, Crash(w) PROVE CallsKept /\ \E c : Executes(c)
    <2>1. CallsKept /\ call'[w] # call[w]
        BY <1>2, Answered DEF Crash
    <2>2. Behaves(call[w].cmd)
        BY <1>2, CutBehaves DEF Crash
    <2> QED BY <2>1, <2>2 DEF Executes
<1>3. ASSUME RunLost PROVE CallsKept /\ \E c : Executes(c)
    <2>1. PICK job \in lost, result \in {"ok", "error"} :
              CommitJob(job.cmd, job.digest, result) /\ call' = call
        BY <1>3 DEF RunLost
    <2>2. Behaves(job.cmd)
        BY <2>1, CommandBehaves
    <2> QED BY <1>0, <2>1, <2>2 DEF Executes, CallsKept
<1>4. ASSUME NEW w \in Tabs, TabStep(w) PROVE CallsKept /\ Leaves
    <2>1. ASSUME NEW kind, NEW to, NEW commands, NEW failed, Start(w, kind, to, commands, failed)
          PROVE  CallsKept /\ Leaves
        BY <1>0, <2>1 DEF Start, CallsKept, Leaves
    <2>2. CASE \/ ToggleEnabled(w) \/ Delete(w) \/ BulkSync(w) \/ SyncAllNewTools(w)
               \/ ChangeScope(w) \/ ToggleTool(w) \/ Install(w) \/ Import(w)
        BY <2>1, <2>2
           DEF ToggleEnabled, Delete, BulkSync, SyncAllNewTools, ChangeScope, ToggleTool, Install,
               Import, Begin
    <2>3. CASE ScanExisting(w) \/ Reload(w)
        BY <1>0, <2>3 DEF ScanExisting, Reload, CallsKept, Leaves
    <2>4. CASE Preview(w)
        <3>1. PICK c \in todo[w] :
                  IF Refused(c) THEN Fail(w, c)
                  ELSE call' = [call EXCEPT ![w] = [cmd |-> c, digest |-> Fingerprint(c)]]
            BY <2>4 DEF Preview
        <3>2. CallsKept
            BY <1>0, <3>1 DEF Fail, CallsKept
        <3> QED BY <1>0, <2>4, <3>2 DEF Preview, Leaves
    <2>5. CASE LoseCall(w) \/ Cancel(w)
        <3>1. call[w] # NoCall /\ Answer(w, "error")
            BY <2>5 DEF LoseCall, Cancel
        <3>2. CallsKept
            BY <3>1, Answered
        <3> QED BY <1>0, <2>5, <3>2 DEF LoseCall, Cancel, Leaves
    <2>6. CASE Finish(w)
        BY <1>0, <2>6 DEF Finish, CallsKept, Leaves
    <2> QED BY <1>4, <2>2, <2>3, <2>4, <2>5, <2>6 DEF TabStep
<1>5. ASSUME Touch PROVE CallsKept /\ Leaves
    <2>1. disk' \in [Paths -> Contents \cup {"empty", "ours"}]
        BY <1>5 DEF Touch, HubInv, LibraryTypes
    <2> QED BY <1>0, <1>5, <2>1 DEF Touch, CallsKept, Leaves
<1>6. CASE UNCHANGED vars
    BY <1>0, <1>6 DEF vars, CallsKept, Leaves
<1> QED BY <1>1, <1>2, <1>3, <1>4, <1>5, <1>6 DEF Next, JobStep

LEMMA HubPreserved ==
    ASSUME HubInv, [Next]_vars PROVE HubInv'
<1>1. CallsKept
    BY StepCases
<1>2. CASE Leaves
    <2>1. Managed' = Managed
        BY <1>2 DEF Leaves, Managed
    <2> QED BY <1>1, <1>2, <2>1 DEF Leaves, CallsKept, HubInv, LibraryTypes, RowsAreManaged
<1>3. ASSUME NEW c, Executes(c) PROVE HubInv'
    BY <1>1, <1>3 DEF Executes, Behaves, Typed, CallsKept, HubInv, LibraryTypes
<1> QED BY <1>2, <1>3, StepCases

LEMMA InitHub ==
    ASSUME Init PROVE HubInv
<1>1. PICK R \in [Managed -> {{}, {Home}, Projects}] :
        LET rows == {k \in Rows : k[1] \in Managed /\ k[3] \in R[k[1]]
                                  /\ (k[3] = Home \/ k[2] \in Scoped)}
        IN  /\ target = [k \in Rows |-> IF k \in rows THEN "ok" ELSE "none"]
            /\ disk = [p \in Paths |-> IF \E k \in rows : PathOf(k) = p THEN "ours" ELSE "empty"]
    BY DEF Init
<1>2. target \in [Rows -> Statuses] /\ disk \in [Paths -> Contents \cup {"empty", "ours"}]
    BY <1>1 DEF Statuses
<1>3. RowsAreManaged
    BY <1>1 DEF RowsAreManaged
<1>4. DOMAIN central = Skills /\ events \in Nat /\ call = [w \in Tabs |-> call[w]]
    BY DEF Init
<1> QED BY <1>2, <1>3, <1>4 DEF HubInv, LibraryTypes

\* The library keeps its types, and every target row belongs to a skill that the
\* central repository has.
THEOREM RowsAreOfSkills == Spec => []HubInv
BY HubPreserved, InitHub, PTL DEF Spec

------------------------------------------------------------------------------
LEMMA ContentKeptByStep ==
    ASSUME HubInv, [Next]_vars, ByTheRunner, NEW p \in Paths,
           disk[p] \in Contents, disk'[p] # disk[p], disk[p] # central[p[1]]
    PROVE  \/ \E k \in Rows : PathOf(k) = p /\ target[k] = "disabled"
           \/ \E w \in Tabs : call'[w] # call[w] /\ call[w].cmd.overwrite
           \/ \E job \in lost : job.cmd.overwrite
<1>1. ~Leaves
    BY DEF Leaves, ByTheRunner
<1>2. PICK c : Executes(c)
    BY <1>1, StepCases
<1>3. (\E k \in Rows : PathOf(k) = p /\ target[k] = "disabled") \/ c.overwrite
    BY <1>2 DEF Executes, Behaves, Keeps
<1> QED BY <1>2, <1>3 DEF Executes

\* Content of the person's in a directory of a tool is only removed by the page
\* through the row of a disabled skill, or where an import takes it over
\* (check_owned_targets, sync_skill_to_tool).
THEOREM PersonsContentIsKept == Spec => OwnContentIsKept
<1>1. HubInv /\ [Next]_vars =>
          [ByTheRunner => \A p \in Paths :
              disk[p] \in Contents /\ disk'[p] # disk[p] /\ disk[p] # central[p[1]] =>
                 \/ \E k \in Rows : PathOf(k) = p /\ target[k] = "disabled"
                 \/ \E w \in Tabs : call'[w] # call[w] /\ call[w].cmd.overwrite
                 \/ \E job \in lost : job.cmd.overwrite]_vars
    BY ContentKeptByStep
<1> QED BY <1>1, RowsAreOfSkills, PTL DEF Spec, OwnContentIsKept

LEMMA InStepByStep ==
    ASSUME HubInv, [Next]_vars, ByTheRunner, events' = events, NEW k \in Rows, k[2] \in installed
    PROVE  /\ target'[k] = "ok" /\ disk[PathOf(k)] = "ours" => disk'[PathOf(k)] = "ours"
           /\ disk'[PathOf(k)] = "ours" /\ disk[PathOf(k)] # "ours" => target'[k] = "ok"
<1>1. CASE Leaves
    BY <1>1 DEF Leaves, ByTheRunner
<1>2. ASSUME NEW c, Executes(c) PROVE InStep
    BY <1>2 DEF Executes, Behaves
<1> QED BY <1>1, <1>2, StepCases DEF InStep

\* A command that was not cut short leaves the rows of detected tools and their
\* directories in step, though several tools read one directory
\* (runtime_tools_sharing_dir).
THEOREM RowsAndDiskInStep == Spec => RowsFollowDisk
<1>1. HubInv /\ [Next]_vars =>
          [ByTheRunner /\ events' = events => \A k \in Rows :
              k[2] \in installed =>
                 /\ target'[k] = "ok" /\ disk[PathOf(k)] = "ours" => disk'[PathOf(k)] = "ours"
                 /\ disk'[PathOf(k)] = "ours" /\ disk[PathOf(k)] # "ours" => target'[k] = "ok"]_vars
    BY InStepByStep
<1> QED BY <1>1, RowsAreOfSkills, PTL DEF Spec, RowsFollowDisk

------------------------------------------------------------------------------
\* A command that a handler of the page makes.
WellFormed(c) ==
    /\ c.op \in {"install", "import", "sync", "unsync", "enable", "disable", "delete"}
    /\ c.skill \in Skills
    /\ c.tool \in Tools \cup {None} /\ c.root \in Roots \cup {None}
    /\ IF c.op \in {"sync", "unsync"} THEN c.tool \in Tools /\ c.root \in Roots
                                     ELSE c.tool = None
    /\ c.stage = IF c.op = "sync" THEN 2 ELSE 1
    /\ c.op = "install" => c.from \in Contents
    /\ c.op = "import" => c.from \in Paths /\ c.from[1] = c.skill

\* No command of a handler undoes what one before it did: one that disables or deletes
\* a skill comes alone, and what is unsynchronized shares no directory with what is
\* synchronized after it.
Coherent(A) ==
    \A c, d \in A : c.skill = d.skill =>
        /\ c.op \in {"disable", "delete"} \/ d.op \in {"disable", "delete"} => c.op = d.op
        /\ c.op = "unsync" /\ d.op = "sync" /\ c.root = d.root =>
               Dir(c.tool, c.root) # Dir(d.tool, c.root)

\* The tabs are functions over the tabs.
Tabular ==
    /\ call = [w \in Tabs |-> call[w]] /\ todo = [w \in Tabs |-> todo[w]]
    /\ handler = [w \in Tabs |-> handler[w]] /\ asked = [w \in Tabs |-> asked[w]]
    /\ shown = [w \in Tabs |-> shown[w]] /\ detected = [w \in Tabs |-> detected[w]]
    /\ plan = [w \in Tabs |-> plan[w]]

\* What a tab shows and does.
TabTypes(w) ==
    /\ shown[w].managed \subseteq Skills /\ shown[w].enabled \subseteq Skills
    /\ detected[w] \subseteq Tools
    /\ plan[w] # None => DOMAIN plan[w] \subseteq Paths
    /\ handler[w] = [kind |-> handler[w].kind, scope |-> handler[w].scope,
                     failed |-> handler[w].failed]
    /\ handler[w].failed \in BOOLEAN
    /\ todo[w] \subseteq asked[w] /\ \A c \in asked[w] : WellFormed(c)
    /\ call[w] # NoCall => WellFormed(call[w].cmd)
    /\ call[w] # NoCall \/ asked[w] # {} => handler[w] # Idle

\* The library, with a source for every link.
Sources ==
    /\ central \in [Skills -> Contents \cup {None, "deleted"}]
    /\ enabled \subseteq Managed
    /\ \A p \in Paths : disk[p] = "ours" => central[p[1]] # None

\* The commands that were sent, the one that is waited for included.
Sent(w) == asked[w] \ todo[w]

Counts(c) == c.tool \in installed \cup {None}

\* A handler that is alone with the library and did not fail: what it has sent was done.
Progress(w) ==
    w \in quiet /\ ~handler[w].failed =>
        /\ handler[w] # Idle
        /\ Coherent(asked[w])
        /\ call[w] # NoCall =>
               /\ call[w].cmd \in Sent(w)
               /\ \A c \in Sent(w) : c.skill = call[w].cmd.skill => c.stage <= call[w].cmd.stage
        /\ \A c \in Sent(w), d \in todo[w] : c.skill = d.skill => c.stage <= d.stage
        /\ \A c \in Sent(w) : Counts(c) /\ (call[w] # NoCall => c # call[w].cmd) => Done(c)
        /\ \A c \in asked[w] : c.op = "import" => central[c.skill] # "deleted"
        /\ handler[w].kind = "toggle" =>
               \A c \in asked[w] : c.op = "enable" => Restore(w, c.skill) \subseteq asked[w]

PageInv ==
    /\ HubInv /\ Sources /\ Tabular
    /\ installed \subseteq Tools
    /\ \A job \in lost : WellFormed(job.cmd)
    /\ \A w \in Tabs : TabTypes(w) /\ Progress(w)

------------------------------------------------------------------------------
(* What a command does to the library and to what others did.                *)

LEMMA InstallsContent ==
    ASSUME HubInv, Sources, NEW c, WellFormed(c), c.op \in {"install", "import"}, ~Refused(c),
           central[c.skill] = None
    PROVE  (IF c.op = "import" THEN Seen(c.from) ELSE c.from) \in Contents
<1>1. CASE c.op = "install"
    BY <1>1 DEF WellFormed
<1>2. CASE c.op = "import"
    <2>1. c.from \in Paths /\ c.from[1] = c.skill /\ disk[c.from] # "empty"
        BY <1>2 DEF WellFormed, Refused
    <2>2. disk[c.from] # "ours"
        BY <2>1 DEF Sources
    <2> QED BY <1>2, <2>1, <2>2 DEF Seen, HubInv, LibraryTypes
<1> QED BY <1>1, <1>2

LEMMA LinksOnlyRemoved ==
    ASSUME HubInv, Sources, NEW P, disk' = Without(P),
           \A s \in Skills : central[s] # None => central'[s] # None
    PROVE  \A p \in Paths : disk'[p] = "ours" => central'[p[1]] # None
<1> SUFFICES ASSUME NEW p \in Paths, disk'[p] = "ours" PROVE central'[p[1]] # None
    OBVIOUS
<1>1. disk[p] = "ours"
    BY WithoutIsDisk DEF HubInv
<1>2. p[1] \in Skills
    BY DEF Paths, Path
<1> QED BY <1>1, <1>2 DEF Sources

LEMMA LinksAddedWithSource ==
    ASSUME HubInv, Sources, NEW q, q[1] \in Managed, disk' = [disk EXCEPT ![q] = "ours"],
           central' = central
    PROVE  \A p \in Paths : disk'[p] = "ours" => central'[p[1]] # None
BY DEF HubInv, LibraryTypes, Sources, Managed

LEMMA PathHead ==
    ASSUME NEW c PROVE PathOf(<<c.skill, c.tool, c.root>>)[1] = c.skill
BY DEF PathOf, Path

LEMMA CommitKeepsSources ==
    ASSUME HubInv, Sources, NEW c, WellFormed(c), NEW digest, NEW result,
           CommitJob(c, digest, result)
    PROVE  Sources'
<1>0. c.skill \in Skills
    BY DEF WellFormed
<1>1. ASSUME UNCHANGED <<central, enabled, disk>> PROVE Sources'
    BY <1>1 DEF Sources, Managed
<1>2. CASE Nothing(result, "error")
    BY <1>1, <1>2 DEF Nothing, library
<1>3. CASE ~Refused(c) /\ Execute(c, result)
    <2>1. CASE c.op = "sync" /\ SyncSkill(c, result)
        <3> DEFINE p == PathOf(<<c.skill, c.tool, c.root>>)
        <3>1. c.skill \in Managed /\ p[1] = c.skill
            BY <1>3, <2>1, PathHead DEF Refused
        <3>2. CASE UNCHANGED <<central, enabled, disk>>
            BY <1>1, <3>2
        <3>3. CASE disk' = [disk EXCEPT ![p] = "ours"] /\ UNCHANGED <<central, enabled>>
            <4>1. \A q \in Paths : disk'[q] = "ours" => central'[q[1]] # None
                BY <3>1, <3>3, LinksAddedWithSource
            <4> QED BY <3>3, <4>1 DEF Sources, Managed
        <3> QED BY <2>1, <3>2, <3>3 DEF SyncSkill, Nothing, library
    <2>2. CASE UnsyncSkill(c, result)
        <3>1. UNCHANGED <<central, enabled>> /\ (disk' = disk \/ \E P : disk' = Without(P))
            BY <2>2 DEF UnsyncSkill
        <3>2. ASSUME NEW P, disk' = Without(P) PROVE Sources'
            <4>1. \A q \in Paths : disk'[q] = "ours" => central'[q[1]] # None
                BY <3>1, <3>2, LinksOnlyRemoved
            <4> QED BY <3>1, <4>1 DEF Sources, Managed
        <3> QED BY <1>1, <3>1, <3>2
    <2>3. CASE DisableSkill(c.skill, result)
        <3>1. PICK P : disk' = Without(P) /\ central' = central /\ enabled' = enabled \ {c.skill}
            BY <2>3 DEF DisableSkill
        <3>2. \A q \in Paths : disk'[q] = "ours" => central'[q[1]] # None
            BY <3>1, LinksOnlyRemoved
        <3> QED BY <3>1, <3>2 DEF Sources, Managed
    <2>4. CASE EnableSkill(c.skill, result)
        BY <2>4 DEF EnableSkill, Sources, Managed
    <2>5. CASE DeleteSkill(c.skill, result)
        <3>1. PICK P : /\ disk' = Without(P)
                       /\ central' = [central EXCEPT ![c.skill] =
                                         IF c.skill \in Managed THEN "deleted" ELSE @]
                       /\ enabled' = enabled \ {c.skill}
            BY <2>5 DEF DeleteSkill
        <3>2. \A s \in Skills : central[s] # None => central'[s] # None
            BY <3>1, HubAssumption DEF Sources
        <3>3. \A q \in Paths : disk'[q] = "ours" => central'[q[1]] # None
            BY <3>1, <3>2, LinksOnlyRemoved
        <3>4. central' \in [Skills -> Contents \cup {None, "deleted"}]
            BY <3>1 DEF Sources
        <3>5. enabled' \subseteq Managed'
            BY <3>1 DEF Sources, Managed
        <3> QED BY <3>3, <3>4, <3>5 DEF Sources
    <2>6. CASE c.op \in {"install", "import"} /\ InstallSkill(c, result)
        <3> DEFINE x == IF c.op = "import" THEN Seen(c.from) ELSE c.from
        <3>1. CASE UNCHANGED <<central, enabled, disk>>
            BY <1>1, <3>1
        <3>2. CASE /\ central[c.skill] = None
                   /\ central' = [central EXCEPT ![c.skill] = x]
                   /\ enabled' = enabled \cup {c.skill} /\ disk' = disk
            <4>1. x \in Contents
                BY <1>3, <2>6, <3>2, InstallsContent
            <4>2. x \notin {None, "deleted"}
                BY <4>1, HubAssumption
            <4> HIDE DEF x
            <4>3. /\ central' \in [Skills -> Contents \cup {None, "deleted"}]
                  /\ enabled' \subseteq Managed'
                BY <1>0, <3>2, <4>1, <4>2 DEF Sources, Managed
            <4>4. \A q \in Paths : q[1] \in Skills
                BY DEF Paths, Path
            <4>5. \A q \in Paths : disk'[q] = "ours" => central'[q[1]] # None
                BY <3>2, <4>2, <4>4 DEF Sources
            <4> QED BY <4>3, <4>5 DEF Sources
        <3> QED BY <2>6, <3>1, <3>2 DEF InstallSkill, Nothing, library
    <2> QED BY <1>3, <2>1, <2>2, <2>3, <2>4, <2>5, <2>6 DEF Execute
<1> QED BY <1>2, <1>3 DEF CommitJob

LEMMA CutKeepsSources ==
    ASSUME HubInv, Sources, NEW c, ~Refused(c), CutShort(c)
    PROVE  Sources'
<1>1. UNCHANGED <<central, enabled>> /\ c.op \in {"sync", "unsync", "disable"}
    BY DEF CutShort
<1>2. \A q \in Paths : disk'[q] = "ours" => central'[q[1]] # None
    <2>1. CASE c.op = "sync"
        <3>1. disk' = [disk EXCEPT ![PathOf(<<c.skill, c.tool, c.root>>)] = "ours"]
            BY <2>1 DEF CutShort
        <3>2. c.skill \in Managed
            BY <2>1 DEF Refused
        <3> QED BY <1>1, <3>1, <3>2, PathHead, LinksAddedWithSource
    <2>2. CASE c.op # "sync"
        <3>1. PICK P : disk' = Without(P)
            BY <1>1, <2>2 DEF CutShort
        <3> QED BY <1>1, <3>1, LinksOnlyRemoved
    <2> QED BY <2>1, <2>2
<1> QED BY <1>1, <1>2 DEF Sources, Managed

\* The row and the path of a command that names a tool.
LEMMA RowOfCommand ==
    ASSUME NEW c, WellFormed(c), c.op \in {"sync", "unsync"}
    PROVE  /\ <<c.skill, c.tool, c.root>> \in Rows
           /\ PathOf(<<c.skill, c.tool, c.root>>) \in Paths
           /\ c.tool \in installed => <<c.skill, c.tool, c.root>> \in Group(c)
<1>1. <<c.skill, c.tool, c.root>> \in Rows
    BY DEF WellFormed, Rows
<1> QED BY <1>1, RowShape DEF Group, Sharing

\* What is answered with success was done.
LEMMA DoneAfter ==
    ASSUME HubInv, Sources, NEW c, WellFormed(c), Counts(c), NEW digest,
           c.op = "import" => central[c.skill] # "deleted",
           CommitJob(c, digest, "ok")
    PROVE  Done(c)'
<1> DEFINE k == <<c.skill, c.tool, c.root>>
           p == PathOf(k)
<1>0. ~Refused(c) /\ Execute(c, "ok") /\ c.skill \in Skills
    BY DEF CommitJob, Nothing, WellFormed
<1>1. CASE c.op = "sync" /\ SyncSkill(c, "ok")
    <2>1. k \in Rows /\ p \in Paths /\ c.tool \in installed /\ k \in Group(c)
        BY <1>1, RowOfCommand, HubAssumption DEF Counts, WellFormed
    <2>2. CASE target[k] = "ok" /\ disk[p] # "empty" /\ UNCHANGED library
        <3>1. Owned(c.skill) /\ k \in RowsOf(c.skill)
            BY <1>0, <1>1, <2>1, <2>2 DEF Refused, RowsOf
        <3>2. disk[p] = "ours"
            BY <2>2, <3>1 DEF Owned
        <3> QED BY <1>1, <2>2, <3>2 DEF Done, library
    <2>3. CASE disk' = [disk EXCEPT ![p] = "ours"] /\ target' = Mark(Group(c), "ok")
        <3>1. target'[k] = "ok"
            BY <2>1, <2>3, MarkIsRow DEF HubInv, Statuses
        <3>2. disk'[p] = "ours"
            BY <2>1, <2>3 DEF HubInv, LibraryTypes
        <3> QED BY <1>1, <3>1, <3>2 DEF Done
    <2> QED BY <1>1, <2>2, <2>3 DEF SyncSkill, Nothing
<1>2. CASE c.op = "unsync" /\ UnsyncSkill(c, "ok")
    <2>1. k \in Rows /\ k \in Group(c)
        BY <1>2, RowOfCommand, HubAssumption DEF Counts, WellFormed
    <2>2. target' = Mark(Unsynced(c), "none")
        BY <1>2 DEF UnsyncSkill
    <2>3. target'[k] = IF k \in Unsynced(c) THEN "none" ELSE target[k]
        BY <2>1, <2>2, MarkIsRow DEF HubInv, Statuses
    <2>4. target'[k] = "none"
        BY <2>1, <2>3 DEF Unsynced, RowsOf
    <2> QED BY <1>2, <2>4 DEF Done
<1>3. CASE c.op = "disable" /\ DisableSkill(c.skill, "ok")
    <2>1. target' = Mark(RowsOf(c.skill), "disabled") /\ enabled' = enabled \ {c.skill}
        BY <1>3 DEF DisableSkill
    <2>2. \A j \in Rows : target'[j] = IF j \in RowsOf(c.skill) THEN "disabled" ELSE target[j]
        BY <2>1, MarkIsRow DEF HubInv, Statuses
    <2>3. \A j \in RowsOf(c.skill)' : target'[j] = "disabled"
        BY <2>2 DEF RowsOf
    <2> QED BY <1>3, <2>1, <2>3 DEF Done
<1>4. CASE c.op = "enable" /\ EnableSkill(c.skill, "ok")
    <2>1. c.skill \in enabled'
        BY <1>4 DEF EnableSkill
    <2> QED BY <1>4, <2>1 DEF Done
<1>5. CASE c.op = "delete" /\ DeleteSkill(c.skill, "ok")
    <2>1. central' = [central EXCEPT ![c.skill] = IF c.skill \in Managed THEN "deleted" ELSE @]
        BY <1>5 DEF DeleteSkill
    <2>2. c.skill \notin Managed'
        BY <1>0, <2>1 DEF Managed, Sources
    <2> QED BY <1>5, <2>2 DEF Done
<1>6. CASE c.op \in {"install", "import"} /\ InstallSkill(c, "ok")
    <2> DEFINE x == IF c.op = "import" THEN Seen(c.from) ELSE c.from
    <2>1. c.skill \in Managed'
        <3>1. CASE central[c.skill] # None
            <4>1. c.op = "import" /\ UNCHANGED library
                BY <1>6, <3>1 DEF InstallSkill, Nothing
            <4> QED BY <1>0, <3>1, <4>1 DEF library, Managed
        <3>2. CASE central[c.skill] = None
            <4>1. x \in Contents
                BY <1>0, <1>6, <3>2, InstallsContent
            <4>2. x \notin {None, "deleted"}
                BY <4>1, HubAssumption
            <4>3. central' = [central EXCEPT ![c.skill] = x]
                BY <1>6, <3>2 DEF InstallSkill
            <4> HIDE DEF x
            <4> QED BY <1>0, <4>2, <4>3 DEF Managed, Sources
        <3> QED BY <3>1, <3>2
    <2> QED BY <1>6, <2>1 DEF Done
<1> QED BY <1>0, <1>1, <1>2, <1>3, <1>4, <1>5, <1>6 DEF Execute

\* A command leaves the skills of other names alone.
LEMMA OtherSkills ==
    ASSUME HubInv, Sources, NEW d, WellFormed(d), NEW digest, CommitJob(d, digest, "ok")
    PROVE  /\ \A k \in Rows : k[1] # d.skill =>
                  target'[k] = target[k] /\ disk'[PathOf(k)] = disk[PathOf(k)]
           /\ \A s \in Skills : s # d.skill =>
                  central'[s] = central[s] /\ (s \in enabled' <=> s \in enabled)
<1>0. /\ ~Refused(d) /\ Execute(d, "ok") /\ d.skill \in Skills
      /\ \A k \in Rows : PathOf(k) \in Paths /\ PathOf(k)[1] = k[1]
    BY RowShape DEF CommitJob, Nothing, WellFormed
<1>1. ASSUME NEW R, NEW status \in Statuses, target' = Mark(R, status),
             \A k \in R \cap Rows : k[1] = d.skill
      PROVE  \A k \in Rows : k[1] # d.skill => target'[k] = target[k]
    BY <1>1, MarkIsRow DEF HubInv
<1>2. ASSUME NEW P, disk' = Without(P), \A p \in P : \E k \in RowsOf(d.skill) : PathOf(k) = p
      PROVE  \A k \in Rows : k[1] # d.skill => disk'[PathOf(k)] = disk[PathOf(k)]
    <2> SUFFICES ASSUME NEW k \in Rows, k[1] # d.skill PROVE disk'[PathOf(k)] = disk[PathOf(k)]
        OBVIOUS
    <2>1. PathOf(k) \notin P
        BY <1>0, <1>2 DEF RowsOf
    <2> QED BY <1>0, <1>2, <2>1, WithoutIsDisk DEF HubInv
<1>3. \A k \in RowsOf(d.skill) : k \in Rows /\ k[1] = d.skill
    BY DEF RowsOf
<1>4. \A k \in Group(d) : k[1] = d.skill
    BY DEF Group
<1>5. CASE d.op = "sync" /\ SyncSkill(d, "ok")
    <2> DEFINE p == PathOf(<<d.skill, d.tool, d.root>>)
    <2>1. p[1] = d.skill
        BY PathHead
    <2>2. CASE UNCHANGED library
        BY <2>2 DEF library
    <2>3. CASE /\ disk' = [disk EXCEPT ![p] = "ours"] /\ target' = Mark(Group(d), "ok")
               /\ UNCHANGED <<central, enabled>>
        <3>1. \A k \in Rows : k[1] # d.skill => target'[k] = target[k]
            BY <1>1, <1>4, <2>3 DEF Statuses
        <3>2. \A k \in Rows : k[1] # d.skill => PathOf(k) # p
            BY <1>0, <2>1
        <3>3. \A k \in Rows : k[1] # d.skill => disk'[PathOf(k)] = disk[PathOf(k)]
            <4> HIDE DEF p
            <4> QED BY <1>0, <2>3, <3>2 DEF HubInv, LibraryTypes
        <3> QED BY <2>3, <3>1, <3>3
    <2> QED BY <1>5, <2>2, <2>3 DEF SyncSkill, Nothing
<1>6. CASE UnsyncSkill(d, "ok")
    <2> DEFINE P == {PathOf(k) : k \in Group(d) \cap RowsOf(d.skill)}
    <2>1. /\ disk' = Without(P) /\ target' = Mark(Unsynced(d), "none")
          /\ UNCHANGED <<central, enabled>>
        BY <1>6 DEF UnsyncSkill
    <2>2. \A k \in Rows : k[1] # d.skill => disk'[PathOf(k)] = disk[PathOf(k)]
        BY <1>2, <2>1
    <2>3. \A k \in Rows : k[1] # d.skill => target'[k] = target[k]
        BY <1>1, <1>3, <2>1 DEF Statuses, Unsynced
    <2> QED BY <2>1, <2>2, <2>3
<1>7. CASE DisableSkill(d.skill, "ok")
    <2> DEFINE P == {PathOf(k) : k \in {k \in RowsOf(d.skill) : target[k] # "disabled"}}
    <2>1. PICK F : /\ disk' = Without(P \ F) /\ target' = Mark(RowsOf(d.skill), "disabled")
                   /\ central' = central /\ enabled' = enabled \ {d.skill}
        BY <1>7 DEF DisableSkill
    <2>2. \A k \in Rows : k[1] # d.skill => disk'[PathOf(k)] = disk[PathOf(k)]
        BY <1>2, <2>1
    <2>3. \A k \in Rows : k[1] # d.skill => target'[k] = target[k]
        BY <1>1, <1>3, <2>1 DEF Statuses
    <2> QED BY <2>1, <2>2, <2>3
<1>8. CASE EnableSkill(d.skill, "ok")
    BY <1>8 DEF EnableSkill
<1>9. CASE DeleteSkill(d.skill, "ok")
    <2> DEFINE P == {PathOf(k) : k \in RowsOf(d.skill)}
    <2>1. PICK F : /\ disk' = Without(P \ F) /\ target' = Mark(RowsOf(d.skill), "none")
                   /\ central' = [central EXCEPT ![d.skill] =
                                     IF d.skill \in Managed THEN "deleted" ELSE @]
                   /\ enabled' = enabled \ {d.skill}
        BY <1>9 DEF DeleteSkill
    <2>2. \A k \in Rows : k[1] # d.skill => disk'[PathOf(k)] = disk[PathOf(k)]
        BY <1>2, <2>1
    <2>3. \A k \in Rows : k[1] # d.skill => target'[k] = target[k]
        BY <1>1, <1>3, <2>1 DEF Statuses
    <2> QED BY <2>1, <2>2, <2>3 DEF Sources
<1>10. CASE InstallSkill(d, "ok")
    BY <1>10 DEF InstallSkill, Nothing, library, Sources
<1> QED BY <1>0, <1>5, <1>6, <1>7, <1>8, <1>9, <1>10 DEF Execute

\* Two commands of one handler, the second of which may be sent after the first.
InOrder(c, d) ==
    c.skill = d.skill =>
        /\ c.op \in {"disable", "delete"} \/ d.op \in {"disable", "delete"} => c.op = d.op
        /\ c.op = "unsync" /\ d.op = "sync" /\ c.root = d.root =>
               Dir(c.tool, c.root) # Dir(d.tool, c.root)
        /\ c.stage <= d.stage

LEMMA SourceStays ==
    ASSUME HubInv, Sources, NEW d, WellFormed(d), d.op # "delete",
           ~Refused(d), Execute(d, "ok")
    PROVE  Managed \subseteq Managed'
<1>1. d.op \notin {"install", "import"} => central' = central
    BY DEF Execute, SyncSkill, UnsyncSkill, DisableSkill, EnableSkill, Nothing, library
<1>2. d.op \in {"install", "import"} =>
          \/ central' = central
          \/ /\ central[d.skill] = None
             /\ central' = [central EXCEPT ![d.skill] =
                               IF d.op = "import" THEN Seen(d.from) ELSE d.from]
    BY DEF Execute, InstallSkill, Nothing, library
<1> QED BY <1>1, <1>2 DEF Managed, Sources

\* What was done stays done while the handler goes on.
LEMMA DoneKept ==
    ASSUME HubInv, Sources, NEW c, WellFormed(c), Done(c), Counts(c),
           NEW d, WellFormed(d), InOrder(c, d), NEW digest, CommitJob(d, digest, "ok")
    PROVE  Done(c)'
<1> DEFINE k == <<c.skill, c.tool, c.root>>
           p == PathOf(k)
<1>0. ~Refused(d) /\ Execute(d, "ok") /\ c.skill \in Skills /\ d.skill \in Skills
    BY DEF CommitJob, Nothing, WellFormed
<1>1. CASE c.skill # d.skill
    <2>1. CASE c.op \in {"sync", "unsync"}
        <3>1. k \in Rows /\ k[1] = c.skill
            BY <2>1, RowOfCommand
        <3>2. target'[k] = target[k] /\ disk'[p] = disk[p]
            BY <1>1, <3>1, OtherSkills
        <3> QED BY <2>1, <3>2 DEF Done
    <2>2. CASE c.op = "disable"
        <3>1. \A j \in RowsOf(c.skill)' : j \in RowsOf(c.skill) /\ target'[j] = target[j]
            BY <1>1, OtherSkills DEF RowsOf
        <3>2. c.skill \notin enabled'
            BY <1>0, <1>1, <2>2, OtherSkills DEF Done
        <3> QED BY <2>2, <3>1, <3>2 DEF Done
    <2>3. CASE c.op \notin {"sync", "unsync", "disable"}
        <3>1. central'[c.skill] = central[c.skill] /\ (c.skill \in enabled' <=> c.skill \in enabled)
            BY <1>0, <1>1, OtherSkills
        <3> QED BY <2>3, <3>1 DEF Done, Managed
    <2> QED BY <2>1, <2>2, <2>3
<1>2. CASE c.skill = d.skill /\ c.op \in {"disable", "delete"}
    <2>1. d.op = c.op /\ Counts(d)
        BY <1>2 DEF InOrder, WellFormed, Counts
    <2>2. Done(d)'
        BY <1>2, <2>1, DoneAfter
    <2> QED BY <1>2, <2>1, <2>2 DEF Done
<1>3. CASE c.skill = d.skill /\ c.op \notin {"disable", "delete"}
    <2>0. d.op \notin {"disable", "delete"}
        BY <1>3 DEF InOrder
    <2>1. Managed \subseteq Managed'
        BY <1>0, <2>0, SourceStays
    <2>2. enabled \subseteq enabled'
        BY <1>0, <2>0
           DEF Execute, SyncSkill, UnsyncSkill, EnableSkill, InstallSkill, Nothing, library
    <2>3. CASE c.op = "sync"
        <3>1. k \in Rows /\ p \in Paths /\ target[k] = "ok" /\ disk[p] = "ours"
            BY <2>3, RowOfCommand DEF Done
        <3>2. d.op # "unsync"
            BY <1>3, <2>3 DEF InOrder, WellFormed
        <3>3. CASE d.op = "sync" /\ SyncSkill(d, "ok")
            <4> DEFINE q == PathOf(<<d.skill, d.tool, d.root>>)
            <4>1. CASE UNCHANGED library
                BY <2>3, <3>1, <4>1 DEF Done, library
            <4>2. CASE disk' = [disk EXCEPT ![q] = "ours"] /\ target' = Mark(Group(d), "ok")
                <5> HIDE DEF q
                <5>1. disk'[p] = "ours"
                    BY <3>1, <4>2 DEF HubInv, LibraryTypes
                <5>2. target'[k] = "ok"
                    BY <3>1, <4>2, MarkIsRow DEF HubInv, Statuses
                <5> QED BY <2>3, <5>1, <5>2 DEF Done
            <4> QED BY <3>3, <4>1, <4>2 DEF SyncSkill, Nothing
        <3>4. CASE d.op \in {"install", "import", "enable"}
            <4>1. UNCHANGED <<target, disk>>
                BY <1>0, <3>4 DEF Execute, EnableSkill, InstallSkill, Nothing, library
            <4> QED BY <2>3, <3>1, <4>1 DEF Done
        <3> QED BY <1>0, <2>0, <3>2, <3>3, <3>4 DEF WellFormed, Execute
    <2>4. CASE c.op = "unsync"
        <3>1. k \in Rows /\ target[k] = "none" /\ k[1] = c.skill /\ k[2] = c.tool /\ k[3] = c.root
            BY <2>4, RowOfCommand DEF Done
        <3>2. target'[k] = "none"
            <4>1. CASE UNCHANGED target
                BY <3>1, <4>1
            <4>2. CASE d.op = "sync" /\ target' = Mark(Group(d), "ok")
                <5>1. k \notin Group(d)
                    <6>1. ASSUME NEW u \in Sharing(d.tool, d.root), k = <<d.skill, u, d.root>>
                          PROVE  FALSE
                        <7>1. /\ u = c.tool /\ c.root = d.root
                              /\ Dir(c.tool, c.root) = Dir(d.tool, c.root)
                            BY <3>1, <6>1 DEF Sharing
                        <7> QED BY <1>3, <2>4, <4>2, <7>1 DEF InOrder
                    <6> QED BY <6>1 DEF Group
                <5> QED BY <3>1, <4>2, <5>1, MarkIsRow DEF HubInv, Statuses
            <4>3. CASE target' = Mark(Unsynced(d), "none")
                BY <3>1, <4>3, MarkIsRow DEF HubInv, Statuses
            <4> QED BY <1>0, <2>0, <4>1, <4>2, <4>3
                    DEF Execute, SyncSkill, UnsyncSkill, EnableSkill, InstallSkill, Nothing, library
        <3> QED BY <2>4, <3>2 DEF Done
    <2>5. CASE c.op \notin {"sync", "unsync"}
        BY <1>3, <2>1, <2>2, <2>5 DEF Done, WellFormed
    <2> QED BY <2>3, <2>4, <2>5
<1> QED BY <1>1, <1>2, <1>3

------------------------------------------------------------------------------
(* The lists of commands.                                                    *)

\* A list with nothing to undo, and a list of one kind.
LEMMA GrowingIsCoherent ==
    ASSUME NEW A, \A c \in A : c.op \in {"enable", "install", "import", "sync"}
    PROVE  Coherent(A)
BY DEF Coherent

LEMMA AlikeIsCoherent ==
    ASSUME NEW A, NEW op, \A c \in A : c.op = op
    PROVE  Coherent(A)
BY DEF Coherent

\* What a handler may start with.
Startable(kind, w, commands) ==
    /\ kind # "idle"
    /\ Coherent(commands)
    /\ \A c \in commands : WellFormed(c)
    /\ \A c \in commands : c.op = "import" => central[c.skill] # "deleted"
    /\ kind = "toggle" =>
           \A c \in commands : c.op = "enable" => Restore(w, c.skill) \subseteq commands

LEMMA WholeIsWellFormed ==
    ASSUME NEW s \in Skills, NEW op \in {"enable", "disable", "delete"}
    PROVE  /\ WellFormed(Whole(op, s)) /\ Whole(op, s).op = op /\ Whole(op, s).skill = s
BY DEF Whole, Command, WellFormed

LEMMA SyncIsWellFormed ==
    ASSUME NEW s \in Skills, NEW t \in Tools, NEW r \in Roots, NEW try
    PROVE  /\ WellFormed(Sync(s, t, r, try)) /\ Sync(s, t, r, try).op = "sync"
           /\ Sync(s, t, r, try).skill = s
           /\ Sync(s, t, r, try).tool = t /\ Sync(s, t, r, try).root = r
BY DEF Sync, Command, WellFormed

LEMMA UnsyncIsWellFormed ==
    ASSUME NEW s \in Skills, NEW t \in Tools, NEW r \in Roots, NEW try
    PROVE  /\ WellFormed(Unsync(s, t, r, try)) /\ Unsync(s, t, r, try).op = "unsync"
           /\ Unsync(s, t, r, try).skill = s
           /\ Unsync(s, t, r, try).tool = t /\ Unsync(s, t, r, try).root = r
BY DEF Unsync, Command, WellFormed

LEMMA RestoreSyncs ==
    ASSUME NEW w, NEW s \in Skills, NEW c \in Restore(w, s)
    PROVE  WellFormed(c) /\ c.op = "sync"
<1>1. PICK k \in Rows : c = Sync(s, k[2], k[3], s)
    BY DEF Restore, Shown
<1> QED BY <1>1, RowShape, SyncIsWellFormed

\* The roots of a skill, and the rows in its scope.
LEMMA RootsAreRoots ==
    ASSUME NEW w, NEW s
    PROVE  RootsOf(w, s) \subseteq Roots /\ ((ScopeOf(w, s) = "global") => RootsOf(w, s) = {Home})
           /\ ((ScopeOf(w, s) # "global") => Home \notin RootsOf(w, s))
<1>1. ProjectsOf(w, s) \subseteq Roots /\ Home \notin ProjectsOf(w, s) /\ Home \in Roots
    BY RowShape DEF ProjectsOf, Shown, Roots
<1> HIDE DEF ProjectsOf, ScopeOf
<1> QED BY <1>1 DEF RootsOf

LEMMA TogglingStarts ==
    ASSUME NEW w, NEW S \in SUBSET Skills
    PROVE  Startable("toggle", w, Toggling(w, S))
<1>1. CASE Enabling(w, S)
    <2> DEFINE A == {Whole("enable", s) : s \in S} \cup UNION {Restore(w, s) : s \in S}
    <2>1. Toggling(w, S) = A
        BY <1>1 DEF Toggling
    <2>2. \A c \in A : WellFormed(c) /\ c.op \in {"enable", "sync"}
        <3>1. \A s \in S : \A c \in Restore(w, s) : WellFormed(c) /\ c.op = "sync"
            BY RestoreSyncs
        <3>2. \A s \in S : WellFormed(Whole("enable", s)) /\ Whole("enable", s).op = "enable"
            BY WholeIsWellFormed
        <3> QED BY <3>1, <3>2
    <2>3. ASSUME NEW c \in A, c.op = "enable" PROVE Restore(w, c.skill) \subseteq A
        <3>1. \A s \in S : \A d \in Restore(w, s) : d.op = "sync"
            BY RestoreSyncs
        <3>2. PICK s \in S : c = Whole("enable", s)
            BY <2>3, <3>1
        <3>3. c.skill = s
            BY <3>2, WholeIsWellFormed
        <3> QED BY <3>3
    <2>4. Coherent(A)
        <3> HIDE DEF A
        <3> QED BY <2>2, GrowingIsCoherent
    <2> HIDE DEF A
    <2> QED BY <2>1, <2>2, <2>3, <2>4 DEF Startable
<1>2. CASE ~Enabling(w, S)
    <2> DEFINE A == {Whole("disable", s) : s \in S \cap shown[w].enabled}
    <2>1. Toggling(w, S) = A
        BY <1>2 DEF Toggling
    <2>2. \A c \in A : WellFormed(c) /\ c.op = "disable"
        BY WholeIsWellFormed
    <2>3. Coherent(A)
        <3> HIDE DEF A
        <3> QED BY <2>2, AlikeIsCoherent
    <2> HIDE DEF A
    <2> QED BY <2>1, <2>2, <2>3 DEF Startable
<1> QED BY <1>1, <1>2

LEMMA DeletingStarts ==
    ASSUME NEW w, NEW S \in SUBSET Skills
    PROVE  Startable("delete", w, Deleting(S))
<1>1. \A c \in Deleting(S) : WellFormed(c) /\ c.op = "delete"
    BY WholeIsWellFormed DEF Deleting
<1>2. Coherent(Deleting(S))
    BY <1>1, AlikeIsCoherent
<1> QED BY <1>1, <1>2 DEF Startable

LEMMA BulkSyncingStarts ==
    ASSUME NEW w, NEW S \in SUBSET Skills, NEW T, detected[w] \subseteq Tools
    PROVE  Startable("bulkSync", w, BulkSyncing(w, S, T))
<1> DEFINE U(s, k) == Unsync(s, k[2], k[3], k)
           Y(s, t, r) == Sync(s, t, r, <<s, t>>)
           A == BulkSyncing(w, S, T)
           Gone(s) == {k \in InScope(w, s) : k[2] \in Usable(w, s) \ WithSharing(w, s, T)}
           Chosen(s) == Usable(w, s) \cap WithSharing(w, s, T)
<1>0. \A s \in S : Usable(w, s) \subseteq Tools
    BY DEF Usable
<1>1. \A s \in S : \A k \in Gone(s) :
          /\ k \in Rows /\ (k[3] = Home) = (ScopeOf(w, s) = "global")
          /\ k[2] \notin WithSharing(w, s, T)
          /\ k[2] \in Tools /\ k[3] \in Roots
    BY RowShape DEF InScope, Shown
<1>2. ASSUME NEW c \in A
      PROVE  \E s \in S :
                \/ \E k \in Gone(s) : c = U(s, k)
                \/ \E t \in Chosen(s), r \in RootsOf(w, s) : c = Y(s, t, r)
    BY DEF BulkSyncing
<1> HIDE DEF A, U, Y, Gone, Chosen
<1>3. ASSUME NEW s \in S, NEW k \in Gone(s)
      PROVE  /\ WellFormed(U(s, k)) /\ U(s, k).op = "unsync" /\ U(s, k).skill = s
             /\ U(s, k).tool = k[2] /\ U(s, k).root = k[3]
    <2>1. s \in Skills /\ k[2] \in Tools /\ k[3] \in Roots
        BY <1>1
    <2> QED BY <2>1, UnsyncIsWellFormed DEF U
<1>4. ASSUME NEW s \in S, NEW t \in Chosen(s), NEW r \in RootsOf(w, s)
      PROVE  /\ WellFormed(Y(s, t, r)) /\ Y(s, t, r).op = "sync" /\ Y(s, t, r).skill = s
             /\ Y(s, t, r).tool = t /\ Y(s, t, r).root = r
    <2>1. s \in Skills /\ t \in Tools /\ r \in Roots
        BY <1>0, RootsAreRoots DEF Chosen
    <2> QED BY <2>1, SyncIsWellFormed DEF Y
<1>5. \A c \in A : WellFormed(c) /\ c.op \in {"sync", "unsync"}
    BY <1>2, <1>3, <1>4
<1>6. ASSUME NEW c \in A, NEW d \in A, c.skill = d.skill, c.op = "unsync", d.op = "sync",
             c.root = d.root
      PROVE  Dir(c.tool, c.root) # Dir(d.tool, c.root)
    <2>1. PICK s \in S : \E k \in Gone(s) : c = U(s, k)
        BY <1>2, <1>4, <1>6
    <2>a. PICK k \in Gone(s) : c = U(s, k)
        BY <2>1
    <2>2. PICK z \in S : \E t \in Chosen(z), r \in RootsOf(w, z) : d = Y(z, t, r)
        BY <1>2, <1>3, <1>6
    <2>b. PICK t \in Chosen(z), r \in RootsOf(w, z) : d = Y(z, t, r)
        BY <2>2
    <2>3. z = s /\ c.tool = k[2] /\ c.root = k[3] /\ d.tool = t /\ d.root = k[3]
        BY <1>3, <1>4, <1>6, <2>a, <2>b
    <2>4. t \in WithSharing(w, s, T) /\ k[2] \notin WithSharing(w, s, T) /\ k[2] \in Tools
        BY <1>1, <2>3 DEF Chosen
    <2>5. PICK u \in T : IF ScopeOf(w, s) = "global" THEN HomeDir[t] = HomeDir[u]
                                                     ELSE ProjectDir[t] = ProjectDir[u]
        BY <2>4 DEF WithSharing
    <2>6. IF ScopeOf(w, s) = "global" THEN HomeDir[k[2]] # HomeDir[u]
                                      ELSE ProjectDir[k[2]] # ProjectDir[u]
        BY <2>4 DEF WithSharing
    <2>7. (k[3] = Home) = (ScopeOf(w, s) = "global")
        BY <1>1
    <2> QED BY <2>3, <2>5, <2>6, <2>7 DEF Dir
<1>7. Coherent(A)
    BY <1>5, <1>6 DEF Coherent
<1> QED BY <1>5, <1>7 DEF Startable, A

LEMMA SyncingAllStarts ==
    ASSUME NEW w, NEW T, shown[w].managed \subseteq Skills, detected[w] \subseteq Tools
    PROVE  Startable("syncAll", w, SyncingAll(w, T))
<1>1. ASSUME NEW c \in SyncingAll(w, T) PROVE WellFormed(c) /\ c.op = "sync"
    <2>0. PICK s \in shown[w].managed :
              c \in {Sync(s, t, r, <<s, t>>) :
                        t \in OnePerDir(T, Home) \cap Usable(w, s), r \in RootsOf(w, s)}
        BY DEF SyncingAll
    <2>1. PICK t \in Usable(w, s), r \in RootsOf(w, s) : c = Sync(s, t, r, <<s, t>>)
        BY <2>0
    <2>2. t \in Tools /\ r \in Roots
        BY RootsAreRoots DEF Usable
    <2> QED BY <2>1, <2>2, SyncIsWellFormed
<1>2. Coherent(SyncingAll(w, T))
    BY <1>1, GrowingIsCoherent
<1> QED BY <1>1, <1>2 DEF Startable

LEMMA RescopingStarts ==
    ASSUME NEW w, NEW s \in Skills, NEW R \in SUBSET Roots, detected[w] \subseteq Tools
    PROVE  Startable("scope", w, Rescoping(w, s, R))
<1> DEFINE A == Rescoping(w, s, R)
<1>1. ASSUME NEW c \in A
      PROVE  /\ WellFormed(c)
             /\ \/ c.op = "unsync" /\ c.root \notin R
                \/ c.op = "sync" /\ c.root \in R
    <2>1. CASE \E k \in Shown(w, s) : k[3] \notin R /\ c = Unsync(s, k[2], k[3], s)
        <3>1. PICK k \in Rows : k[3] \notin R /\ c = Unsync(s, k[2], k[3], s)
            BY <2>1 DEF Shown
        <3> QED BY <3>1, RowShape, UnsyncIsWellFormed
    <2>2. CASE \E t \in Tools, r \in R : c = Sync(s, t, r, s)
        BY <2>2, SyncIsWellFormed
    <2> QED BY <2>1, <2>2 DEF Rescoping
<1> HIDE DEF A
<1>2. Coherent(A)
    BY <1>1 DEF Coherent
<1> QED BY <1>1, <1>2 DEF Startable, A

LEMMA TogglingToolStarts ==
    ASSUME NEW w, NEW s \in Skills, NEW t \in Tools
    PROVE  Startable("toggleTool", w, TogglingTool(w, s, t))
<1> DEFINE A == TogglingTool(w, s, t)
<1>1. CASE Synced(w, s, t)
    <2>1. ASSUME NEW c \in A PROVE WellFormed(c) /\ c.op = "unsync"
        <3>1. PICK k \in Rows : c = Unsync(s, t, k[3], s)
            BY <1>1 DEF TogglingTool, InScope, Shown
        <3> QED BY <3>1, RowShape, UnsyncIsWellFormed
    <2>2. Coherent(A)
        BY <2>1, AlikeIsCoherent
    <2> QED BY <2>1, <2>2 DEF Startable
<1>2. CASE ~Synced(w, s, t)
    <2>1. ASSUME NEW c \in A PROVE WellFormed(c) /\ c.op = "sync"
        <3>1. PICK r \in RootsOf(w, s) : c = Sync(s, t, r, s)
            BY <1>2 DEF TogglingTool
        <3> QED BY <3>1, RootsAreRoots, SyncIsWellFormed
    <2>2. Coherent(A)
        BY <2>1, AlikeIsCoherent
    <2> QED BY <2>1, <2>2 DEF Startable
<1> QED BY <1>1, <1>2

LEMMA InstallingStarts ==
    ASSUME NEW w, NEW s \in Skills, NEW x \in Offered, NEW R \in SUBSET Roots,
           NEW T \in SUBSET Tools
    PROVE  Startable("install", w, Installing(s, x, R, T))
<1> DEFINE A == Installing(s, x, R, T)
           i == [Whole("install", s) EXCEPT !.from = x]
<1>1. WellFormed(i) /\ i.op = "install"
    BY HubAssumption DEF Whole, Command, WellFormed
<1>2. ASSUME NEW c \in A, c # i PROVE WellFormed(c) /\ c.op = "sync"
    <2>1. PICK t \in T, r \in R : c = Sync(s, t, r, <<s, t, r>>)
        BY <1>2 DEF Installing, OnePerDir
    <2> QED BY <2>1, SyncIsWellFormed
<1> HIDE DEF A, i
<1>3. \A c \in A : WellFormed(c) /\ c.op \in {"install", "sync"}
    BY <1>1, <1>2
<1>4. Coherent(A)
    BY <1>3, GrowingIsCoherent
<1> QED BY <1>3, <1>4 DEF Startable, A

LEMMA ImportingStarts ==
    ASSUME NEW w, NEW p \in Paths, NEW T \in SUBSET Tools, central[p[1]] # "deleted"
    PROVE  Startable("import", w, Importing(w, p[1], p, T))
<1> DEFINE s == p[1]
           A == Importing(w, s, p, T)
           i == [Whole("import", s) EXCEPT !.from = p]
<1>0. s \in Skills /\ Home \in Roots
    BY DEF Paths, Path, Roots
<1>1. WellFormed(i) /\ i.op = "import" /\ i.skill = s
    BY <1>0 DEF Whole, Command, WellFormed
<1>2. ASSUME NEW c \in A, c # i PROVE WellFormed(c) /\ c.op = "sync"
    <2>1. PICK t \in T : \E b : c = [Sync(s, t, Home, <<s, t>>) EXCEPT !.overwrite = b]
        BY <1>2 DEF Importing, OnePerDir
    <2> QED BY <1>0, <2>1 DEF Sync, Command, WellFormed
<1> HIDE DEF A, i
<1>3. \A c \in A : WellFormed(c) /\ c.op \in {"import", "sync"}
    BY <1>1, <1>2
<1>4. Coherent(A)
    BY <1>3, GrowingIsCoherent
<1>5. \A c \in A : c.op = "import" => central[c.skill] # "deleted"
    BY <1>1, <1>2
<1> QED BY <1>3, <1>4, <1>5 DEF Startable, A

------------------------------------------------------------------------------
(* Steps of the page.                                                        *)

\* A tab in which nothing happens.
SameTab(v) ==
    /\ shown'[v] = shown[v] /\ detected'[v] = detected[v] /\ plan'[v] = plan[v]
    /\ todo'[v] = todo[v] /\ call'[v] = call[v]
    /\ handler'[v] = handler[v] /\ asked'[v] = asked[v]

LEMMA DoneInSameLibrary ==
    ASSUME UNCHANGED library, NEW c PROVE Done(c)' <=> Done(c)
BY DEF library, Done, RowsOf, Managed

LEMMA TabKept ==
    ASSUME NEW v \in Tabs, TabTypes(v), Progress(v), SameTab(v),
           v \in quiet' => v \in quiet /\ UNCHANGED <<library, installed>>
    PROVE  TabTypes(v)' /\ Progress(v)'
<1>1. TabTypes(v)'
    BY DEF TabTypes, SameTab, WellFormed
<1>2. Progress(v)'
    <2> SUFFICES ASSUME v \in quiet', ~handler'[v].failed PROVE Progress(v)'
        BY DEF Progress
    <2>1. v \in quiet /\ ~handler[v].failed /\ UNCHANGED library /\ installed' = installed
        BY DEF SameTab
    <2>2. Sent(v)' = Sent(v)
        BY DEF Sent, SameTab
    <2>3. \A c : (Done(c)' <=> Done(c)) /\ (Counts(c)' <=> Counts(c))
        BY <2>1, DoneInSameLibrary DEF Counts
    <2>4. \A s : Restore(v, s)' = Restore(v, s)
        BY DEF Restore, Shown, SameTab
    <2>5. Coherent(asked[v])' <=> Coherent(asked[v])
        BY DEF Coherent, SameTab
    <2>6. central' = central
        BY <2>1 DEF library
    <2> QED BY <2>1, <2>2, <2>3, <2>4, <2>5, <2>6 DEF Progress, SameTab
<1> QED BY <1>1, <1>2

\* What remains for a step of the tab w, the library apart.
Rest(w) ==
    /\ Tabular' /\ installed' \subseteq Tools
    /\ \A job \in lost' : WellFormed(job.cmd)
    /\ \A v \in Tabs \ {w} :
        SameTab(v) /\ (v \in quiet' => v \in quiet /\ UNCHANGED <<library, installed>>)

LEMMA PageByTab ==
    ASSUME PageInv, HubInv', Sources', NEW w \in Tabs, Rest(w), TabTypes(w)', Progress(w)'
    PROVE  PageInv'
<1>1. ASSUME NEW v \in Tabs PROVE TabTypes(v)' /\ Progress(v)'
    <2>1. CASE v # w
        <3>1. SameTab(v) /\ (v \in quiet' => v \in quiet /\ UNCHANGED <<library, installed>>)
            BY <2>1 DEF Rest
        <3>2. TabTypes(v) /\ Progress(v)
            BY DEF PageInv
        <3> QED BY <3>1, <3>2, TabKept
    <2> QED BY <2>1
<1>2. \A job \in lost' : WellFormed(job.cmd)
    BY DEF Rest
<1> QED BY <1>1, <1>2 DEF PageInv, Rest, WellFormed

LEMMA SourcesInSameLibrary ==
    ASSUME Sources, UNCHANGED library PROVE Sources'
BY DEF Sources, library, Managed

LEMMA StartKeeps ==
    ASSUME PageInv, HubInv', NEW w \in Tabs, NEW kind, NEW to, NEW commands, NEW failed \in BOOLEAN,
           Start(w, kind, to, commands, failed), Startable(kind, w, commands)
    PROVE  PageInv'
<1> DEFINE h == [kind |-> kind, scope |-> to, failed |-> failed]
<1>1. /\ handler[w] = Idle
      /\ handler' = [handler EXCEPT ![w] = h]
      /\ todo' = [todo EXCEPT ![w] = commands] /\ asked' = [asked EXCEPT ![w] = commands]
      /\ quiet' = quiet \cup {w}
      /\ UNCHANGED <<central, enabled, target, disk, installed, shown, detected, scope, plan,
                     call, lost>>
    BY DEF Start, machine, library, page
<1>2. /\ h.kind = kind /\ h.failed = failed /\ h # Idle
      /\ h = [kind |-> h.kind, scope |-> h.scope, failed |-> h.failed]
    BY DEF Startable, Idle
<1>3. /\ Tabular /\ TabTypes(w) /\ Sources /\ installed \subseteq Tools
      /\ \A job \in lost : WellFormed(job.cmd)
    BY DEF PageInv
<1> HIDE DEF h
<1>4. /\ handler'[w] = h /\ todo'[w] = commands /\ asked'[w] = commands /\ call'[w] = call[w]
      /\ call[w] = NoCall
    BY <1>1, <1>3 DEF Tabular, TabTypes
<1>5. Rest(w)
    BY <1>1, <1>3 DEF Rest, Tabular, SameTab, library, WellFormed
<1>6. Sources'
    BY <1>1, <1>3, SourcesInSameLibrary DEF library
<1>7. TabTypes(w)'
    BY <1>1, <1>2, <1>3, <1>4 DEF TabTypes, Startable, WellFormed
<1>8. Progress(w)'
    <2>1. Sent(w)' = {}
        BY <1>4 DEF Sent
    <2>2. \A s : Restore(w, s)' = Restore(w, s)
        BY <1>1 DEF Restore, Shown
    <2>3. Coherent(asked[w])'
        BY <1>4 DEF Coherent, Startable
    <2> QED BY <1>1, <1>2, <1>4, <2>1, <2>2, <2>3 DEF Progress, Startable
<1> QED BY <1>5, <1>6, <1>7, <1>8, PageByTab

\* Every handler starts with a list that can be worked off.
LEMMA HandlersStart ==
    ASSUME PageInv, HubInv', NEW w \in Tabs,
           \/ ToggleEnabled(w) \/ Delete(w) \/ BulkSync(w) \/ SyncAllNewTools(w)
           \/ ChangeScope(w) \/ ToggleTool(w) \/ Install(w) \/ Import(w)
    PROVE  PageInv'
<1>0. /\ shown[w].managed \subseteq Skills /\ detected[w] \subseteq Tools
      /\ plan[w] # None => DOMAIN plan[w] \subseteq Paths
      /\ Home \in Roots /\ Projects \subseteq Roots
    BY DEF PageInv, TabTypes, Roots
<1>1. ASSUME NEW kind, NEW to, NEW commands, NEW failed \in BOOLEAN,
             Start(w, kind, to, commands, failed), Startable(kind, w, commands)
      PROVE  PageInv'
    BY <1>1, StartKeeps
<1> DEFINE Starts(kind, commands) ==
        /\ Startable(kind, w, commands)
        /\ \E to, failed : failed \in BOOLEAN /\ Start(w, kind, to, commands, failed)
<1>2. ASSUME NEW kind, NEW commands, Starts(kind, commands) PROVE PageInv'
    BY <1>1, <1>2
<1>3. CASE ToggleEnabled(w)
    <2>1. PICK S \in SUBSET Skills : Begin(w, "toggle", Toggling(w, S), FALSE)
        BY <1>0, <1>3 DEF ToggleEnabled, Selections
    <2>2. Starts("toggle", Toggling(w, S))
        BY <2>1, TogglingStarts DEF Begin
    <2> QED BY <1>2, <2>2
<1>4. CASE Delete(w)
    <2>1. PICK S \in SUBSET Skills : Begin(w, "delete", Deleting(S), FALSE)
        BY <1>0, <1>4 DEF Delete, Selections
    <2>2. Starts("delete", Deleting(S))
        BY <2>1, DeletingStarts DEF Begin
    <2> QED BY <1>2, <2>2
<1>5. CASE BulkSync(w)
    <2>1. PICK S \in SUBSET Skills, T \in SUBSET detected[w] :
              Begin(w, "bulkSync", BulkSyncing(w, S, T), T # {} /\ \E s \in S : RootsOf(w, s) = {})
        BY <1>0, <1>5 DEF BulkSync, Selections
    <2> DEFINE f == T # {} /\ \E s \in S : RootsOf(w, s) = {}
    <2>2. f \in BOOLEAN /\ Start(w, "bulkSync", None, BulkSyncing(w, S, T), f)
        BY <2>1 DEF Begin
    <2> HIDE DEF f
    <2>3. Starts("bulkSync", BulkSyncing(w, S, T))
        BY <1>0, <2>2, BulkSyncingStarts
    <2> QED BY <1>2, <2>3
<1>6. CASE SyncAllNewTools(w)
    <2>1. PICK T : Begin(w, "syncAll", SyncingAll(w, T), FALSE)
        BY <1>6 DEF SyncAllNewTools
    <2>2. Starts("syncAll", SyncingAll(w, T))
        BY <1>0, <2>1, SyncingAllStarts DEF Begin
    <2> QED BY <1>2, <2>2
<1>7. CASE ChangeScope(w)
    <2>1. PICK s \in shown[w].managed, R \in {{Home}} \cup SUBSET Projects :
              Start(w, "scope", <<s, IF R = {Home} THEN "global" ELSE "project">>,
                    Rescoping(w, s, R), FALSE)
        BY <1>7 DEF ChangeScope
    <2>2. R \in SUBSET Roots /\ s \in Skills
        BY <1>0
    <2>3. Starts("scope", Rescoping(w, s, R))
        BY <1>0, <2>1, <2>2, RescopingStarts
    <2> QED BY <1>2, <2>3
<1>8. CASE ToggleTool(w)
    <2>1. PICK s \in Skills, t \in Tools : Begin(w, "toggleTool", TogglingTool(w, s, t), FALSE)
        BY <1>0, <1>8 DEF ToggleTool
    <2>2. Starts("toggleTool", TogglingTool(w, s, t))
        BY <2>1, TogglingToolStarts DEF Begin
    <2> QED BY <1>2, <2>2
<1>9. CASE Install(w)
    <2>1. PICK s \in Skills, x \in Offered, T \in SUBSET detected[w],
               R \in {{Home}} \cup (SUBSET Projects \ {{}}) :
              LET chosen == IF R = {Home} THEN T ELSE T \cap Scoped
              IN  Begin(w, "install", Installing(s, x, R, chosen), chosen = {})
        BY <1>9 DEF Install
    <2> DEFINE chosen == IF R = {Home} THEN T ELSE T \cap Scoped
    <2>2. R \in SUBSET Roots /\ chosen \in SUBSET Tools
        BY <1>0
    <2>3. Start(w, "install", None, Installing(s, x, R, chosen), chosen = {})
        BY <2>1 DEF Begin
    <2> HIDE DEF chosen
    <2>4. Starts("install", Installing(s, x, R, chosen))
        BY <2>2, <2>3, InstallingStarts
    <2> QED BY <1>2, <2>4
<1>10. CASE Import(w)
    <2>1. plan[w] # None
        BY <1>10 DEF Import
    <2>2. PICK p \in DOMAIN plan[w], T \in SUBSET detected[w] :
              /\ central[p[1]] # "deleted"
              /\ Begin(w, "import", Importing(w, p[1], p, T), FALSE)
        BY <1>10 DEF Import
    <2>3. p \in Paths /\ T \in SUBSET Tools
        BY <1>0, <2>1
    <2>4. Starts("import", Importing(w, p[1], p, T))
        BY <2>2, <2>3, ImportingStarts DEF Begin
    <2> QED BY <1>2, <2>4
<1> QED BY <1>3, <1>4, <1>5, <1>6, <1>7, <1>8, <1>9, <1>10

\* A command ends without having been executed for the tab.
LEMMA FailKeepsTab ==
    ASSUME PageInv, NEW w \in Tabs, NEW c, Fail(w, c), handler[w] # Idle,
           UNCHANGED <<shown, detected, plan>>
    PROVE  TabTypes(w)' /\ Progress(w)'
<1>1. Tabular /\ TabTypes(w)
    BY DEF PageInv
<1>2. /\ todo'[w] \subseteq todo[w] /\ asked'[w] = asked[w] /\ call'[w] = NoCall
      /\ handler'[w] = [handler[w] EXCEPT !.failed = TRUE]
    BY <1>1 DEF Fail, Tabular
<1>3. handler'[w] = [kind |-> handler[w].kind, scope |-> handler[w].scope, failed |-> TRUE]
    BY <1>1, <1>2 DEF TabTypes
<1>4. handler'[w].failed = TRUE /\ handler'[w] # Idle
    BY <1>3 DEF Idle
<1>5. Progress(w)'
    BY <1>4 DEF Progress
<1>6. TabTypes(w)'
    BY <1>1, <1>2, <1>3, <1>4 DEF TabTypes, WellFormed
<1> QED BY <1>5, <1>6

LEMMA FailChanges ==
    ASSUME PageInv, NEW w \in Tabs, NEW c, Fail(w, c), UNCHANGED <<shown, detected, plan>>
    PROVE  Tabular' /\ \A v \in Tabs \ {w} : SameTab(v)
<1>1. Tabular
    BY DEF PageInv
<1> QED BY <1>1 DEF Fail, Tabular, SameTab

\* A tab that waits has a handler that runs.
LEMMA WaitingRuns ==
    ASSUME PageInv, NEW w \in Tabs, call[w] # NoCall \/ todo[w] # {}
    PROVE  handler[w] # Idle
BY DEF PageInv, TabTypes

LEMMA PreviewKeeps ==
    ASSUME PageInv, HubInv', NEW w \in Tabs, Preview(w)
    PROVE  PageInv'
<1>0. UNCHANGED <<central, enabled, target, disk, installed, shown, detected, scope, plan, lost,
                  quiet>>
    BY DEF Preview, machine, library, page
<1>1. PICK c \in todo[w] :
        /\ \A d \in todo[w] : d.skill = c.skill => d.stage >= c.stage
        /\ IF Refused(c) THEN Fail(w, c)
           ELSE /\ todo' = [todo EXCEPT ![w] = @ \ {c}]
                /\ call' = [call EXCEPT ![w] = [cmd |-> c, digest |-> Fingerprint(c)]]
                /\ UNCHANGED <<handler, asked>>
    BY DEF Preview
<1>2. /\ Tabular /\ TabTypes(w) /\ Progress(w) /\ Sources /\ installed \subseteq Tools
      /\ \A job \in lost : WellFormed(job.cmd)
      /\ handler[w] # Idle /\ call[w] = NoCall
    BY WaitingRuns DEF PageInv, Preview
<1>3. Sources'
    BY <1>0, <1>2, SourcesInSameLibrary DEF library
<1>4. CASE Fail(w, c)
    <2>1. Rest(w)
        BY <1>0, <1>2, <1>4, FailChanges DEF Rest, library, WellFormed
    <2>2. TabTypes(w)' /\ Progress(w)'
        BY <1>0, <1>2, <1>4, FailKeepsTab
    <2> QED BY <1>3, <2>1, <2>2, PageByTab
<1>5. CASE ~Fail(w, c)
    <2> DEFINE job == [cmd |-> c, digest |-> Fingerprint(c)]
    <2>0. job.cmd = c /\ job # NoCall
        <3>1. WellFormed(c)
            BY <1>2 DEF TabTypes
        <3> QED BY <3>1 DEF NoCall, WellFormed
    <2>1. /\ todo' = [todo EXCEPT ![w] = @ \ {c}] /\ call' = [call EXCEPT ![w] = job]
          /\ UNCHANGED <<handler, asked>>
        BY <1>1, <1>5
    <2> HIDE DEF job
    <2>2. /\ todo'[w] = todo[w] \ {c} /\ call'[w] = job
          /\ handler'[w] = handler[w] /\ asked'[w] = asked[w]
        BY <1>2, <2>1 DEF Tabular
    <2>3. Rest(w)
        BY <1>0, <1>2, <2>1 DEF Rest, Tabular, SameTab, library, WellFormed
    <2>4. c \in asked[w] /\ WellFormed(c) /\ \A d \in asked[w] : WellFormed(d)
        BY <1>2 DEF TabTypes
    <2>5. TabTypes(w)'
        BY <1>0, <1>2, <2>0, <2>2, <2>4 DEF TabTypes, WellFormed
    <2>6. Progress(w)'
        <3> SUFFICES ASSUME w \in quiet', ~handler'[w].failed PROVE Progress(w)'
            BY DEF Progress
        <3>1. w \in quiet /\ ~handler[w].failed
            BY <1>0, <2>2
        <3>2. Sent(w)' = Sent(w) \cup {c}
            BY <2>2, <2>4 DEF Sent
        <3>3. \A d : (Done(d)' <=> Done(d)) /\ (Counts(d)' <=> Counts(d))
            BY <1>0, DoneInSameLibrary DEF Counts, library
        <3>4. \A s : Restore(w, s)' = Restore(w, s)
            BY <1>0 DEF Restore, Shown
        <3>5. Coherent(asked[w])'
            BY <1>2, <2>2, <3>1 DEF Coherent, Progress
        <3>6. \A d \in asked[w] : d.stage \in {1, 2}
            BY <2>4 DEF WellFormed
        <3>7. \A d \in Sent(w)', e \in todo'[w] : d.skill = e.skill => d.stage <= e.stage
            BY <1>1, <1>2, <2>2, <3>1, <3>2 DEF Progress
        <3>8. \A d \in Sent(w)' : d.skill = c.skill => d.stage <= c.stage
            BY <1>2, <2>4, <3>1, <3>2, <3>6 DEF Progress
        <3>9. \A d \in Sent(w)' : Counts(d)' /\ d # c => Done(d)'
            BY <1>2, <3>1, <3>2, <3>3 DEF Progress
        <3> QED BY <1>0, <1>2, <2>0, <2>2, <3>1, <3>2, <3>4, <3>5, <3>7, <3>8, <3>9 DEF Progress
    <2> QED BY <1>3, <2>3, <2>5, <2>6, PageByTab
<1> QED BY <1>4, <1>5

LEMMA IdleIsNotQuiet ==
    ASSUME PageInv, NEW w \in Tabs, handler[w] = Idle
    PROVE  w \notin quiet
<1>1. Progress(w)
    BY DEF PageInv
<1> QED BY <1>1 DEF Progress, Idle

LEMMA LooksKeep ==
    ASSUME PageInv, HubInv', NEW w \in Tabs, ScanExisting(w) \/ Reload(w)
    PROVE  PageInv'
<1>1. /\ UNCHANGED <<central, enabled, target, disk, installed, todo, call, handler, lost, asked,
                     quiet>>
      /\ handler[w] = Idle
    BY DEF ScanExisting, Reload, machine, library, work
<1>2. /\ Tabular /\ TabTypes(w) /\ Sources /\ installed \subseteq Tools
      /\ \A job \in lost : WellFormed(job.cmd)
    BY DEF PageInv
<1>3. Sources'
    BY <1>1, <1>2, SourcesInSameLibrary DEF library
<1>4. Progress(w)'
    BY <1>1, IdleIsNotQuiet DEF Progress
<1>5. CASE ScanExisting(w)
    <2>1. PICK found : plan' = [plan EXCEPT ![w] = found] /\ DOMAIN found \subseteq Paths
        <3> DEFINE f == [p \in {q \in Paths : q[3] = Home} |->
                            IF disk[p] = "ours" THEN "empty" ELSE disk[p]]
        <3>1. plan' = [plan EXCEPT ![w] = f] /\ DOMAIN f \subseteq Paths
            BY <1>5 DEF ScanExisting
        <3> QED BY <3>1
    <2>2. UNCHANGED <<shown, detected>>
        BY <1>5 DEF ScanExisting
    <2>3. plan'[w] = found
        BY <1>2, <2>1 DEF Tabular
    <2>4. Rest(w)
        BY <1>1, <1>2, <2>1, <2>2 DEF Rest, Tabular, SameTab, library, WellFormed
    <2>5. TabTypes(w)'
        BY <1>1, <1>2, <2>1, <2>2, <2>3 DEF TabTypes, WellFormed
    <2> QED BY <1>3, <1>4, <2>4, <2>5, PageByTab
<1>6. CASE Reload(w)
    <2>1. /\ shown' = [shown EXCEPT ![w] = View] /\ detected' = [detected EXCEPT ![w] = installed]
          /\ plan' = plan
        BY <1>6 DEF Reload
    <2>2. shown'[w] = View /\ detected'[w] = installed
        BY <1>2, <2>1 DEF Tabular
    <2>3. View.managed \subseteq Skills /\ View.enabled \subseteq Skills
        BY <1>2 DEF View, Managed, Sources
    <2>4. Rest(w)
        BY <1>1, <1>2, <2>1 DEF Rest, Tabular, SameTab, library, WellFormed
    <2>5. TabTypes(w)'
        BY <1>1, <1>2, <2>1, <2>2, <2>3 DEF TabTypes, WellFormed
    <2> QED BY <1>3, <1>4, <2>4, <2>5, PageByTab
<1> QED BY <1>5, <1>6

LEMMA FinishKeeps ==
    ASSUME PageInv, HubInv', NEW w \in Tabs, Finish(w)
    PROVE  PageInv'
<1>1. /\ UNCHANGED <<central, enabled, target, disk, installed, detected, todo, call, lost>>
      /\ todo[w] = {} /\ call[w] = NoCall
      /\ handler' = [handler EXCEPT ![w] = Idle] /\ shown' = [shown EXCEPT ![w] = View]
      /\ plan' = [plan EXCEPT ![w] = IF handler[w].kind = "import" THEN None ELSE @]
      /\ asked' = [asked EXCEPT ![w] = {}] /\ quiet' = quiet \ {w}
    BY DEF Finish, machine, library
<1>2. /\ Tabular /\ TabTypes(w) /\ Sources /\ installed \subseteq Tools
      /\ \A job \in lost : WellFormed(job.cmd)
    BY DEF PageInv
<1>3. Sources'
    BY <1>1, <1>2, SourcesInSameLibrary DEF library
<1>4. Progress(w)'
    BY <1>1 DEF Progress
<1>5. /\ handler'[w] = Idle /\ shown'[w] = View /\ asked'[w] = {} /\ plan'[w] \in {None, plan[w]}
    BY <1>1, <1>2 DEF Tabular
<1>6. View.managed \subseteq Skills /\ View.enabled \subseteq Skills
    BY <1>2 DEF View, Managed, Sources
<1>7. Rest(w)
    BY <1>1, <1>2 DEF Rest, Tabular, SameTab, library, WellFormed
<1>8. TabTypes(w)'
    <2>1. /\ handler'[w] = [kind |-> handler'[w].kind, scope |-> handler'[w].scope,
                            failed |-> handler'[w].failed]
          /\ handler'[w].failed \in BOOLEAN
        BY <1>5 DEF Idle
    <2>2. /\ todo'[w] \subseteq asked'[w] /\ asked'[w] = {} /\ call'[w] = NoCall
        BY <1>1, <1>5
    <2>3. plan'[w] # None => DOMAIN plan'[w] \subseteq Paths
        BY <1>2, <1>5 DEF TabTypes
    <2> QED BY <1>1, <1>2, <1>5, <1>6, <2>1, <2>2, <2>3 DEF TabTypes
<1> QED BY <1>3, <1>4, <1>7, <1>8, PageByTab

LEMMA GiveUpKeeps ==
    ASSUME PageInv, HubInv', NEW w \in Tabs, LoseCall(w) \/ Cancel(w)
    PROVE  PageInv'
<1>1. /\ UNCHANGED <<central, enabled, target, disk, installed, shown, detected, plan, quiet>>
      /\ call[w] # NoCall /\ Fail(w, call[w].cmd)
      /\ \/ lost' = lost
         \/ lost' = lost \cup {[cmd |-> call[w].cmd, digest |-> call[w].digest]}
    BY DEF LoseCall, Cancel, Answer, machine, library, page
<1>2. /\ Tabular /\ TabTypes(w) /\ Sources /\ installed \subseteq Tools
      /\ \A job \in lost : WellFormed(job.cmd)
      /\ handler[w] # Idle
    BY <1>1, WaitingRuns DEF PageInv
<1>3. Sources'
    BY <1>1, <1>2, SourcesInSameLibrary DEF library
<1>4. TabTypes(w)' /\ Progress(w)'
    BY <1>1, <1>2, FailKeepsTab
<1>5. \A job \in lost' : WellFormed(job.cmd)
    BY <1>1, <1>2 DEF TabTypes
<1>6. Rest(w)
    BY <1>1, <1>2, <1>5, FailChanges DEF Rest, library
<1> QED BY <1>3, <1>4, <1>6, PageByTab

\* Whoever changes the library ends the quiet of the others.
LEMMA Disturbed ==
    ASSUME NEW W, Disturb(W), NEW v \in quiet'
    PROVE  v \in quiet /\ (v \in W \/ UNCHANGED library)
BY DEF Disturb

\* The command that was answered with success was done, and what was done before is
\* still done.
LEMMA RunKeepsProgress ==
    ASSUME PageInv, NEW w \in Tabs, call[w] # NoCall, w \in quiet, ~handler[w].failed,
           CommitJob(call[w].cmd, call[w].digest, "ok"), installed' = installed,
           NEW c \in Sent(w), Counts(c)
    PROVE  Done(c)'
<1> DEFINE d == call[w].cmd
<1>1. /\ HubInv /\ Sources /\ TabTypes(w) /\ Progress(w)
    BY DEF PageInv
<1>2. WellFormed(c) /\ WellFormed(d) /\ c \in asked[w] /\ d \in asked[w]
    BY <1>1 DEF TabTypes, Sent, Progress
<1>3. CASE c = d
    <2>1. d.op = "import" => central[d.skill] # "deleted"
        BY <1>1, <1>2 DEF Progress
    <2> QED BY <1>1, <1>2, <1>3, <2>1, DoneAfter
<1>4. CASE c # d
    <2>1. Done(c)
        BY <1>1, <1>4 DEF Progress
    <2>2. Coherent(asked[w]) /\ (c.skill = d.skill => c.stage <= d.stage)
        BY <1>1 DEF Progress
    <2> HIDE DEF d
    <2>3. InOrder(c, d)
        BY <1>2, <2>2 DEF InOrder, Coherent
    <2> QED BY <1>1, <1>2, <2>1, <2>3, DoneKept DEF d
<1> QED BY <1>3, <1>4

\* No command of the handler deletes what it is to import.
LEMMA RunKeepsImports ==
    ASSUME PageInv, NEW w \in Tabs, call[w] # NoCall, w \in quiet, ~handler[w].failed,
           CommitJob(call[w].cmd, call[w].digest, "ok"),
           NEW c \in asked[w], c.op = "import"
    PROVE  central'[c.skill] # "deleted"
<1> DEFINE d == call[w].cmd
<1>1. /\ HubInv /\ Sources /\ TabTypes(w) /\ Progress(w)
    BY DEF PageInv
<1>2. WellFormed(c) /\ WellFormed(d) /\ d \in asked[w] /\ central[c.skill] # "deleted"
    BY <1>1 DEF TabTypes, Sent, Progress
<1>3. CASE c.skill # d.skill
    BY <1>1, <1>2, <1>3, OtherSkills DEF WellFormed
<1>4. CASE c.skill = d.skill
    <2>1. d.op # "delete"
        BY <1>1, <1>2, <1>4 DEF Progress, Coherent
    <2>2. ~Refused(d) /\ Execute(d, "ok")
        BY DEF CommitJob, Nothing
    <2>3. CASE central' = central
        BY <1>2, <2>3
    <2>4. CASE d.op \in {"install", "import"} /\ InstallSkill(d, "ok") /\ central[d.skill] = None
        <3> DEFINE x == IF d.op = "import" THEN Seen(d.from) ELSE d.from
        <3>1. x \in Contents
            BY <1>1, <1>2, <2>2, <2>4, InstallsContent
        <3>2. central' = [central EXCEPT ![d.skill] = x]
            BY <2>4 DEF InstallSkill
        <3>3. x # "deleted"
            BY <3>1, HubAssumption
        <3> HIDE DEF x
        <3> QED BY <1>1, <1>2, <1>4, <3>2, <3>3 DEF Sources, WellFormed
    <2> HIDE DEF d
    <2> QED BY <2>1, <2>2, <2>3, <2>4
            DEF Execute, SyncSkill, UnsyncSkill, DisableSkill, EnableSkill, InstallSkill, Nothing,
                library
<1> QED BY <1>3, <1>4

LEMMA RunKeeps ==
    ASSUME PageInv, HubInv', NEW w \in Tabs, Run(w)
    PROVE  PageInv'
<1>1. PICK result \in {"ok", "error"} :
          CommitJob(call[w].cmd, call[w].digest, result) /\ Answer(w, result)
    BY DEF Run
<1>2. /\ UNCHANGED <<installed, shown, detected, plan, lost>>
      /\ call[w] # NoCall /\ Disturb({w})
    BY DEF Run, page
<1>3. /\ HubInv /\ Tabular /\ TabTypes(w) /\ Progress(w) /\ Sources /\ installed \subseteq Tools
      /\ \A job \in lost : WellFormed(job.cmd)
      /\ handler[w] # Idle
    BY <1>2, WaitingRuns DEF PageInv
<1>4. Sources'
    BY <1>1, <1>2, <1>3, CommitKeepsSources DEF TabTypes
<1>5. \A v \in Tabs \ {w} : v \in quiet' => v \in quiet /\ UNCHANGED <<library, installed>>
    BY <1>2, Disturbed
<1>6. CASE result = "error"
    <2>1. Fail(w, call[w].cmd)
        BY <1>1, <1>6 DEF Answer
    <2>2. TabTypes(w)' /\ Progress(w)'
        BY <1>2, <1>3, <2>1, FailKeepsTab
    <2>3. Rest(w)
        BY <1>2, <1>3, <1>5, <2>1, FailChanges DEF Rest, WellFormed
    <2> QED BY <1>4, <2>2, <2>3, PageByTab
<1>7. CASE result = "ok"
    <2>1. call' = [call EXCEPT ![w] = NoCall] /\ UNCHANGED <<todo, handler, asked>>
        BY <1>1, <1>7 DEF Answer
    <2>2. call'[w] = NoCall
        BY <1>3, <2>1 DEF Tabular
    <2>3. Rest(w)
        BY <1>2, <1>3, <1>5, <2>1 DEF Rest, Tabular, SameTab, WellFormed
    <2>4. TabTypes(w)'
        BY <1>2, <1>3, <2>1, <2>2 DEF TabTypes, WellFormed
    <2>5. Progress(w)'
        <3> SUFFICES ASSUME w \in quiet', ~handler'[w].failed PROVE Progress(w)'
            BY DEF Progress
        <3>1. w \in quiet /\ ~handler[w].failed
            BY <1>2, <2>1, Disturbed
        <3>2. Sent(w)' = Sent(w) /\ \A c : Counts(c)' <=> Counts(c)
            BY <1>2, <2>1 DEF Sent, Counts
        <3>3. \A c \in Sent(w)' : Counts(c)' => Done(c)'
            BY <1>1, <1>2, <1>7, <3>1, <3>2, RunKeepsProgress
        <3>4. \A c \in asked'[w] : c.op = "import" => central'[c.skill] # "deleted"
            BY <1>1, <1>2, <1>7, <2>1, <3>1, RunKeepsImports
        <3>5. \A s : Restore(w, s)' = Restore(w, s)
            BY <1>2 DEF Restore, Shown
        <3>6. Coherent(asked[w])'
            BY <1>3, <2>1, <3>1 DEF Coherent, Progress
        <3> QED BY <1>3, <2>1, <2>2, <3>1, <3>2, <3>3, <3>4, <3>5, <3>6 DEF Progress
    <2> QED BY <1>4, <2>3, <2>4, <2>5, PageByTab
<1> QED BY <1>1, <1>6, <1>7

LEMMA CrashKeeps ==
    ASSUME PageInv, HubInv', NEW w \in Tabs, Crash(w)
    PROVE  PageInv'
<1>1. /\ UNCHANGED <<installed, shown, detected, plan, lost>>
      /\ call[w] # NoCall /\ Disturb({w})
      /\ ~Refused(call[w].cmd) /\ CutShort(call[w].cmd)
      /\ Fail(w, call[w].cmd)
    BY DEF Crash, page, Answer
<1>2. /\ HubInv /\ Tabular /\ TabTypes(w) /\ Sources /\ installed \subseteq Tools
      /\ \A job \in lost : WellFormed(job.cmd)
      /\ handler[w] # Idle
    BY <1>1, WaitingRuns DEF PageInv
<1>3. Sources'
    BY <1>1, <1>2, CutKeepsSources
<1>4. \A v \in Tabs \ {w} : v \in quiet' => v \in quiet /\ UNCHANGED <<library, installed>>
    BY <1>1, Disturbed
<1>5. TabTypes(w)' /\ Progress(w)'
    BY <1>1, <1>2, FailKeepsTab
<1>6. Rest(w)
    BY <1>1, <1>2, <1>4, FailChanges DEF Rest, WellFormed
<1> QED BY <1>3, <1>5, <1>6, PageByTab

LEMMA RunLostKeeps ==
    ASSUME PageInv, HubInv', RunLost
    PROVE  PageInv'
<1>1. PICK job \in lost, result \in {"ok", "error"} :
          CommitJob(job.cmd, job.digest, result) /\ lost' = lost \ {job}
    BY DEF RunLost
<1>2. /\ UNCHANGED <<installed, shown, detected, plan, todo, call, handler, asked>>
      /\ Disturb({})
    BY DEF RunLost, page
<1>3. /\ HubInv /\ Tabular /\ Sources /\ installed \subseteq Tools
      /\ \A j \in lost : WellFormed(j.cmd)
      /\ \A v \in Tabs : TabTypes(v) /\ Progress(v)
    BY DEF PageInv
<1>4. Sources'
    BY <1>1, <1>3, CommitKeepsSources
<1>5. ASSUME NEW v \in Tabs PROVE TabTypes(v)' /\ Progress(v)'
    <2>1. SameTab(v)
        BY <1>2 DEF SameTab
    <2>2. v \in quiet' => v \in quiet /\ UNCHANGED <<library, installed>>
        BY <1>2, Disturbed
    <2> QED BY <1>3, <2>1, <2>2, TabKept
<1>6. Tabular'
    BY <1>2, <1>3 DEF Tabular
<1>7. \A j \in lost' : WellFormed(j.cmd)
    BY <1>1, <1>3
<1> QED BY <1>2, <1>3, <1>4, <1>5, <1>6, <1>7 DEF PageInv, WellFormed

LEMMA TouchKeeps ==
    ASSUME PageInv, HubInv', Touch
    PROVE  PageInv'
<1>1. /\ UNCHANGED <<central, enabled, shown, detected, plan, todo, call, handler, asked, lost>>
      /\ quiet' = {}
      /\ \/ /\ \E p \in Paths, x \in Contents \cup {"empty"} : disk' = [disk EXCEPT ![p] = x]
            /\ installed' = installed
         \/ /\ \E t \in Tools : installed' \in {installed \ {t}, installed \cup {t}}
            /\ disk' = disk
    BY DEF Touch, page, work
<1>2. /\ HubInv /\ Tabular /\ Sources /\ installed \subseteq Tools
      /\ \A j \in lost : WellFormed(j.cmd)
      /\ \A v \in Tabs : TabTypes(v) /\ Progress(v)
    BY DEF PageInv
<1>3. Sources'
    <2>1. \A p \in Paths : disk'[p] = "ours" => disk[p] = "ours"
        BY <1>1, <1>2, HubAssumption DEF HubInv, LibraryTypes
    <2> QED BY <1>1, <1>2, <2>1 DEF Sources, Managed
<1>4. ASSUME NEW v \in Tabs PROVE TabTypes(v)' /\ Progress(v)'
    <2>1. SameTab(v) /\ v \notin quiet'
        BY <1>1 DEF SameTab
    <2> QED BY <1>2, <2>1, TabKept
<1>5. Tabular' /\ installed' \subseteq Tools
    BY <1>1, <1>2 DEF Tabular
<1>6. \A j \in lost' : WellFormed(j.cmd)
    BY <1>1, <1>2
<1> QED BY <1>3, <1>4, <1>5, <1>6 DEF PageInv, WellFormed

LEMMA PagePreserved ==
    ASSUME PageInv, [Next]_vars PROVE PageInv'
<1>1. HubInv'
    BY HubPreserved DEF PageInv
<1>2. ASSUME NEW w \in Tabs, TabStep(w) PROVE PageInv'
    BY <1>1, <1>2, HandlersStart, LooksKeep, PreviewKeeps, GiveUpKeeps, FinishKeeps DEF TabStep
<1>3. CASE JobStep
    BY <1>1, <1>3, RunKeeps, CrashKeeps, RunLostKeeps DEF JobStep
<1>4. CASE Touch
    BY <1>1, <1>4, TouchKeeps
<1>5. CASE UNCHANGED vars
    <2>0. /\ UNCHANGED <<central, enabled, target, disk, installed, shown, detected, plan, todo,
                         call, handler, asked, lost, quiet>>
        BY <1>5 DEF vars, machine, library, page, work
    <2>1. /\ Sources /\ Tabular /\ installed \subseteq Tools
          /\ \A j \in lost : WellFormed(j.cmd)
          /\ \A v \in Tabs : TabTypes(v) /\ Progress(v)
        BY DEF PageInv
    <2>2. Sources' /\ Tabular'
        BY <2>0, <2>1, SourcesInSameLibrary DEF library, Tabular
    <2>3. ASSUME NEW v \in Tabs PROVE TabTypes(v)' /\ Progress(v)'
        <3>1. SameTab(v) /\ (v \in quiet' => v \in quiet /\ UNCHANGED <<library, installed>>)
            BY <2>0 DEF SameTab, library
        <3> QED BY <2>1, <3>1, TabKept
    <2> QED BY <1>1, <2>0, <2>1, <2>2, <2>3 DEF PageInv, WellFormed
<1> QED BY <1>2, <1>3, <1>4, <1>5 DEF Next

LEMMA InitPage ==
    ASSUME Init PROVE PageInv
<1>1. HubInv
    BY InitHub
<1>2. /\ central \in [Skills -> Offered \cup {None}] /\ enabled = Managed /\ installed = Tools
      /\ shown = [w \in Tabs |-> View] /\ detected = [w \in Tabs |-> installed]
      /\ plan = [w \in Tabs |-> None] /\ todo = [w \in Tabs |-> {}]
      /\ call = [w \in Tabs |-> NoCall] /\ handler = [w \in Tabs |-> Idle]
      /\ lost = {} /\ asked = [w \in Tabs |-> {}] /\ quiet = {}
    BY DEF Init
<1>3. Sources
    <2>1. PICK R \in [Managed -> {{}, {Home}, Projects}] :
            LET rows == {k \in Rows : k[1] \in Managed /\ k[3] \in R[k[1]]
                                      /\ (k[3] = Home \/ k[2] \in Scoped)}
            IN  disk = [p \in Paths |-> IF \E k \in rows : PathOf(k) = p THEN "ours" ELSE "empty"]
        BY DEF Init
    <2>2. ASSUME NEW p \in Paths, disk[p] = "ours" PROVE central[p[1]] # None
        <3>1. PICK k \in Rows : k[1] \in Managed /\ PathOf(k) = p
            BY <2>1, <2>2
        <3>2. p[1] = k[1]
            BY <3>1, RowShape
        <3> QED BY <3>1, <3>2 DEF Managed
    <2> QED BY <1>2, <2>2, HubAssumption DEF Sources
<1>4. Tabular
    BY <1>2 DEF Tabular
<1>5. ASSUME NEW w \in Tabs PROVE TabTypes(w) /\ Progress(w)
    <2>1. /\ shown[w] = View /\ detected[w] = Tools /\ plan[w] = None /\ todo[w] = {}
          /\ asked[w] = {} /\ call[w] = NoCall /\ handler[w] = Idle
        BY <1>2
    <2>2. View.managed \subseteq Skills /\ View.enabled \subseteq Skills
        BY <1>2 DEF View, Managed
    <2>3. /\ Idle = [kind |-> Idle.kind, scope |-> Idle.scope, failed |-> Idle.failed]
          /\ Idle.failed \in BOOLEAN
        BY DEF Idle
    <2>4. TabTypes(w)
        BY <2>1, <2>2, <2>3 DEF TabTypes
    <2> QED BY <1>2, <2>4 DEF Progress
<1> QED BY <1>1, <1>2, <1>3, <1>4, <1>5 DEF PageInv

\* What the tabs show and do keeps its form, and a handler that is alone with the
\* library and has not failed has done all it has sent.
THEOREM HandlersProgress == Spec => []PageInv
BY PagePreserved, InitPage, PTL DEF Spec

LEMMA TypesFromPage ==
    ASSUME PageInv PROVE TypeOK
<1>1. /\ HubInv /\ Sources /\ installed \subseteq Tools
      /\ \A w \in Tabs : TabTypes(w)
    BY DEF PageInv
<1>2. ASSUME NEW w \in Tabs
      PROVE  /\ todo[w] \cup asked[w] # {} => handler[w] # Idle
             /\ \A c \in todo[w] \cup asked[w] : WellFormed(c)
    BY <1>1 DEF TabTypes
<1>3. ASSUME NEW c, WellFormed(c)
      PROVE  [op |-> c.op, skill |-> c.skill, tool |-> c.tool, root |-> c.root,
              stage |-> c.stage] \in Commands
    <2>1. c.stage \in 1..2
        BY <1>3 DEF WellFormed
    <2> QED BY <1>3, <2>1 DEF WellFormed, Commands
<1> QED BY <1>1, <1>2, <1>3 DEF TypeOK, HubInv, LibraryTypes, RowsAreManaged, Sources

\* The library and the tabs keep their types.
THEOREM HubTypeCorrect == Spec => []TypeOK
BY TypesFromPage, HandlersProgress, PTL

------------------------------------------------------------------------------
(* The end of a handler.                                                     *)

LEMMA EndsWhenDone ==
    ASSUME PageInv, [Next]_vars, NEW w \in Tabs, Ends(w)
    PROVE  todo[w] = {} /\ call[w] = NoCall
<1>0. handler = [v \in Tabs |-> handler[v]] /\ handler[w] # Idle /\ handler'[w] = Idle
    BY DEF PageInv, Tabular, Ends
<1>1. ASSUME NEW v \in Tabs, NEW c, Fail(v, c) PROVE FALSE
    <2>1. handler' = [handler EXCEPT ![v].failed = TRUE]
        BY <1>1 DEF Fail
    <2>2. CASE v # w
        BY <1>0, <2>1, <2>2
    <2>3. CASE v = w
        <3>1. TabTypes(w)
            BY DEF PageInv
        <3>2. handler'[w] = [handler[w] EXCEPT !.failed = TRUE]
            BY <1>0, <2>1, <2>3
        <3>3. handler'[w] = [kind |-> handler[w].kind, scope |-> handler[w].scope, failed |-> TRUE]
            BY <3>1, <3>2 DEF TabTypes
        <3> QED BY <1>0, <3>3 DEF Idle
    <2> QED BY <2>2, <2>3
<1>2. handler' # handler
    BY <1>0
<1>3. ASSUME NEW v \in Tabs, TabStep(v) PROVE todo[w] = {} /\ call[w] = NoCall
    <2>1. ASSUME NEW kind, NEW to, NEW commands, NEW failed, Start(v, kind, to, commands, failed)
          PROVE  v # w /\ handler'[w] = handler[w]
        BY <1>0, <2>1 DEF Start
    <2>2. ~(\/ ToggleEnabled(v) \/ Delete(v) \/ BulkSync(v) \/ SyncAllNewTools(v)
            \/ ChangeScope(v) \/ ToggleTool(v) \/ Install(v) \/ Import(v))
        BY <1>0, <2>1
           DEF ToggleEnabled, Delete, BulkSync, SyncAllNewTools, ChangeScope, ToggleTool, Install,
               Import, Begin
    <2>3. ~ScanExisting(v) /\ ~Reload(v)
        BY <1>2 DEF ScanExisting, Reload, work
    <2>4. ~Preview(v) /\ ~LoseCall(v) /\ ~Cancel(v)
        BY <1>1, <1>2 DEF Preview, LoseCall, Cancel, Answer
    <2>5. Finish(v)
        BY <1>3, <2>2, <2>3, <2>4 DEF TabStep
    <2>6. v = w
        BY <1>0, <2>5 DEF Finish
    <2> QED BY <2>5, <2>6 DEF Finish
<1>4. ~JobStep
    BY <1>1, <1>2 DEF JobStep, Run, Crash, RunLost, Answer
<1>5. ~Touch /\ ~UNCHANGED vars
    BY <1>2 DEF Touch, vars, work
<1> QED BY <1>3, <1>4, <1>5 DEF Next

LEMMA SuccessByStep ==
    ASSUME PageInv, [Next]_vars, NEW w \in Tabs, Ends(w), ~handler[w].failed, w \in quiet
    PROVE  /\ \A c \in asked[w] : c.tool \in installed \cup {None} => Done(c)
           /\ handler[w].kind = "toggle" =>
                  \A c \in asked[w] : c.op = "enable" => Restore(w, c.skill) \subseteq asked[w]
<1>1. todo[w] = {} /\ call[w] = NoCall
    BY EndsWhenDone
<1>2. Progress(w)
    BY DEF PageInv
<1> QED BY <1>1, <1>2 DEF Progress, Sent, Counts

\* A handler that reports success did what it was asked, each of the commands of it
\* on top of the others, and no command undid what an earlier one did.
THEOREM SuccessMeansDone == Spec => SuccessIsReal
<1>1. PageInv /\ [Next]_vars =>
          [\A w \in Tabs :
             Ends(w) /\ ~handler[w].failed /\ w \in quiet =>
                \A c \in asked[w] : c.tool \in installed \cup {None} => Done(c)]_vars
    BY SuccessByStep
<1> QED BY <1>1, HandlersProgress, PTL DEF Spec, SuccessIsReal

LEMMA RestoredByStep ==
    ASSUME PageInv, [Next]_vars, NEW w \in Tabs, Ends(w), handler[w].kind = "toggle",
           ~handler[w].failed, w \in quiet, NEW c \in asked[w], c.op = "enable",
           NEW k \in Shown(w, c.skill),
           k[2] \in installed \cap (IF k[3] = Home THEN detected[w] ELSE Scoped)
    PROVE  target[k] = "ok"
<1> DEFINE d == Sync(c.skill, k[2], k[3], c.skill)
<1>1. k \in Rows /\ k[1] = c.skill
    BY DEF Shown
<1>2. d \in Restore(w, c.skill)
    BY DEF Restore
<1>3. d.op = "sync" /\ d.skill = c.skill /\ d.tool = k[2] /\ d.root = k[3]
    BY DEF Sync, Command
<1>4. Done(d)
    <2> HIDE DEF d
    <2> QED BY <1>2, <1>3, SuccessByStep
<1>5. k = <<d.skill, d.tool, d.root>>
    BY <1>1, <1>3, RowShape
<1> HIDE DEF d
<1> QED BY <1>3, <1>4, <1>5 DEF Done

\* Enabling a skill puts every target back that the page shows and the tool can
\* take, if nothing failed and nobody else worked on the library meanwhile.
THEOREM EnablingPutsBack == Spec => EnablingRestores
<1>1. PageInv /\ [Next]_vars =>
          [\A w \in Tabs :
             Ends(w) /\ handler[w].kind = "toggle" /\ ~handler[w].failed /\ w \in quiet =>
                \A c \in asked[w] : c.op = "enable" => \A k \in Shown(w, c.skill) :
                   k[2] \in installed \cap (IF k[3] = Home THEN detected[w] ELSE Scoped) =>
                      target[k] = "ok"]_vars
    BY RestoredByStep
<1> QED BY <1>1, HandlersProgress, PTL DEF Spec, EnablingRestores

==============================================================================
