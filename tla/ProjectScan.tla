----------------------------- MODULE ProjectScan -----------------------------
(* How a person gives a project its Default Setup: the hook useProjectScan   *)
(* of a browser tab (create or select a project, scan its checkout, choose   *)
(* among the discoveries, capture) and the project service it calls.         *)
(*                                                                           *)
(* Every call is answered, or fails, after an arbitrary delay.  The hook     *)
(* counts contexts: selecting a project, starting a scan and unmounting take *)
(* a new one, and an answer of an older context is dropped.  Here a call     *)
(* carries whether its context is still the current one.  sessionStorage     *)
(* mirrors the scan and the selected project, so a reload keeps both.        *)
(* Every project has one checkout, its runner is ready, and the states of a  *)
(* scan before it ends are one: JobMailbox has them.                         *)
EXTENDS Integers, Sequences, FiniteSets

CONSTANTS
    Projects,      \* projects that exist from the start or are created
    Known,         \* those that exist from the start
    Discoveries,   \* what a scan can find available in a checkout
    Jobs,          \* scan jobs
    OtherScan,     \* the job of a scan made in another tab
    NoProject, NoJob,
    MaxCalls, MaxPolls, \* bounds on the calls of a kind, and the polls, in flight
    MaxElsewhere,  \* bound on what others do
    MaxReloads

ASSUME ScanAssumption ==
    /\ Known \subseteq Projects /\ IsFiniteSet(Projects)
    /\ NoProject \notin Projects
    /\ NoJob \notin Jobs /\ OtherScan \notin Jobs \cup {NoJob}
    /\ MaxCalls \in Nat \ {0} /\ MaxPolls \in Nat \ {0} /\ MaxElsewhere \in Nat /\ MaxReloads \in Nat

VARIABLES
    rows,        \* the projects, in the order of their creation
    job,         \* job[j]: the scan j of a project's checkout
    first,       \* first[p]: revision 1 of p's Default Setup
    republished, \* the projects whose Default has later revisions
    tab,         \* the state of the hook
    list,        \* the projects the tab shows
    calls,       \* the calls in flight
    elsewhere, reloads

serverVars == <<rows, job, first, republished>>
vars == <<serverVars, tab, list, calls, elsewhere, reloads>>

NoRevision == [scan |-> NoJob, items |-> {}]
NoStatus == [job |-> NoJob, state |-> "none", found |-> {}]
\* included is Unknown (null in the code) until the discoveries are there.
Unknown == {NoJob}
NoScan == [project |-> NoProject, job |-> NoJob, included |-> Unknown]
Unread == << <<>> >>

Revisions == [scan : Jobs \cup {NoJob, OtherScan}, items : SUBSET Discoveries]
Statuses == [job : Jobs \cup {NoJob}, state : {"none", "active", "succeeded", "failed"},
             found : SUBSET Discoveries]

ListCall(after) == [kind |-> "list", fresh |-> TRUE, after |-> after, rows |-> Unread]

\* The state of a hook that has just been mounted.
Mounted(selected, scan) ==
    [selected |-> selected, scan |-> scan, status |-> NoStatus, capture |-> NoRevision,
     busy |-> {"list"}, error |-> "none"]

Init ==
    /\ rows \in {s \in [1..Cardinality(Known) -> Known] : \A p \in Known : \E i \in DOMAIN s : s[i] = p}
    /\ job = [j \in Jobs |-> [project |-> NoProject, state |-> "none", found |-> {}]]
    /\ first = [p \in Projects |-> NoRevision] /\ republished = {}
    /\ tab = Mounted(NoProject, NoScan)
    /\ list = <<>>
    /\ calls = {ListCall(FALSE)}
    /\ elsewhere = 0 /\ reloads = 0

------------------------------------------------------------------------------
(* Helpers of the hook.                                                      *)

\* Mutant: the calls in flight keep their context.
StaleNone(S) == S

\* contextVersion is incremented: no call in flight is of the current context.
Stale(S) == {[c EXCEPT !.fresh = FALSE] : c \in S}

\* selectProject
Select(p) ==
    IF p = tab.selected THEN tab
    ELSE [tab EXCEPT !.selected = p, !.scan = NoScan, !.status = NoStatus,
                     !.capture = NoRevision, !.busy = @ \ {"scan", "capture"}, !.error = "none"]

StaleIfSwitched(p, S) == IF p = tab.selected THEN S ELSE Stale(S)

Entries == {i \in DOMAIN list : list[i].project = tab.selected}
\* The Default that the tab shows as captured: that of its own capture, or of the list.
Completed ==
    \/ tab.capture # NoRevision
    \/ Entries # {} /\ list[CHOOSE i \in Entries : \A k \in Entries : i <= k].captured
\* isTerminalJob
Ended(state) == state \in {"succeeded", "failed"}
MayCall(kind) ==
    Cardinality({c \in calls : c.kind = kind}) < (IF kind = "job" THEN MaxPolls ELSE MaxCalls)

\* Mutant: the discoveries are selected again whenever a status comes.
SelectEligible(included, found) == found

\* eligibleDiscoveryIds when the discoveries are new, else what is still eligible.
Reconcile(included, found) == IF included = Unknown THEN found ELSE included \cap found

KeepServer == UNCHANGED <<serverVars, elsewhere, reloads>>

------------------------------------------------------------------------------
(* The person.                                                               *)

SelectProject(p) ==
    /\ "list" \notin tab.busy /\ \E i \in DOMAIN list : list[i].project = p
    /\ p # tab.selected
    /\ tab' = Select(p) /\ calls' = StaleIfSwitched(p, calls)
    /\ UNCHANGED list /\ KeepServer

\* The retry button of a list that failed: refreshProjects.
RetryList ==
    /\ tab.error = "projects" /\ MayCall("list")
    /\ tab' = [tab EXCEPT !.busy = @ \cup {"list"}]
    /\ calls' = calls \cup {ListCall(FALSE)}
    /\ UNCHANGED list /\ KeepServer

CreateProject ==
    /\ tab.busy \cap {"list", "create"} = {}
    /\ tab' = [tab EXCEPT !.busy = @ \cup {"create"}, !.error = "none"]
    /\ calls' = calls \cup {[kind |-> "create", fresh |-> TRUE, project |-> NoProject]}
    /\ UNCHANGED list /\ KeepServer

\* startScan, offered when there is no scan or when the last one failed.
StartScan ==
    /\ Entries # {} /\ ~Completed /\ "scan" \notin tab.busy
    /\ tab.scan = NoScan \/ tab.status.state = "failed"
    /\ MayCall("scan")
    /\ tab' = [tab EXCEPT !.busy = @ \cup {"scan"}, !.error = "none"]
    /\ calls' = Stale(calls) \cup {[kind |-> "scan", fresh |-> TRUE, project |-> tab.selected, job |-> NoJob]}
    /\ UNCHANGED list /\ KeepServer

\* DiscoveryReview is shown.
Reviewing == Entries # {} /\ ~Completed /\ tab.status.state = "succeeded"

\* setDiscoveryIncluded, selectAllEligible and clearSelection.
Choose(included) ==
    /\ Reviewing /\ tab.scan # NoScan
    /\ IF tab.scan.included = Unknown THEN included \in {{}, tab.status.found}
       ELSE \/ included \in {{}, tab.status.found}
            \/ \E d \in tab.status.found :
                  included \in {tab.scan.included \cup {d}, tab.scan.included \ {d}}
    /\ tab' = [tab EXCEPT !.scan.included = included]
    /\ UNCHANGED <<list, calls>> /\ KeepServer

CaptureDefault ==
    /\ Reviewing /\ "capture" \notin tab.busy
    /\ tab.scan # NoScan /\ tab.scan.included # Unknown /\ MayCall("capture")
    /\ tab' = [tab EXCEPT !.busy = @ \cup {"capture"}, !.error = "none"]
    /\ calls' = calls \cup {[kind |-> "capture", fresh |-> TRUE, project |-> tab.scan.project,
                             job |-> tab.scan.job, items |-> tab.scan.included, reply |-> NoRevision]}
    /\ UNCHANGED list /\ KeepServer

\* The tab is reloaded, or its workspace is left and entered again: what was
\* asked may still be done, as by others, but nobody waits for the answers.
Reload ==
    /\ reloads < MaxReloads /\ reloads' = reloads + 1
    /\ tab' = Mounted(IF tab.scan # NoScan THEN tab.scan.project ELSE tab.selected, tab.scan)
    /\ list' = <<>> /\ calls' = {ListCall(FALSE)}
    /\ UNCHANGED <<serverVars, elsewhere>>

Person ==
    \/ \E p \in Projects : SelectProject(p)
    \/ \E S \in SUBSET Discoveries : Choose(S)
    \/ RetryList \/ CreateProject \/ StartScan \/ CaptureDefault \/ Reload

------------------------------------------------------------------------------
(* The polls of the hook, every 1.5 seconds while the scan is not known to   *)
(* have ended, and the retry button of a status that failed.                 *)

\* Mutant: the polls start with the first status, which a reload loses.
PollingAfterScan == tab.status.state = "active"

Polling == ~Ended(tab.status.state) \/ tab.error = "status"

PollStarts ==
    /\ tab.scan # NoScan /\ Polling /\ MayCall("job")
    /\ calls' = {IF c.kind = "job" THEN [c EXCEPT !.newest = FALSE] ELSE c : c \in calls}
          \cup {[kind |-> "job", fresh |-> TRUE, newest |-> TRUE, job |-> tab.scan.job, reply |-> NoStatus]}
    /\ UNCHANGED <<tab, list>> /\ KeepServer

\* isCurrent
Adopts(c) == c.reply # NoStatus /\ c.fresh /\ c.newest

PollAdopted(c) ==
    /\ c.kind = "job" /\ Adopts(c)
    /\ tab' = [tab EXCEPT
          !.status = c.reply,
          !.scan = IF c.reply.state = "succeeded" /\ tab.scan # NoScan /\ tab.scan.job = c.job
                   THEN [tab.scan EXCEPT !.included = Reconcile(tab.scan.included, c.reply.found)]
                   ELSE tab.scan,
          !.error = IF @ = "status" THEN "none" ELSE @]
    /\ calls' = calls \ {c}
    /\ UNCHANGED list /\ KeepServer

PollIgnored(c) ==
    /\ c.kind = "job" /\ c.reply # NoStatus /\ ~Adopts(c)
    /\ calls' = calls \ {c}
    /\ UNCHANGED <<tab, list>> /\ KeepServer

------------------------------------------------------------------------------
(* The other answers.                                                        *)

\* refreshProjects adopts whatever list comes: it has no guard.  The list that
\* follows a capture ends the capture.
ListLands(c) ==
    /\ c.kind = "list" /\ c.rows # Unread
    /\ LET known == {c.rows[i].project : i \in DOMAIN c.rows}
           next == IF tab.selected \in known THEN tab.selected
                   ELSE IF c.rows = <<>> THEN NoProject ELSE c.rows[1].project
       IN  /\ list' = c.rows
           /\ tab' = [Select(next) EXCEPT
                 !.busy = (@ \ (IF c.after THEN {} ELSE {"list"}))
                             \ (IF c.after /\ c.fresh /\ next = tab.selected THEN {"capture"} ELSE {}),
                 !.error = IF @ = "projects" THEN "none" ELSE @]
           /\ calls' = StaleIfSwitched(next, calls \ {c})
    /\ KeepServer

\* The created project is appended to whatever list there is by then.
CreateLands(c) ==
    /\ c.kind = "create" /\ c.project # NoProject
    /\ list' = Append(list, [project |-> c.project, captured |-> FALSE])
    /\ LET next == IF c.fresh THEN c.project ELSE tab.selected
       IN  /\ tab' = [Select(next) EXCEPT !.busy = @ \ {"create"}]
           /\ calls' = StaleIfSwitched(next, calls \ {c})
    /\ KeepServer

ScanLands(c) ==
    /\ c.kind = "scan" /\ c.job # NoJob
    /\ tab' = IF c.fresh
              THEN [tab EXCEPT !.scan = [project |-> c.project, job |-> c.job, included |-> Unknown],
                               !.status = [job |-> c.job, state |-> "active", found |-> {}],
                               !.capture = NoRevision, !.busy = @ \ {"scan"}]
              ELSE tab
    /\ calls' = calls \ {c}
    /\ UNCHANGED list /\ KeepServer

CaptureLands(c) ==
    /\ c.kind = "capture" /\ c.reply # NoRevision
    /\ IF c.fresh
       THEN /\ tab' = [tab EXCEPT !.capture = c.reply]
            /\ calls' = (calls \ {c}) \cup {ListCall(TRUE)}
       ELSE UNCHANGED tab /\ calls' = calls \ {c}
    /\ UNCHANGED list /\ KeepServer

\* A call is refused, or it or its answer is lost.  Only that of a list is
\* reported whatever its context.
CallFails(c) ==
    /\ c \in calls
    /\ calls' = calls \ {c}
    /\ tab' = CASE c.kind = "list" ->
                     [tab EXCEPT !.error = "projects",
                          !.busy = @ \ (IF ~c.after THEN {"list"} ELSE IF c.fresh THEN {"capture"} ELSE {})]
                [] c.kind = "create" ->
                     [tab EXCEPT !.busy = @ \ {"create"}, !.error = IF c.fresh THEN "none" ELSE @]
                [] c.kind = "job" ->
                     [tab EXCEPT !.error = IF c.fresh /\ c.newest THEN "status" ELSE @]
                [] OTHER ->
                     IF c.fresh THEN [tab EXCEPT !.busy = @ \ {c.kind}, !.error = "none"] ELSE tab
    /\ UNCHANGED list /\ KeepServer

Answers ==
    \E c \in calls :
        \/ PollAdopted(c) \/ PollIgnored(c) \/ ListLands(c) \/ CreateLands(c)
        \/ ScanLands(c) \/ CaptureLands(c) \/ CallFails(c)

------------------------------------------------------------------------------
(* The control plane and the runner.                                         *)

KeepTab == UNCHANGED <<tab, list>>
Served(c, answer) == calls' = (calls \ {c}) \cup {answer}

\* listProjects: the projects, each with revision 1 of its Default if it has one.
ServeList(c) ==
    /\ c.kind = "list" /\ c.rows = Unread
    /\ Served(c, [c EXCEPT !.rows = [i \in DOMAIN rows |->
                    [project |-> rows[i], captured |-> first[rows[i]] # NoRevision]]])

Exists(p) == \E i \in DOMAIN rows : rows[i] = p

ServeCreate(c, p) ==
    /\ c.kind = "create" /\ c.project = NoProject /\ ~Exists(p)
    /\ rows' = Append(rows, p)
    /\ Served(c, [c EXCEPT !.project = p])

\* enqueueScan
ServeScan(c, j) ==
    /\ c.kind = "scan" /\ c.job = NoJob /\ job[j].state = "none"
    /\ job' = [job EXCEPT ![j] = [project |-> c.project, state |-> "active", found |-> {}]]
    /\ Served(c, [c EXCEPT !.job = j])

ServeJob(c) ==
    /\ c.kind = "job" /\ c.reply = NoStatus
    /\ Served(c, [c EXCEPT !.reply = [job |-> c.job, state |-> job[c.job].state, found |-> job[c.job].found]])

\* captureDefault of the repository inserts where nothing is.
CapturedBy(p, asked) == first[p] = NoRevision

\* The transaction of a capture, under the lock of the project.  A Default that
\* is there already has to be the one asked for, in its last revision, and a
\* published revision has no scan as its source.
CaptureOnce(p, asked) ==
    /\ IF CapturedBy(p, asked)
       THEN first' = [first EXCEPT ![p] = asked]
       ELSE first[p] = asked /\ p \notin republished /\ UNCHANGED first
    /\ UNCHANGED republished

\* captureDefault of the service: the scan ended well and is of this project,
\* and the items are of it.
ServeCapture(c) ==
    /\ c.kind = "capture" /\ c.reply = NoRevision
    /\ job[c.job].state = "succeeded" /\ job[c.job].project = c.project
    /\ c.items \subseteq job[c.job].found
    /\ LET asked == [scan |-> c.job, items |-> c.items]
       IN  CaptureOnce(c.project, asked) /\ Served(c, [c EXCEPT !.reply = asked])

Server ==
    /\ \E c \in calls :
          \/ ServeList(c) /\ UNCHANGED serverVars
          \/ ServeJob(c) /\ UNCHANGED serverVars
          \/ (\E p \in Projects : ServeCreate(c, p)) /\ UNCHANGED <<job, first, republished>>
          \/ (\E j \in Jobs : ServeScan(c, j)) /\ UNCHANGED <<rows, first, republished>>
          \/ ServeCapture(c) /\ UNCHANGED <<rows, job>>
    /\ KeepTab /\ UNCHANGED <<elsewhere, reloads>>

\* The runner ends a scan, or the scan expires or is cancelled.
ScanEnds(j, state, found) ==
    /\ job[j].state = "active"
    /\ state = "failed" => found = {}
    /\ job' = [job EXCEPT ![j].state = state, ![j].found = found]
    /\ UNCHANGED <<rows, first, republished, elsewhere, reloads, calls>> /\ KeepTab

Runner ==
    \E j \in Jobs, S \in SUBSET Discoveries :
        ScanEnds(j, "succeeded", S) \/ ScanEnds(j, "failed", S)

\* Others, and what this tab asked before it was reloaded: a project is
\* created, its Default is captured from any scan, or a revision is published
\* (SetupLibrary has how).
Elsewhere ==
    /\ elsewhere < MaxElsewhere /\ elsewhere' = elsewhere + 1
    /\ \E p \in Projects, S \in SUBSET Discoveries :
          \/ ~Exists(p) /\ rows' = Append(rows, p) /\ UNCHANGED <<first, republished>>
          \/ /\ Exists(p) /\ first[p] = NoRevision
             /\ \E j \in Jobs \cup {OtherScan} :
                   /\ j \in Jobs => job[j].project = p /\ job[j].state = "succeeded" /\ S \subseteq job[j].found
                   /\ first' = [first EXCEPT ![p] = [scan |-> j, items |-> S]]
             /\ UNCHANGED <<rows, republished>>
          \/ /\ first[p] # NoRevision /\ p \notin republished
             /\ republished' = republished \cup {p}
             /\ UNCHANGED <<rows, first>>
    /\ UNCHANGED <<job, calls, reloads>> /\ KeepTab

Next == Person \/ PollStarts \/ Answers \/ Server \/ Runner \/ Elsewhere

Spec == Init /\ [][Next]_vars

\* The newest poll is read by the control plane.
NewestServed ==
    /\ \E c \in calls : c.kind = "job" /\ c.fresh /\ c.newest /\ ServeJob(c)
    /\ UNCHANGED <<serverVars, elsewhere, reloads>> /\ KeepTab

\* The interval keeps firing, polls that were overtaken end some day, and again
\* and again a poll neither fails nor is overtaken by the next one, 1.5 seconds
\* later.
FairSpec ==
    /\ Spec
    /\ WF_vars(PollStarts)
    /\ WF_vars(\E c \in calls : PollIgnored(c) \/ (c.kind = "job" /\ ~c.newest /\ CallFails(c)))
    /\ SF_vars(NewestServed)
    /\ SF_vars(\E c \in calls : PollAdopted(c))

------------------------------------------------------------------------------
\* Every row, call and field of the hook has its type.
TypeOK ==
    /\ \A p \in Known : Exists(p)
    /\ job \in [Jobs -> [project : Projects \cup {NoProject},
                         state : {"none", "active", "succeeded", "failed"}, found : SUBSET Discoveries]]
    /\ first \in [Projects -> Revisions] /\ republished \subseteq Projects
    /\ tab.selected \in Projects \cup {NoProject}
    /\ tab.scan.included \subseteq Discoveries \/ tab.scan.included = Unknown
    /\ tab.status \in Statuses /\ tab.capture \in Revisions
    /\ tab.busy \subseteq {"list", "create", "scan", "capture"}
    /\ tab.error \in {"none", "projects", "status"}
    /\ \A i \in DOMAIN list : list[i].project \in Projects

\* The scan, the status and the capture that a tab shows are those of the
\* project it shows as selected, however late the answers come that set them
\* and whatever was selected, created or reloaded meanwhile: nobody reviews or
\* captures the discoveries of another project's checkout.
OnlySelectedProject ==
    /\ tab.scan # NoScan => /\ tab.scan.project = tab.selected
                            /\ job[tab.scan.job].project = tab.selected
    /\ tab.status # NoStatus => tab.status.job = tab.scan.job
    /\ tab.capture # NoRevision => first[tab.selected] = tab.capture

\* What the person reviews stays as it is until the person changes it: the end
\* of a scan that was shown is not taken back by an answer that comes late, and
\* no answer and no reload selects or drops a discovery.
ReviewIsKept ==
    [][tab'.scan.job = tab.scan.job =>
         /\ tab.scan.included # Unknown /\ tab'.scan.included # tab.scan.included
               => calls' = calls
         /\ Ended(tab.status.state) /\ tab'.status # tab.status => reloads' # reloads]_vars

\* The end of a scan reaches the tab that waits for it.
ScanEndIsShown ==
    \A j \in Jobs : tab.scan.job = j /\ Ended(job[j].state)
                       ~> tab.scan.job # j \/ Ended(tab.status.state)
==============================================================================
