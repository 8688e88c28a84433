-------------------------- MODULE ProjectScanProofs --------------------------
(* A tab shows the scan, the status and the capture of the project that it   *)
(* shows as selected, and what is reviewed stays, for any projects, scans    *)
(* and discoveries, and any number of calls in flight and of reloads.        *)
EXTENDS ProjectScan, FiniteSetTheorems, TLAPS

Entry == [project : Projects, captured : BOOLEAN]
ScanTypes == [project : Projects \cup {NoProject}, job : Jobs \cup {NoJob},
              included : (SUBSET Discoveries) \cup {Unknown}]
TabTypes == [selected : Projects \cup {NoProject}, scan : ScanTypes, status : Statuses,
             capture : Revisions, busy : SUBSET {"list", "create", "scan", "capture"},
             error : {"none", "projects", "status"}]

ListCalls == [kind : {"list"}, fresh : BOOLEAN, after : BOOLEAN, rows : Seq(Entry) \cup {Unread}]
CreateCalls == [kind : {"create"}, fresh : BOOLEAN, project : Projects \cup {NoProject}]
ScanCalls == [kind : {"scan"}, fresh : BOOLEAN, project : Projects, job : Jobs \cup {NoJob}]
JobCalls == [kind : {"job"}, fresh : BOOLEAN, newest : BOOLEAN, job : Jobs, reply : Statuses]
CaptureCalls == [kind : {"capture"}, fresh : BOOLEAN, project : Projects, job : Jobs,
                 items : SUBSET Discoveries, reply : Revisions]
CallTypes == ListCalls \cup CreateCalls \cup ScanCalls \cup JobCalls \cup CaptureCalls

\* The tables of the control plane.
WorldTyped ==
    /\ rows \in Seq(Projects) /\ \A p \in Known : Exists(p)
    /\ job \in [Jobs -> [project : Projects \cup {NoProject},
                         state : {"none", "active", "succeeded", "failed"}, found : SUBSET Discoveries]]
    /\ first \in [Projects -> Revisions] /\ republished \subseteq Projects

\* What is said of the scan j: its end, if any, is the one that it came to.
Tells(status, j, jobs) ==
    /\ j \in Jobs /\ status.job = j
    /\ Ended(status.state) => jobs[j].state = status.state /\ status.found = jobs[j].found

\* What a tab holds is of the project selected.
TabHolds(t, jobs, firsts) ==
    /\ t \in TabTypes
    /\ t.scan = NoScan \/
        /\ t.scan.job \in Jobs /\ t.selected \in Projects /\ t.scan.project = t.selected
        /\ jobs[t.scan.job].project = t.selected /\ jobs[t.scan.job].state # "none"
        /\ t.scan.included # Unknown =>
              jobs[t.scan.job].state = "succeeded" /\ t.scan.included \subseteq jobs[t.scan.job].found
    /\ t.status # NoStatus => t.scan # NoScan /\ Tells(t.status, t.scan.job, jobs)
    /\ t.capture # NoRevision => t.selected \in Projects /\ firsts[t.selected] = t.capture

\* What a call carries: an answer is true, and stays so.
Honest(c, jobs, firsts) ==
    /\ c \in CallTypes
    /\ c.kind = "job" => jobs[c.job].state # "none" /\ (c.reply = NoStatus \/ Tells(c.reply, c.job, jobs))
    /\ c.kind = "scan" /\ c.job # NoJob => jobs[c.job].project = c.project /\ jobs[c.job].state # "none"
    /\ c.kind = "capture" /\ c.reply # NoRevision => firsts[c.project] = c.reply

\* A call of the current context is about what the tab t shows.
FitsTab(c, t) ==
    c.fresh =>
        /\ c.kind = "job" => t.scan # NoScan /\ c.job = t.scan.job
        /\ c.kind \in {"scan", "capture"} => c.project = t.selected
        /\ c.kind = "scan" /\ c.job # NoJob => c.job # t.scan.job

Scanning(c) == c.kind = "scan" /\ c.fresh
Watching(c) == c.kind = "job" /\ c.fresh

\* While a new scan is asked for, nobody polls the last one.
ScanIsAlone(S, t) ==
    \A c \in S : Scanning(c) =>
        /\ \A d \in S : ~Watching(d) /\ (Scanning(d) => d = c)
        /\ t.error # "status" /\ (t.scan = NoScan \/ Ended(t.status.state))

\* Only the newest poll can be adopted, and none is left once the end is shown.
NewestIsAlone(S, t) ==
    /\ \A c, d \in S : c.kind = "job" /\ c.newest /\ d.kind = "job" /\ d.newest => c = d
    /\ Ended(t.status.state) => /\ t.error # "status"
                                /\ \A c \in S : ~(Watching(c) /\ c.newest)

ScanInv ==
    /\ WorldTyped /\ TabHolds(tab, job, first) /\ list \in Seq(Entry) /\ reloads \in Nat
    /\ \A c \in calls : Honest(c, job, first) /\ FitsTab(c, tab)
    /\ ScanIsAlone(calls, tab) /\ NewestIsAlone(calls, tab)

------------------------------------------------------------------------------
(* What the control plane does is not taken back.                            *)

\* A scan stays one of its project, and as it ended; a Default captured stays.
Kept(jobs, firsts, jobs2, firsts2) ==
    /\ \A j \in Jobs : jobs[j].state # "none" =>
          /\ jobs2[j].project = jobs[j].project /\ jobs2[j].state # "none"
          /\ Ended(jobs[j].state) => jobs2[j] = jobs[j]
    /\ \A p \in Projects : firsts[p] # NoRevision => firsts2[p] = firsts[p]

LEMMA NoneEnded == ~Ended("none") /\ ~Ended("active") /\ Ended("succeeded") /\ Ended("failed")
BY DEF Ended

LEMMA NoJobIsNone == NoJob \notin Jobs
BY ScanAssumption

LEMMA TellsStays ==
    ASSUME NEW jobs, NEW firsts, NEW jobs2, NEW firsts2, Kept(jobs, firsts, jobs2, firsts2),
           NEW status, NEW j, Tells(status, j, jobs)
    PROVE  Tells(status, j, jobs2)
BY NoneEnded DEF Kept, Tells

LEMMA TabStays ==
    ASSUME NEW jobs, NEW firsts, NEW jobs2, NEW firsts2, Kept(jobs, firsts, jobs2, firsts2),
           NEW t, TabHolds(t, jobs, firsts)
    PROVE  TabHolds(t, jobs2, firsts2)
<1>1. t.status # NoStatus => Tells(t.status, t.scan.job, jobs2)
    BY TellsStays DEF TabHolds
<1> QED BY <1>1, NoneEnded DEF Kept, TabHolds

LEMMA HonestStays ==
    ASSUME NEW jobs, NEW firsts, NEW jobs2, NEW firsts2, Kept(jobs, firsts, jobs2, firsts2),
           NEW c, Honest(c, jobs, firsts)
    PROVE  Honest(c, jobs2, firsts2)
<1>1. CASE c.kind = "job"
    <2>1. c \in JobCalls
        BY <1>1 DEF Honest, CallTypes, ListCalls, CreateCalls, ScanCalls, CaptureCalls
    <2>2. c.reply = NoStatus \/ Tells(c.reply, c.job, jobs2)
        BY <1>1, TellsStays DEF Honest
    <2> QED BY <1>1, <2>1, <2>2 DEF Kept, Honest, JobCalls
<1>2. CASE c.kind = "scan"
    <2>1. c \in ScanCalls
        BY <1>2 DEF Honest, CallTypes, ListCalls, CreateCalls, JobCalls, CaptureCalls
    <2> QED BY <1>2, <2>1 DEF Kept, Honest, ScanCalls
<1>3. CASE c.kind = "capture"
    <2>1. c \in CaptureCalls
        BY <1>3 DEF Honest, CallTypes, ListCalls, CreateCalls, ScanCalls, JobCalls
    <2> QED BY <1>3, <2>1 DEF Kept, Honest, CaptureCalls
<1>4. CASE c.kind \notin {"job", "scan", "capture"}
    BY <1>4 DEF Honest
<1> QED BY <1>1, <1>2, <1>3, <1>4

------------------------------------------------------------------------------
(* Calls that grow old, go, come and are answered.                           *)

LEMMA StaleIsHonest ==
    ASSUME NEW jobs, NEW firsts, NEW d, Honest(d, jobs, firsts)
    PROVE  /\ Honest([d EXCEPT !.fresh = FALSE], jobs, firsts)
           /\ [d EXCEPT !.fresh = FALSE].fresh = FALSE /\ [d EXCEPT !.fresh = FALSE].kind = d.kind
           /\ d.kind = "job" => [d EXCEPT !.fresh = FALSE].newest = d.newest
<1> USE DEF Honest, CallTypes, ListCalls, CreateCalls, ScanCalls, JobCalls, CaptureCalls
<1>1. CASE d \in ListCalls
    BY <1>1
<1>2. CASE d \in CreateCalls
    BY <1>2
<1>3. CASE d \in ScanCalls
    BY <1>3
<1>4. CASE d \in JobCalls
    BY <1>4
<1>5. CASE d \in CaptureCalls
    BY <1>5
<1> QED BY <1>1, <1>2, <1>3, <1>4, <1>5

\* Of calls that grew old, nothing can be adopted.
LEMMA StaleCalls ==
    ASSUME NEW jobs, NEW firsts, NEW S, \A d \in S : Honest(d, jobs, firsts), NEW t, NEW u,
           NewestIsAlone(S, u), Ended(t.status.state) => t.error # "status"
    PROVE  /\ \A c \in Stale(S) : Honest(c, jobs, firsts) /\ ~c.fresh
           /\ ScanIsAlone(Stale(S), t) /\ NewestIsAlone(Stale(S), t)
<1>1. ASSUME NEW c \in Stale(S)
      PROVE  \E d \in S : /\ c = [d EXCEPT !.fresh = FALSE] /\ Honest(c, jobs, firsts) /\ c.fresh = FALSE
                          /\ c.kind = d.kind /\ (d.kind = "job" => c.newest = d.newest)
    <2>1. PICK d \in S : c = [d EXCEPT !.fresh = FALSE]
        BY <1>1 DEF Stale
    <2>2. /\ Honest(c, jobs, firsts) /\ c.fresh = FALSE /\ c.kind = d.kind
          /\ d.kind = "job" => c.newest = d.newest
        BY <2>1, StaleIsHonest, Honest(d, jobs, firsts)
    <2> QED BY <2>1, <2>2
<1>2. \A c \in Stale(S) : Honest(c, jobs, firsts) /\ ~c.fresh
    BY <1>1
<1>3. ScanIsAlone(Stale(S), t)
    BY <1>2 DEF ScanIsAlone, Scanning
<1>4. ASSUME NEW c1 \in Stale(S), NEW c2 \in Stale(S),
             c1.kind = "job", c1.newest, c2.kind = "job", c2.newest
      PROVE  c1 = c2
    <2>1. PICK d1 \in S : c1 = [d1 EXCEPT !.fresh = FALSE] /\ d1.kind = "job" /\ d1.newest
        BY <1>1, <1>4
    <2>2. PICK d2 \in S : c2 = [d2 EXCEPT !.fresh = FALSE] /\ d2.kind = "job" /\ d2.newest
        BY <1>1, <1>4
    <2>3. d1 = d2
        BY <2>1, <2>2 DEF NewestIsAlone
    <2> QED BY <2>1, <2>2, <2>3
<1>5. NewestIsAlone(Stale(S), t)
    BY <1>2, <1>4 DEF NewestIsAlone, Watching
<1> QED BY <1>2, <1>3, <1>5

\* A tab that differs in what is busy, or in an error that went.
Resembles(t, u) ==
    /\ t \in TabTypes /\ t.selected = u.selected /\ t.scan = u.scan /\ t.status = u.status
    /\ t.capture = u.capture /\ (t.error = "status" => u.error = "status")

LEMMA TabResembles ==
    ASSUME NEW jobs, NEW firsts, NEW t, NEW u, Resembles(t, u), NEW S
    PROVE  /\ TabHolds(u, jobs, firsts) => TabHolds(t, jobs, firsts)
           /\ \A c : FitsTab(c, u) => FitsTab(c, t)
           /\ ScanIsAlone(S, u) => ScanIsAlone(S, t)
           /\ NewestIsAlone(S, u) => NewestIsAlone(S, t)
<1>1. TabHolds(u, jobs, firsts) => TabHolds(t, jobs, firsts)
    BY DEF Resembles, TabHolds
<1>2. \A c : FitsTab(c, u) => FitsTab(c, t)
    BY DEF Resembles, FitsTab
<1>3. ScanIsAlone(S, u) => ScanIsAlone(S, t)
    BY DEF Resembles, ScanIsAlone
<1>4. NewestIsAlone(S, u) => NewestIsAlone(S, t)
    BY DEF Resembles, NewestIsAlone
<1> QED BY <1>1, <1>2, <1>3, <1>4

LEMMA FewerCalls ==
    ASSUME NEW t, NEW R, NEW S, S \subseteq R
    PROVE  /\ ScanIsAlone(R, t) => ScanIsAlone(S, t)
           /\ NewestIsAlone(R, t) => NewestIsAlone(S, t)
BY DEF ScanIsAlone, NewestIsAlone

LEMMA OtherCalls ==
    ASSUME NEW t, NEW S, NEW c, c.kind \in {"list", "create", "capture"}
    PROVE  /\ ScanIsAlone(S, t) => ScanIsAlone(S \cup {c}, t)
           /\ NewestIsAlone(S, t) => NewestIsAlone(S \cup {c}, t)
BY DEF ScanIsAlone, NewestIsAlone, Scanning, Watching

\* A list is asked for.
LEMMA ListCallIsHonest ==
    ASSUME NEW jobs, NEW firsts, NEW t, NEW after \in BOOLEAN
    PROVE  LET c == ListCall(after) IN
           Honest(c, jobs, firsts) /\ FitsTab(c, t) /\ c.kind = "list"
BY DEF ListCall, Honest, FitsTab, CallTypes, ListCalls

\* The tab stays as it is but for what is busy, and calls go or one comes.
LEMMA CallsStep ==
    ASSUME ScanInv, UNCHANGED serverVars, list' \in Seq(Entry), reloads' \in Nat,
           Resembles(tab', tab), NEW S, S \subseteq calls,
           \/ calls' = S
           \/ \E c : /\ calls' = S \cup {c} /\ c.kind \in {"list", "create", "capture"}
                     /\ Honest(c, job, first) /\ FitsTab(c, tab)
    PROVE  ScanInv'
<1>1. WorldTyped'
    BY DEF ScanInv, WorldTyped, serverVars, Exists
<1>2. TabHolds(tab', job, first) /\ job' = job /\ first' = first
    BY TabResembles DEF ScanInv, serverVars
<1>3. \A c \in calls' : Honest(c, job, first) /\ FitsTab(c, tab')
    BY TabResembles DEF ScanInv
<1>4. ScanIsAlone(calls', tab) /\ NewestIsAlone(calls', tab)
    <2>1. ScanIsAlone(S, tab) /\ NewestIsAlone(S, tab)
        BY FewerCalls DEF ScanInv
    <2> QED BY <2>1, OtherCalls
<1>5. ScanIsAlone(calls', tab') /\ NewestIsAlone(calls', tab')
    BY <1>4, TabResembles
<1> QED BY <1>1, <1>2, <1>3, <1>5 DEF ScanInv

\* The tab of another project is empty.
LEMMA SelectEmpties ==
    ASSUME ScanInv, NEW p \in Projects \cup {NoProject}, p # tab.selected
    PROVE  LET t == Select(p) IN
           /\ t \in TabTypes /\ t.selected = p /\ t.scan = NoScan /\ t.status = NoStatus
           /\ t.capture = NoRevision /\ t.error = "none"
<1> DEFINE t == Select(p)
<1>1. t = [tab EXCEPT !.selected = p, !.scan = NoScan, !.status = NoStatus, !.capture = NoRevision,
                      !.busy = @ \ {"scan", "capture"}, !.error = "none"]
    BY DEF Select
<1>2. NoScan \in ScanTypes /\ NoStatus \in Statuses /\ NoRevision \in Revisions
    BY DEF NoScan, ScanTypes, NoStatus, Statuses, NoRevision, Revisions, Unknown
<1>3. tab \in TabTypes /\ tab.busy \ {"scan", "capture"} \subseteq {"list", "create", "scan", "capture"}
    BY DEF ScanInv, TabHolds, TabTypes
<1>4. /\ t \in TabTypes /\ t.selected = p /\ t.scan = NoScan /\ t.status = NoStatus
      /\ t.capture = NoRevision /\ t.error = "none"
    <2> HIDE DEF t
    <2> QED BY <1>1, <1>2, <1>3 DEF TabTypes
<1> QED BY <1>4

LEMMA EmptyTabHolds ==
    ASSUME NEW jobs, NEW firsts, NEW t \in TabTypes, t.scan = NoScan, t.status = NoStatus,
           t.capture = NoRevision
    PROVE  TabHolds(t, jobs, firsts) /\ ~Ended(t.status.state)
BY DEF TabHolds, NoStatus, Ended

\* selectProject, by hand or for a list or a project that came: what is shown goes and
\* what is under way is outdated, unless the project is the one shown.
LEMMA SwitchStep ==
    ASSUME ScanInv, UNCHANGED serverVars, list' \in Seq(Entry), reloads' = reloads,
           NEW p \in Projects \cup {NoProject}, Resembles(tab', Select(p)),
           NEW S, S \subseteq calls, calls' = StaleIfSwitched(p, S)
    PROVE  ScanInv'
<1>1. CASE p = tab.selected
    <2>1. Select(p) = tab /\ calls' = S
        BY <1>1 DEF Select, StaleIfSwitched
    <2> QED BY <2>1, CallsStep DEF ScanInv
<1>2. CASE p # tab.selected
    <2>1. /\ tab' \in TabTypes /\ tab'.scan = NoScan /\ tab'.status = NoStatus
          /\ tab'.capture = NoRevision /\ tab'.error # "status"
        BY <1>2, SelectEmpties DEF Resembles
    <2>2. TabHolds(tab', job, first) /\ ~Ended(tab'.status.state)
        BY <2>1, EmptyTabHolds
    <2>3. calls' = Stale(S)
        BY <1>2 DEF StaleIfSwitched
    <2>4. NewestIsAlone(S, tab) /\ \A d \in S : Honest(d, job, first)
        BY FewerCalls DEF ScanInv
    <2>5. /\ \A c \in calls' : Honest(c, job, first) /\ ~c.fresh
          /\ ScanIsAlone(calls', tab') /\ NewestIsAlone(calls', tab')
        BY <2>2, <2>3, <2>4, StaleCalls
    <2>6. WorldTyped' /\ job' = job /\ first' = first
        BY DEF ScanInv, WorldTyped, serverVars, Exists
    <2>7. \A c \in calls' : Honest(c, job', first') /\ FitsTab(c, tab')
        BY <2>5, <2>6 DEF FitsTab
    <2> QED BY <2>2, <2>5, <2>6, <2>7 DEF ScanInv
<1> QED BY <1>1, <1>2

------------------------------------------------------------------------------
(* The person.                                                               *)

LEMMA TabIsTyped ==
    ASSUME ScanInv
    PROVE  /\ tab \in TabTypes
           /\ \A b \in SUBSET {"list", "create", "scan", "capture"}, e \in {"none", "projects"} :
                 Resembles([tab EXCEPT !.busy = b, !.error = e], tab)
           /\ \A b \in SUBSET {"list", "create", "scan", "capture"} :
                 Resembles([tab EXCEPT !.busy = b], tab)
           /\ \A e \in {"none", "projects"} : Resembles([tab EXCEPT !.error = e], tab)
           /\ Resembles(tab, tab)
BY DEF ScanInv, TabHolds, TabTypes, Resembles

LEMMA SelectProjectStep ==
    ASSUME ScanInv, NEW p \in Projects, SelectProject(p)
    PROVE  ScanInv'
<1>1. Select(p) \in TabTypes
    BY SelectEmpties, TabIsTyped DEF SelectProject
<1>2. Resembles(tab', Select(p))
    BY <1>1 DEF SelectProject, Resembles
<1> QED BY <1>2, SwitchStep DEF SelectProject, KeepServer, ScanInv

LEMMA RetryListStep ==
    ASSUME ScanInv, RetryList
    PROVE  ScanInv'
<1>1. tab.busy \cup {"list"} \in SUBSET {"list", "create", "scan", "capture"}
    BY DEF ScanInv, TabHolds, TabTypes
<1>2. tab' = [tab EXCEPT !.busy = tab.busy \cup {"list"}]
    BY DEF RetryList
<1>3. Resembles(tab', tab)
    BY <1>1, <1>2, TabIsTyped
<1> QED BY <1>3, ListCallIsHonest, CallsStep DEF RetryList, KeepServer, ScanInv

LEMMA CreateProjectStep ==
    ASSUME ScanInv, CreateProject
    PROVE  ScanInv'
<1> DEFINE c == [kind |-> "create", fresh |-> TRUE, project |-> NoProject]
<1>1. tab.busy \cup {"create"} \in SUBSET {"list", "create", "scan", "capture"}
    BY DEF ScanInv, TabHolds, TabTypes
<1>2. tab' = [tab EXCEPT !.busy = tab.busy \cup {"create"}, !.error = "none"]
    BY DEF CreateProject
<1>3. Resembles(tab', tab)
    BY <1>1, <1>2, TabIsTyped
<1>4. Honest(c, job, first) /\ FitsTab(c, tab) /\ c.kind = "create"
    BY DEF Honest, FitsTab, CallTypes, CreateCalls
<1>5. calls' = calls \cup {c}
    BY DEF CreateProject
<1> HIDE DEF c
<1> QED BY <1>3, <1>4, <1>5, CallsStep DEF CreateProject, KeepServer, ScanInv

LEMMA StartScanStep ==
    ASSUME ScanInv, StartScan
    PROVE  ScanInv'
<1> DEFINE c == [kind |-> "scan", fresh |-> TRUE, project |-> tab.selected, job |-> NoJob]
<1>1. tab.busy \cup {"scan"} \in SUBSET {"list", "create", "scan", "capture"}
    BY DEF ScanInv, TabHolds, TabTypes
<1>2. tab' = [tab EXCEPT !.busy = tab.busy \cup {"scan"}, !.error = "none"] /\ tab'.error = "none"
    BY TabIsTyped DEF StartScan, TabTypes
<1>3. Resembles(tab', tab)
    BY <1>1, <1>2, TabIsTyped
<1>4. tab.selected \in Projects
    <2>1. PICK i \in DOMAIN list : list[i].project = tab.selected
        BY DEF StartScan, Entries
    <2>2. list[i] \in Entry
        BY <2>1 DEF ScanInv
    <2> QED BY <2>1, <2>2 DEF Entry
<1>5. /\ Honest(c, job, first) /\ FitsTab(c, tab')
      /\ c.kind = "scan"
    BY <1>3, <1>4 DEF Honest, FitsTab, CallTypes, ScanCalls, Resembles
<1>6. calls' = Stale(calls) \cup {c}
    BY DEF StartScan
<1> HIDE DEF c
<1>7. /\ \A d \in Stale(calls) : Honest(d, job, first) /\ ~d.fresh
      /\ NewestIsAlone(Stale(calls), tab')
    BY <1>2, StaleCalls DEF ScanInv
<1>8. tab'.scan = NoScan \/ Ended(tab'.status.state)
    BY <1>3 DEF StartScan, Ended, Resembles
<1>9. \A d \in calls' : Honest(d, job, first) /\ FitsTab(d, tab')
    BY <1>5, <1>6, <1>7 DEF FitsTab
<1>10. ScanIsAlone(calls', tab')
    BY <1>2, <1>5, <1>6, <1>7, <1>8 DEF ScanIsAlone, Scanning, Watching
<1>11. NewestIsAlone(calls', tab')
    BY <1>5, <1>6, <1>7 DEF NewestIsAlone, Watching
<1>12. WorldTyped' /\ job' = job /\ first' = first /\ list' = list /\ reloads' = reloads
    BY DEF ScanInv, WorldTyped, serverVars, Exists, StartScan, KeepServer
<1>13. TabHolds(tab', job, first)
    BY <1>3, TabResembles DEF ScanInv
<1> QED BY <1>9, <1>10, <1>11, <1>12, <1>13 DEF ScanInv

\* The scan that is reviewed ended well, with what is shown.
LEMMA ReviewedScan ==
    ASSUME ScanInv, Reviewing
    PROVE  /\ tab.scan # NoScan /\ tab.scan.job \in Jobs /\ tab.scan.project = tab.selected
           /\ tab.selected \in Projects
           /\ job[tab.scan.job].project = tab.selected /\ job[tab.scan.job].state = "succeeded"
           /\ tab.status.found = job[tab.scan.job].found
<1>1. tab.status # NoStatus
    BY DEF Reviewing, NoStatus
<1>2. tab.scan # NoScan /\ Tells(tab.status, tab.scan.job, job)
    BY <1>1 DEF ScanInv, TabHolds
<1> QED BY <1>2, NoneEnded DEF ScanInv, TabHolds, Reviewing, Tells

LEMMA ChooseStep ==
    ASSUME ScanInv, NEW included \in SUBSET Discoveries, Choose(included)
    PROVE  ScanInv'
<1>1. included \subseteq job[tab.scan.job].found
    <2>1. CASE tab.scan.included = Unknown
        BY <2>1, ReviewedScan DEF Choose
    <2>2. CASE tab.scan.included # Unknown
        <3>1. tab.scan.included \subseteq tab.status.found
            BY <2>2, ReviewedScan DEF Choose, ScanInv, TabHolds
        <3> QED BY <2>2, <3>1, ReviewedScan DEF Choose
    <2> QED BY <2>1, <2>2
<1>2. tab \in TabTypes /\ tab.scan \in ScanTypes
    BY TabIsTyped DEF TabTypes
<1>3. tab' = [tab EXCEPT !.scan = [tab.scan EXCEPT !.included = included]]
    BY <1>2 DEF Choose, TabTypes, ScanTypes
<1> DEFINE s == [tab.scan EXCEPT !.included = included]
<1>4. s \in ScanTypes /\ s.project = tab.scan.project /\ s.job = tab.scan.job /\ s.included = included
    BY <1>2 DEF ScanTypes
<1> HIDE DEF s
<1>5. /\ tab' \in TabTypes /\ tab'.scan = s /\ tab'.selected = tab.selected /\ tab'.status = tab.status
      /\ tab'.capture = tab.capture /\ tab'.error = tab.error
    BY <1>2, <1>3, <1>4 DEF TabTypes, s
<1>6. tab'.scan # NoScan /\ tab.scan # NoScan /\ Ended(tab.status.state)
    BY <1>4, <1>5, ReviewedScan, NoJobIsNone, NoneEnded DEF NoScan, Choose, Reviewing
<1>7. TabHolds(tab', job, first)
    BY <1>1, <1>4, <1>5, <1>6, ReviewedScan DEF ScanInv, TabHolds, Choose
<1>8. \A c \in calls : FitsTab(c, tab')
    BY <1>4, <1>5, <1>6 DEF ScanInv, FitsTab
<1>9. ScanIsAlone(calls, tab') /\ NewestIsAlone(calls, tab')
    BY <1>5, <1>6 DEF ScanInv, ScanIsAlone, NewestIsAlone
<1>10. /\ WorldTyped' /\ job' = job /\ first' = first /\ list' = list /\ reloads' = reloads
       /\ calls' = calls
    BY DEF ScanInv, WorldTyped, serverVars, Exists, Choose, KeepServer
<1> QED BY <1>7, <1>8, <1>9, <1>10 DEF ScanInv

LEMMA CaptureDefaultStep ==
    ASSUME ScanInv, CaptureDefault
    PROVE  ScanInv'
<1> DEFINE c == [kind |-> "capture", fresh |-> TRUE, project |-> tab.scan.project,
                 job |-> tab.scan.job, items |-> tab.scan.included, reply |-> NoRevision]
<1>1. tab.busy \cup {"capture"} \in SUBSET {"list", "create", "scan", "capture"}
    BY DEF ScanInv, TabHolds, TabTypes
<1>2. tab' = [tab EXCEPT !.busy = tab.busy \cup {"capture"}, !.error = "none"]
    BY DEF CaptureDefault
<1>3. Resembles(tab', tab)
    BY <1>1, <1>2, TabIsTyped
<1>4. Reviewing /\ tab.scan.included # Unknown /\ tab.scan.included \in SUBSET Discoveries
    BY TabIsTyped DEF CaptureDefault, TabTypes, ScanTypes
<1>5. NoRevision \in Revisions
    BY DEF NoRevision, Revisions
<1>6. c \in CaptureCalls
    BY <1>4, <1>5, ReviewedScan DEF CaptureCalls
<1>7. Honest(c, job, first) /\ FitsTab(c, tab) /\ c.kind = "capture"
    BY <1>4, <1>6, ReviewedScan DEF Honest, FitsTab, CallTypes
<1>8. calls' = calls \cup {c}
    BY DEF CaptureDefault
<1> HIDE DEF c
<1> QED BY <1>3, <1>7, <1>8, CallsStep DEF CaptureDefault, KeepServer, ScanInv

LEMMA ReloadStep ==
    ASSUME ScanInv, Reload
    PROVE  ScanInv'
<1>1. tab' = Mounted(tab.selected, tab.scan)
    BY DEF Reload, ScanInv, TabHolds
<1>2. NoStatus \in Statuses /\ NoRevision \in Revisions /\ ~Ended(NoStatus.state)
    BY NoneEnded DEF NoStatus, Statuses, NoRevision, Revisions
<1>3. /\ tab' \in TabTypes /\ tab'.scan = tab.scan /\ tab'.selected = tab.selected
      /\ tab'.status = NoStatus /\ tab'.capture = NoRevision
    BY <1>1, <1>2, TabIsTyped DEF Mounted, TabTypes
<1>4. TabHolds(tab', job, first)
    BY <1>3 DEF ScanInv, TabHolds
<1>5. calls' = {ListCall(FALSE)}
    BY DEF Reload
<1>6. /\ Honest(ListCall(FALSE), job, first) /\ FitsTab(ListCall(FALSE), tab')
      /\ ListCall(FALSE).kind = "list"
    BY ListCallIsHonest
<1>7. ScanIsAlone(calls', tab') /\ NewestIsAlone(calls', tab')
    BY <1>2, <1>3, <1>5, <1>6 DEF ScanIsAlone, NewestIsAlone, Scanning, Watching
<1>8. /\ WorldTyped' /\ job' = job /\ first' = first /\ list' = <<>> /\ reloads' \in Nat
    BY DEF ScanInv, WorldTyped, serverVars, Exists, Reload
<1>9. <<>> \in Seq(Entry)
    OBVIOUS
<1> QED BY <1>4, <1>5, <1>6, <1>7, <1>8, <1>9 DEF ScanInv

------------------------------------------------------------------------------
(* The polls.                                                                *)

\* A poll that is no longer the newest is otherwise the same.
LEMMA OvertakenIsHonest ==
    ASSUME ScanInv, NEW d \in calls
    PROVE  LET c == IF d.kind = "job" THEN [d EXCEPT !.newest = FALSE] ELSE d IN
           /\ Honest(c, job, first) /\ FitsTab(c, tab) /\ c.kind = d.kind /\ c.fresh = d.fresh
           /\ c.kind = "job" => ~c.newest
<1> DEFINE c == IF d.kind = "job" THEN [d EXCEPT !.newest = FALSE] ELSE d
<1>1. Honest(d, job, first) /\ FitsTab(d, tab)
    BY DEF ScanInv
<1>2. CASE d.kind = "job"
    <2>1. d \in JobCalls
        BY <1>1, <1>2 DEF Honest, CallTypes, ListCalls, CreateCalls, ScanCalls, CaptureCalls
    <2>2. /\ c \in JobCalls /\ c.kind = "job" /\ c.fresh = d.fresh /\ c.newest = FALSE
          /\ c.job = d.job /\ c.reply = d.reply
        BY <1>2, <2>1 DEF JobCalls
    <2>3. Honest(c, job, first) /\ FitsTab(c, tab)
        <3> HIDE DEF c
        <3> QED BY <1>1, <1>2, <2>2 DEF Honest, FitsTab, CallTypes
    <2>4. c.kind = d.kind /\ c.fresh = d.fresh /\ (c.kind = "job" => ~c.newest)
        <3> HIDE DEF c
        <3> QED BY <1>2, <2>2
    <2> QED BY <2>3, <2>4
<1>3. CASE d.kind # "job"
    BY <1>1, <1>3
<1> QED BY <1>2, <1>3

LEMMA PollStartsStep ==
    ASSUME ScanInv, PollStarts
    PROVE  ScanInv'
<1> DEFINE older(d) == IF d.kind = "job" THEN [d EXCEPT !.newest = FALSE] ELSE d
           c == [kind |-> "job", fresh |-> TRUE, newest |-> TRUE, job |-> tab.scan.job, reply |-> NoStatus]
<1>1. calls' = {older(d) : d \in calls} \cup {c}
    BY DEF PollStarts
<1>2. /\ WorldTyped' /\ job' = job /\ first' = first /\ list' = list /\ reloads' = reloads
      /\ tab' = tab
    BY DEF ScanInv, WorldTyped, serverVars, Exists, PollStarts, KeepServer
<1>3. \A d \in calls : /\ Honest(older(d), job, first) /\ FitsTab(older(d), tab)
                       /\ older(d).kind = d.kind /\ older(d).fresh = d.fresh
                       /\ older(d).kind = "job" => ~older(d).newest
    BY OvertakenIsHonest
<1>4. tab.scan # NoScan /\ tab.scan.job \in Jobs /\ job[tab.scan.job].state # "none"
    BY DEF PollStarts, ScanInv, TabHolds
<1>5. c \in JobCalls /\ c.kind = "job" /\ c.fresh /\ c.job = tab.scan.job /\ c.reply = NoStatus
    BY <1>4 DEF JobCalls, NoStatus, Statuses
<1> HIDE DEF c, older
<1>6. Honest(c, job, first) /\ FitsTab(c, tab)
    BY <1>4, <1>5 DEF Honest, FitsTab, CallTypes
<1>7. ~Ended(tab.status.state)
    BY DEF PollStarts, Polling, ScanInv, NewestIsAlone
<1>8. \A d \in calls : ~Scanning(d)
    BY <1>4, <1>7 DEF ScanInv, ScanIsAlone
<1>9. \A d \in calls' : ~Scanning(d)
    BY <1>1, <1>3, <1>5, <1>8 DEF Scanning
<1>10. ScanIsAlone(calls', tab)
    BY <1>9 DEF ScanIsAlone
<1>11. NewestIsAlone(calls', tab)
    BY <1>1, <1>3, <1>7 DEF NewestIsAlone
<1> QED BY <1>1, <1>2, <1>3, <1>6, <1>10, <1>11 DEF ScanInv

\* What a poll that can be adopted says is true of the scan that is shown.
LEMMA AdoptableTells ==
    ASSUME ScanInv, NEW c \in calls, c.kind = "job", Adopts(c)
    PROVE  /\ Tells(c.reply, tab.scan.job, job) /\ tab.scan # NoScan /\ c.job = tab.scan.job
           /\ c.reply \in Statuses /\ Watching(c) /\ c.newest
<1>1. Honest(c, job, first) /\ FitsTab(c, tab)
    BY DEF ScanInv
<1>2. c \in JobCalls
    BY <1>1 DEF Honest, CallTypes, ListCalls, CreateCalls, ScanCalls, CaptureCalls
<1> QED BY <1>1, <1>2 DEF Honest, FitsTab, Adopts, JobCalls, Watching

LEMMA PollAdoptedTab ==
    ASSUME ScanInv, NEW c \in calls, PollAdopted(c)
    PROVE  /\ tab' \in TabTypes /\ tab'.status = c.reply /\ tab'.selected = tab.selected
           /\ tab'.capture = tab.capture /\ tab'.error # "status"
           /\ tab'.scan \in ScanTypes
           /\ tab'.scan.project = tab.scan.project /\ tab'.scan.job = tab.scan.job
           /\ IF c.reply.state = "succeeded"
              THEN tab'.scan.included = Reconcile(tab.scan.included, c.reply.found)
              ELSE tab'.scan.included = tab.scan.included
<1> DEFINE s == IF c.reply.state = "succeeded" /\ tab.scan # NoScan /\ tab.scan.job = c.job
                THEN [tab.scan EXCEPT !.included = Reconcile(tab.scan.included, c.reply.found)]
                ELSE tab.scan
           e == IF tab.error = "status" THEN "none" ELSE tab.error
<1>1. /\ Tells(c.reply, tab.scan.job, job) /\ tab.scan # NoScan /\ c.job = tab.scan.job
      /\ c.reply \in Statuses
    BY AdoptableTells DEF PollAdopted
<1>2. tab \in TabTypes /\ tab.scan \in ScanTypes
    BY TabIsTyped DEF TabTypes
<1>3. Reconcile(tab.scan.included, c.reply.found) \in SUBSET Discoveries
    BY <1>1, <1>2 DEF Reconcile, ScanTypes, Statuses
<1>4. /\ s \in ScanTypes /\ s.project = tab.scan.project /\ s.job = tab.scan.job
      /\ IF c.reply.state = "succeeded"
         THEN s.included = Reconcile(tab.scan.included, c.reply.found)
         ELSE s.included = tab.scan.included
    BY <1>1, <1>2, <1>3 DEF ScanTypes
<1>5. e \in {"none", "projects"}
    BY <1>2 DEF TabTypes
<1>6. tab' = [tab EXCEPT !.status = c.reply, !.scan = s, !.error = e]
    BY <1>2 DEF PollAdopted, TabTypes, ScanTypes
<1> HIDE DEF s, e
<1>7. /\ tab' \in TabTypes /\ tab'.status = c.reply /\ tab'.selected = tab.selected
      /\ tab'.capture = tab.capture /\ tab'.error = e /\ tab'.scan = s
    BY <1>1, <1>2, <1>4, <1>5, <1>6 DEF TabTypes
<1> QED BY <1>4, <1>5, <1>7

LEMMA PollAdoptedStep ==
    ASSUME ScanInv, NEW c \in calls, PollAdopted(c)
    PROVE  ScanInv'
<1>1. /\ Tells(c.reply, tab.scan.job, job) /\ tab.scan # NoScan /\ c.job = tab.scan.job
      /\ c.reply \in Statuses /\ Watching(c) /\ c.newest
    BY AdoptableTells DEF PollAdopted
<1>2. /\ WorldTyped' /\ job' = job /\ first' = first /\ list' = list /\ reloads' = reloads
      /\ calls' = calls \ {c} /\ c.kind = "job"
    BY DEF ScanInv, WorldTyped, serverVars, Exists, PollAdopted, KeepServer
<1>3. tab'.scan # NoScan /\ tab.scan.job \in Jobs
    BY <1>1, PollAdoptedTab, NoJobIsNone DEF NoScan, ScanInv, TabHolds
<1>4. TabHolds(tab', job, first)
    <2>1. tab'.scan.included # Unknown =>
              job[tab'.scan.job].state = "succeeded" /\ tab'.scan.included \subseteq job[tab'.scan.job].found
        <3>1. CASE c.reply.state = "succeeded"
            <4>1. job[tab.scan.job].state = "succeeded" /\ job[tab.scan.job].found = c.reply.found
                BY <1>1, <3>1, NoneEnded DEF Tells
            <4> QED BY <3>1, <4>1, PollAdoptedTab DEF Reconcile
        <3>2. CASE c.reply.state # "succeeded"
            BY <1>1, <3>2, PollAdoptedTab DEF ScanInv, TabHolds
        <3> QED BY <3>1, <3>2
    <2> QED BY <1>1, <1>3, <2>1, PollAdoptedTab DEF ScanInv, TabHolds
<1>5. \A d \in calls : ~Scanning(d)
    BY <1>1 DEF ScanInv, ScanIsAlone
<1>6. \A d \in calls' : FitsTab(d, tab')
    BY <1>2, <1>3, <1>5, PollAdoptedTab DEF ScanInv, FitsTab, Scanning
<1>7. ScanIsAlone(calls', tab')
    BY <1>2, <1>5 DEF ScanIsAlone
<1>8. NewestIsAlone(calls', tab')
    BY <1>1, <1>2, PollAdoptedTab DEF ScanInv, NewestIsAlone, Watching
<1> QED BY <1>2, <1>4, <1>6, <1>7, <1>8 DEF ScanInv

LEMMA PollIgnoredStep ==
    ASSUME ScanInv, NEW c \in calls, PollIgnored(c)
    PROVE  ScanInv'
<1>1. Resembles(tab', tab)
    BY TabIsTyped DEF PollIgnored
<1>2. calls \ {c} \subseteq calls
    OBVIOUS
<1> QED BY <1>1, <1>2, CallsStep DEF PollIgnored, KeepServer, ScanInv

------------------------------------------------------------------------------
(* The other answers.                                                        *)

LEMMA SelectedResembles ==
    ASSUME ScanInv, NEW p \in Projects \cup {NoProject}
    PROVE  /\ Select(p) \in TabTypes
           /\ \A e : \A b \in SUBSET {"list", "create", "scan", "capture"} :
                 e = Select(p).error \/ e = "none"
                    => Resembles([Select(p) EXCEPT !.busy = b, !.error = e], Select(p))
           /\ \A b \in SUBSET {"list", "create", "scan", "capture"} :
                 Resembles([Select(p) EXCEPT !.busy = b], Select(p))
<1>1. Select(p) \in TabTypes
    <2>1. CASE p = tab.selected
        BY <2>1, TabIsTyped DEF Select
    <2>2. CASE p # tab.selected
        BY <2>2, SelectEmpties
    <2> QED BY <2>1, <2>2
<1> DEFINE t == Select(p)
<1> HIDE DEF t
<1>2. ASSUME t \in TabTypes
      PROVE  /\ \A e : \A b \in SUBSET {"list", "create", "scan", "capture"} :
                   e = t.error \/ e = "none" => Resembles([t EXCEPT !.busy = b, !.error = e], t)
             /\ \A b \in SUBSET {"list", "create", "scan", "capture"} :
                   Resembles([t EXCEPT !.busy = b], t)
    BY <1>2 DEF TabTypes, Resembles
<1> QED BY <1>1, <1>2 DEF t

LEMMA ListLandsTab ==
    ASSUME ScanInv, NEW c \in calls, ListLands(c)
    PROVE  /\ \E p \in Projects \cup {NoProject} :
                 Resembles(tab', Select(p)) /\ calls' = StaleIfSwitched(p, calls \ {c})
           /\ list' \in Seq(Entry) /\ UNCHANGED serverVars /\ reloads' = reloads
<1> DEFINE next == IF tab.selected \in {c.rows[i].project : i \in DOMAIN c.rows} THEN tab.selected
                   ELSE IF c.rows = <<>> THEN NoProject ELSE c.rows[1].project
           b == (Select(next).busy \ (IF c.after THEN {} ELSE {"list"}))
                   \ (IF c.after /\ c.fresh /\ next = tab.selected THEN {"capture"} ELSE {})
           e == IF Select(next).error = "projects" THEN "none" ELSE Select(next).error
<1>1. c \in ListCalls
    BY DEF ScanInv, ListLands, Honest, CallTypes, CreateCalls, ScanCalls, JobCalls, CaptureCalls
<1>2. c.rows \in Seq(Entry)
    BY <1>1 DEF ListLands, ListCalls
<1>3. next \in Projects \cup {NoProject}
    <2>1. CASE c.rows = <<>>
        BY <2>1, TabIsTyped DEF TabTypes
    <2>2. CASE c.rows # <<>>
        <3>1. c.rows[1] \in Entry
            BY <1>2, <2>2
        <3> QED BY <2>2, <3>1, TabIsTyped DEF TabTypes, Entry
    <2> QED BY <2>1, <2>2
<1>4. /\ tab' = [Select(next) EXCEPT !.busy = b, !.error = e]
      /\ list' = c.rows /\ calls' = StaleIfSwitched(next, calls \ {c})
      /\ UNCHANGED serverVars /\ reloads' = reloads
    BY DEF ListLands, KeepServer
<1> HIDE DEF next
<1>5. b \in SUBSET {"list", "create", "scan", "capture"} /\ (e = Select(next).error \/ e = "none")
    BY <1>3, SelectedResembles DEF TabTypes
<1> HIDE DEF b, e
<1>6. Resembles(tab', Select(next))
    BY <1>3, <1>4, <1>5, SelectedResembles
<1> QED BY <1>2, <1>3, <1>4, <1>6

LEMMA CreateLandsTab ==
    ASSUME ScanInv, NEW c \in calls, CreateLands(c)
    PROVE  /\ \E p \in Projects \cup {NoProject} :
                 Resembles(tab', Select(p)) /\ calls' = StaleIfSwitched(p, calls \ {c})
           /\ list' \in Seq(Entry) /\ UNCHANGED serverVars /\ reloads' = reloads
<1> DEFINE next == IF c.fresh THEN c.project ELSE tab.selected
           b == Select(next).busy \ {"create"}
<1>1. c \in CreateCalls
    BY DEF ScanInv, CreateLands, Honest, CallTypes, ListCalls, ScanCalls, JobCalls, CaptureCalls
<1>2. c.project \in Projects
    BY <1>1 DEF CreateLands, CreateCalls
<1>3. next \in Projects \cup {NoProject}
    BY <1>2, TabIsTyped DEF TabTypes
<1>4. /\ tab' = [Select(next) EXCEPT !.busy = b]
      /\ list' = Append(list, [project |-> c.project, captured |-> FALSE])
      /\ calls' = StaleIfSwitched(next, calls \ {c})
      /\ UNCHANGED serverVars /\ reloads' = reloads
    BY DEF CreateLands, KeepServer
<1>5. list' \in Seq(Entry)
    BY <1>2, <1>4 DEF Entry, ScanInv
<1> HIDE DEF next
<1>6. b \in SUBSET {"list", "create", "scan", "capture"}
    BY <1>3, SelectedResembles DEF TabTypes
<1> HIDE DEF b
<1>7. Resembles(tab', Select(next))
    BY <1>3, <1>4, <1>6, SelectedResembles
<1> QED BY <1>3, <1>4, <1>5, <1>7

\* A list or a created project arrives: its project is selected, or the one shown.
LEMMA SelectingStep ==
    ASSUME ScanInv, NEW c \in calls, ListLands(c) \/ CreateLands(c)
    PROVE  ScanInv'
<1>1. PICK p \in Projects \cup {NoProject} :
          Resembles(tab', Select(p)) /\ calls' = StaleIfSwitched(p, calls \ {c})
    BY ListLandsTab, CreateLandsTab
<1>2. list' \in Seq(Entry) /\ UNCHANGED serverVars /\ reloads' = reloads
    BY ListLandsTab, CreateLandsTab
<1>3. calls \ {c} \subseteq calls
    OBVIOUS
<1> QED BY <1>1, <1>2, <1>3, SwitchStep

LEMMA ScanLandsStep ==
    ASSUME ScanInv, NEW c \in calls, ScanLands(c)
    PROVE  ScanInv'
<1>1. CASE ~c.fresh
    <2>1. Resembles(tab', tab) /\ calls' = calls \ {c}
        BY <1>1, TabIsTyped DEF ScanLands
    <2>2. calls \ {c} \subseteq calls
        OBVIOUS
    <2> QED BY <2>1, <2>2, CallsStep DEF ScanLands, KeepServer, ScanInv
<1>2. CASE c.fresh
    <2> DEFINE s == [project |-> c.project, job |-> c.job, included |-> Unknown]
               u == [job |-> c.job, state |-> "active", found |-> {}]
    <2>1. Honest(c, job, first) /\ FitsTab(c, tab) /\ c.kind = "scan" /\ c.job # NoJob
        BY DEF ScanInv, ScanLands
    <2>2. c \in ScanCalls
        BY <2>1 DEF Honest, CallTypes, ListCalls, CreateCalls, JobCalls, CaptureCalls
    <2>3. /\ c.job \in Jobs /\ c.project \in Projects /\ c.project = tab.selected
          /\ job[c.job].project = c.project /\ job[c.job].state # "none"
        BY <1>2, <2>1, <2>2 DEF ScanCalls, Honest, FitsTab
    <2>4. s \in ScanTypes /\ s.job = c.job /\ s.project = c.project /\ s.included = Unknown /\ s # NoScan
        BY <2>3, NoJobIsNone DEF ScanTypes, NoScan
    <2>5. u \in Statuses /\ u.job = c.job /\ u.state = "active" /\ NoRevision \in Revisions
        BY <2>3 DEF Statuses, NoRevision, Revisions
    <2>6. tab \in TabTypes /\ tab.busy \ {"scan"} \in SUBSET {"list", "create", "scan", "capture"}
        BY TabIsTyped DEF TabTypes
    <2>7. tab' = [tab EXCEPT !.scan = s, !.status = u, !.capture = NoRevision, !.busy = tab.busy \ {"scan"}]
        BY <1>2 DEF ScanLands
    <2> HIDE DEF s, u
    <2>8. /\ tab' \in TabTypes /\ tab'.scan = s /\ tab'.status = u /\ tab'.selected = tab.selected
          /\ tab'.capture = NoRevision
        BY <2>4, <2>5, <2>6, <2>7 DEF TabTypes
    <2>9. TabHolds(tab', job, first)
        BY <2>3, <2>4, <2>5, <2>8, NoneEnded DEF TabHolds, Tells
    <2>10. \A d \in calls : ~Watching(d) /\ (Scanning(d) => d = c)
        BY <1>2, <2>1 DEF ScanInv, ScanIsAlone, Scanning
    <2>11. calls' = calls \ {c}
        BY DEF ScanLands
    <2>12. \A d \in calls' : FitsTab(d, tab')
        BY <2>8, <2>10, <2>11 DEF ScanInv, FitsTab, Watching, Scanning
    <2>13. ScanIsAlone(calls', tab') /\ NewestIsAlone(calls', tab')
        BY <2>5, <2>8, <2>10, <2>11, NoneEnded DEF ScanInv, ScanIsAlone, NewestIsAlone
    <2>14. WorldTyped' /\ job' = job /\ first' = first /\ list' = list /\ reloads' = reloads
        BY DEF ScanInv, WorldTyped, serverVars, Exists, ScanLands, KeepServer
    <2> QED BY <2>9, <2>11, <2>12, <2>13, <2>14 DEF ScanInv
<1> QED BY <1>1, <1>2

LEMMA CaptureLandsStep ==
    ASSUME ScanInv, NEW c \in calls, CaptureLands(c)
    PROVE  ScanInv'
<1>0. calls \ {c} \subseteq calls
    OBVIOUS
<1>1. CASE ~c.fresh
    <2>1. Resembles(tab', tab) /\ calls' = calls \ {c}
        BY <1>1, TabIsTyped DEF CaptureLands
    <2> QED BY <1>0, <2>1, CallsStep DEF CaptureLands, KeepServer, ScanInv
<1>2. CASE c.fresh
    <2>1. Honest(c, job, first) /\ FitsTab(c, tab) /\ c.kind = "capture" /\ c.reply # NoRevision
        BY DEF ScanInv, CaptureLands
    <2>2. c \in CaptureCalls
        BY <2>1 DEF Honest, CallTypes, ListCalls, CreateCalls, ScanCalls, JobCalls
    <2>3. c.reply \in Revisions /\ tab.selected \in Projects /\ first[tab.selected] = c.reply
        BY <1>2, <2>1, <2>2 DEF CaptureCalls, Honest, FitsTab
    <2>4. tab' = [tab EXCEPT !.capture = c.reply] /\ calls' = (calls \ {c}) \cup {ListCall(TRUE)}
        BY <1>2 DEF CaptureLands
    <2>5. /\ tab' \in TabTypes /\ tab'.capture = c.reply /\ tab'.selected = tab.selected
          /\ tab'.scan = tab.scan /\ tab'.status = tab.status /\ tab'.error = tab.error
        BY <2>3, <2>4, TabIsTyped DEF TabTypes
    <2>6. TabHolds(tab', job, first)
        BY <2>3, <2>5 DEF ScanInv, TabHolds
    <2> DEFINE n == ListCall(TRUE)
    <2>7. Honest(n, job, first) /\ FitsTab(n, tab') /\ n.kind \in {"list", "create", "capture"}
        BY ListCallIsHonest
    <2>8. calls' = (calls \ {c}) \cup {n}
        BY <2>4
    <2> HIDE DEF n
    <2>9. \A d \in calls' : Honest(d, job, first) /\ FitsTab(d, tab')
        BY <2>5, <2>7, <2>8 DEF ScanInv, FitsTab
    <2>10. ScanIsAlone(calls \ {c}, tab) /\ NewestIsAlone(calls \ {c}, tab)
        BY <1>0, FewerCalls DEF ScanInv
    <2>11. ScanIsAlone(calls', tab) /\ NewestIsAlone(calls', tab)
        BY <2>7, <2>8, <2>10, OtherCalls
    <2>12. ScanIsAlone(calls', tab') /\ NewestIsAlone(calls', tab')
        BY <2>5, <2>11 DEF ScanIsAlone, NewestIsAlone
    <2>13. WorldTyped' /\ job' = job /\ first' = first /\ list' = list /\ reloads' = reloads
        BY DEF ScanInv, WorldTyped, serverVars, Exists, CaptureLands, KeepServer
    <2> QED BY <2>6, <2>9, <2>12, <2>13 DEF ScanInv
<1> QED BY <1>1, <1>2

\* A call fails: only that of the newest poll leaves an error that ScanInv speaks of.
LEMMA CallFailsStep ==
    ASSUME ScanInv, NEW c \in calls, CallFails(c)
    PROVE  ScanInv'
<1>0. calls \ {c} \subseteq calls /\ calls' = calls \ {c}
    BY DEF CallFails
<1>1. CASE c.kind = "job" /\ c.fresh /\ c.newest
    <2>1. tab' = [tab EXCEPT !.error = "status"]
        BY <1>1 DEF CallFails
    <2>2. /\ tab' \in TabTypes /\ tab'.capture = tab.capture /\ tab'.selected = tab.selected
          /\ tab'.scan = tab.scan /\ tab'.status = tab.status
        BY <2>1, TabIsTyped DEF TabTypes
    <2>3. TabHolds(tab', job, first) /\ \A d \in calls : FitsTab(d, tab')
        BY <2>2 DEF ScanInv, TabHolds, FitsTab
    <2>4. \A d \in calls : ~Scanning(d)
        BY <1>1 DEF ScanInv, ScanIsAlone, Watching
    <2>5. ~Ended(tab.status.state)
        BY <1>1 DEF ScanInv, NewestIsAlone, Watching
    <2>6. ScanIsAlone(calls', tab') /\ NewestIsAlone(calls', tab')
        BY <1>0, <2>2, <2>4, <2>5 DEF ScanInv, ScanIsAlone, NewestIsAlone
    <2>7. WorldTyped' /\ job' = job /\ first' = first /\ list' = list /\ reloads' = reloads
        BY DEF ScanInv, WorldTyped, serverVars, Exists, CallFails, KeepServer
    <2> QED BY <1>0, <2>3, <2>6, <2>7 DEF ScanInv
<1>2. CASE ~(c.kind = "job" /\ c.fresh /\ c.newest)
    <2>0. c \in CallTypes /\ tab \in TabTypes
        BY TabIsTyped DEF ScanInv, Honest
    <2>1. Resembles(tab', tab)
        <3>1. CASE c.kind = "list"
            <4> DEFINE b == tab.busy \ (IF ~c.after THEN {"list"} ELSE IF c.fresh THEN {"capture"} ELSE {})
            <4>1. tab' = [tab EXCEPT !.error = "projects", !.busy = b]
                BY <3>1 DEF CallFails
            <4>2. b \subseteq {"list", "create", "scan", "capture"}
                BY <2>0 DEF TabTypes
            <4> HIDE DEF b
            <4> QED BY <2>0, <4>1, <4>2 DEF TabTypes, Resembles
        <3>2. CASE c.kind = "create"
            <4> DEFINE b == tab.busy \ {"create"}
                       e == IF c.fresh THEN "none" ELSE tab.error
            <4>1. tab' = [tab EXCEPT !.busy = b, !.error = e]
                BY <3>2 DEF CallFails
            <4>2. /\ b \subseteq {"list", "create", "scan", "capture"} /\ (e = tab.error \/ e = "none")
                  /\ e \in {"none", "projects", "status"}
                BY <2>0 DEF TabTypes
            <4> HIDE DEF b, e
            <4> QED BY <2>0, <4>1, <4>2 DEF TabTypes, Resembles
        <3>3. CASE c.kind = "job"
            <4>1. tab' = [tab EXCEPT !.error = tab.error]
                BY <1>2, <3>3 DEF CallFails
            <4> QED BY <2>0, <4>1 DEF TabTypes, Resembles
        <3>4. CASE c.kind \in {"scan", "capture"}
            <4>1. CASE c.fresh
                <5> DEFINE b == tab.busy \ {c.kind}
                <5>1. tab' = [tab EXCEPT !.busy = b, !.error = "none"]
                    BY <3>4, <4>1 DEF CallFails
                <5>2. b \subseteq {"list", "create", "scan", "capture"}
                    BY <2>0 DEF TabTypes
                <5> HIDE DEF b
                <5> QED BY <2>0, <5>1, <5>2 DEF TabTypes, Resembles
            <4>2. CASE ~c.fresh
                BY <3>4, <4>2, TabIsTyped DEF CallFails
            <4> QED BY <4>1, <4>2
        <3>5. c.kind \in {"list", "create", "job", "scan", "capture"}
            BY <2>0 DEF CallTypes, ListCalls, CreateCalls, ScanCalls, JobCalls, CaptureCalls
        <3> QED BY <3>1, <3>2, <3>3, <3>4, <3>5
    <2> QED BY <1>0, <2>1, CallsStep DEF CallFails, KeepServer, ScanInv
<1> QED BY <1>1, <1>2

------------------------------------------------------------------------------
(* The control plane, the runner and the others.                             *)

\* What is done elsewhere leaves the tab and its calls as they are.
LEMMA WorldStep ==
    ASSUME ScanInv, WorldTyped', Kept(job, first, job', first'),
           UNCHANGED <<tab, list, calls, reloads>>
    PROVE  ScanInv'
<1>1. TabHolds(tab, job', first')
    BY TabStays DEF ScanInv
<1>2. \A c \in calls : Honest(c, job', first')
    BY HonestStays DEF ScanInv
<1> QED BY <1>1, <1>2 DEF ScanInv

\* A call is served, with an answer that is true from then on.
LEMMA ServedStep ==
    ASSUME ScanInv, WorldTyped', Kept(job, first, job', first'),
           UNCHANGED <<tab, list, reloads>>,
           NEW c \in calls, NEW a, Served(c, a), Honest(a, job', first'), FitsTab(a, tab),
           a.kind = c.kind, a.fresh = c.fresh, c.kind = "job" => a.newest = c.newest
    PROVE  ScanInv'
<1>1. TabHolds(tab, job', first')
    BY TabStays DEF ScanInv
<1>2. \A d \in calls : Honest(d, job', first')
    BY HonestStays DEF ScanInv
<1>3. calls' = (calls \ {c}) \cup {a}
    BY DEF Served
<1>4. ScanIsAlone(calls', tab)
    BY <1>3 DEF ScanInv, ScanIsAlone, Scanning, Watching
<1>5. NewestIsAlone(calls', tab)
    BY <1>3 DEF ScanInv, NewestIsAlone, Watching
<1> QED BY <1>1, <1>2, <1>3, <1>4, <1>5 DEF ScanInv

\* Nothing is lost where nothing changes.
LEMMA KeptAsIs == Kept(job, first, job, first)
BY DEF Kept

LEMMA WorldAsIs ==
    ASSUME ScanInv, UNCHANGED serverVars
    PROVE  WorldTyped' /\ Kept(job, first, job', first') /\ job' = job /\ first' = first
BY KeptAsIs DEF ScanInv, WorldTyped, serverVars, Exists

LEMMA ServeListStep ==
    ASSUME ScanInv, NEW c \in calls, ServeList(c), UNCHANGED serverVars,
           UNCHANGED <<tab, list, reloads>>
    PROVE  ScanInv'
<1> DEFINE read == [i \in DOMAIN rows |-> [project |-> rows[i], captured |-> first[rows[i]] # NoRevision]]
           a == [c EXCEPT !.rows = read]
<1>1. c \in ListCalls /\ FitsTab(c, tab) /\ Served(c, a)
    BY DEF ScanInv, ServeList, Honest, CallTypes, CreateCalls, ScanCalls, JobCalls, CaptureCalls
<1>2. read \in Seq(Entry)
    <2>1. rows \in Seq(Projects)
        BY DEF ScanInv, WorldTyped
    <2>2. PICK n \in Nat : rows \in [1..n -> Projects]
        BY <2>1
    <2>3. read \in [1..n -> Entry]
        BY <2>2 DEF Entry
    <2> HIDE DEF read
    <2> QED BY <2>3
<1> HIDE DEF read
<1>3. a \in ListCalls /\ a.kind = "list" /\ a.fresh = c.fresh
    BY <1>1, <1>2 DEF ListCalls
<1>4. c.kind = "list"
    BY <1>1 DEF ListCalls
<1> HIDE DEF a
<1>5. Honest(a, job, first) /\ FitsTab(a, tab)
    BY <1>3 DEF Honest, FitsTab, CallTypes
<1> QED BY <1>1, <1>3, <1>4, <1>5, WorldAsIs, ServedStep

LEMMA ServeCreateStep ==
    ASSUME ScanInv, NEW c \in calls, NEW p \in Projects, ServeCreate(c, p),
           UNCHANGED <<job, first, republished>>, UNCHANGED <<tab, list, reloads>>
    PROVE  ScanInv'
<1> DEFINE a == [c EXCEPT !.project = p]
<1>1. c \in CreateCalls /\ Served(c, a)
    BY DEF ScanInv, ServeCreate, Honest, CallTypes, ListCalls, ScanCalls, JobCalls, CaptureCalls
<1>2. a \in CreateCalls /\ a.kind = "create" /\ a.fresh = c.fresh /\ c.kind = "create"
    BY <1>1 DEF CreateCalls
<1> HIDE DEF a
<1>3. Honest(a, job, first) /\ FitsTab(a, tab)
    BY <1>2 DEF Honest, FitsTab, CallTypes
<1>4. WorldTyped'
    <2>1. rows \in Seq(Projects) /\ rows' = Append(rows, p)
        BY DEF ScanInv, WorldTyped, ServeCreate
    <2>2. rows' \in Seq(Projects) /\ \A q \in Known : Exists(q)'
        <3>1. \A i \in DOMAIN rows : i \in DOMAIN rows' /\ rows'[i] = rows[i]
            BY <2>1
        <3> QED BY <2>1, <3>1 DEF ScanInv, WorldTyped, Exists
    <2> QED BY <2>2 DEF ScanInv, WorldTyped
<1> QED BY <1>1, <1>2, <1>3, <1>4, KeptAsIs, ServedStep

LEMMA ServeScanStep ==
    ASSUME ScanInv, NEW c \in calls, NEW j \in Jobs, ServeScan(c, j),
           UNCHANGED <<rows, first, republished>>, UNCHANGED <<tab, list, reloads>>
    PROVE  ScanInv'
<1> DEFINE a == [c EXCEPT !.job = j]
           r == [project |-> c.project, state |-> "active", found |-> {}]
<1>1. c \in ScanCalls /\ Served(c, a) /\ FitsTab(c, tab) /\ c.kind = "scan"
    BY DEF ScanInv, ServeScan, Honest, CallTypes, ListCalls, CreateCalls, JobCalls, CaptureCalls
<1>2. /\ a \in ScanCalls /\ a.kind = "scan" /\ a.fresh = c.fresh /\ a.job = j
      /\ a.project = c.project /\ c.project \in Projects
    BY <1>1 DEF ScanCalls
<1> HIDE DEF a
<1>3. job[j].state = "none" /\ job' = [job EXCEPT ![j] = r]
    BY DEF ServeScan
<1>4. /\ r \in [project : Projects \cup {NoProject},
                state : {"none", "active", "succeeded", "failed"}, found : SUBSET Discoveries]
      /\ r.project = c.project /\ r.state = "active"
    BY <1>2
<1> HIDE DEF r
<1>5. /\ job \in [Jobs -> [project : Projects \cup {NoProject},
                           state : {"none", "active", "succeeded", "failed"}, found : SUBSET Discoveries]]
      /\ job'[j] = r /\ \A k \in Jobs : k # j => job'[k] = job[k]
    BY <1>3 DEF ScanInv, WorldTyped
<1>6. WorldTyped'
    BY <1>3, <1>4, <1>5 DEF ScanInv, WorldTyped, Exists
<1>7. Kept(job, first, job', first')
    BY <1>3, <1>5, NoneEnded DEF Kept
<1>8. Honest(a, job', first')
    BY <1>2, <1>4, <1>5 DEF Honest, CallTypes
<1>9. j # tab.scan.job
    BY <1>3, NoJobIsNone DEF ScanInv, TabHolds, NoScan
<1>10. FitsTab(a, tab)
    BY <1>1, <1>2, <1>9 DEF FitsTab
<1> QED BY <1>1, <1>2, <1>6, <1>7, <1>8, <1>10, ServedStep

LEMMA ServeJobStep ==
    ASSUME ScanInv, NEW c \in calls, ServeJob(c), UNCHANGED serverVars,
           UNCHANGED <<tab, list, reloads>>
    PROVE  ScanInv'
<1> DEFINE s == [job |-> c.job, state |-> job[c.job].state, found |-> job[c.job].found]
           a == [c EXCEPT !.reply = s]
<1>1. c \in JobCalls /\ Served(c, a) /\ FitsTab(c, tab) /\ c.kind = "job" /\ Honest(c, job, first)
    BY DEF ScanInv, ServeJob, Honest, CallTypes, ListCalls, CreateCalls, ScanCalls, CaptureCalls
<1>2. /\ s \in Statuses /\ c.job \in Jobs /\ s.job = c.job /\ s.state = job[c.job].state
      /\ s.found = job[c.job].found
    BY <1>1 DEF ScanInv, WorldTyped, Statuses, JobCalls
<1> HIDE DEF s
<1>3. /\ a \in JobCalls /\ a.kind = "job" /\ a.fresh = c.fresh /\ a.newest = c.newest
      /\ a.job = c.job /\ a.reply = s
    BY <1>1, <1>2 DEF JobCalls
<1> HIDE DEF a
<1>4. Tells(s, c.job, job)
    BY <1>2 DEF Tells
<1>5. Honest(a, job, first) /\ FitsTab(a, tab)
    BY <1>1, <1>3, <1>4 DEF Honest, FitsTab, CallTypes
<1> QED BY <1>1, <1>3, <1>5, WorldAsIs, ServedStep

\* A Default is captured once: the first revision is of the request that made it,
\* and a request that finds it has to be the same.
LEMMA ServeCaptureStep ==
    ASSUME ScanInv, NEW c \in calls, ServeCapture(c),
           UNCHANGED <<rows, job>>, UNCHANGED <<tab, list, reloads>>
    PROVE  ScanInv'
<1> DEFINE asked == [scan |-> c.job, items |-> c.items]
           a == [c EXCEPT !.reply = asked]
<1>1. c \in CaptureCalls /\ Served(c, a) /\ FitsTab(c, tab) /\ c.kind = "capture"
    BY DEF ScanInv, ServeCapture, Honest, CallTypes, ListCalls, CreateCalls, ScanCalls, JobCalls
<1>2. asked \in Revisions /\ c.project \in Projects
    BY <1>1 DEF Revisions, CaptureCalls
<1>3. CaptureOnce(c.project, asked)
    BY DEF ServeCapture
<1> HIDE DEF asked
<1>4. a \in CaptureCalls /\ a.kind = "capture" /\ a.fresh = c.fresh /\ a.reply = asked /\ a.project = c.project
    BY <1>1, <1>2 DEF CaptureCalls
<1> HIDE DEF a
<1>5. first \in [Projects -> Revisions]
    BY DEF ScanInv, WorldTyped
<1>6. /\ first' \in [Projects -> Revisions] /\ first'[c.project] = asked /\ republished' = republished
      /\ \A p \in Projects : first[p] # NoRevision => first'[p] = first[p]
    BY <1>2, <1>3, <1>5 DEF CaptureOnce, CapturedBy
<1>7. WorldTyped' /\ Kept(job, first, job', first')
    BY <1>6 DEF ScanInv, WorldTyped, Exists, Kept
<1>8. Honest(a, job', first') /\ FitsTab(a, tab)
    BY <1>1, <1>4, <1>6 DEF Honest, FitsTab, CallTypes
<1> QED BY <1>1, <1>4, <1>7, <1>8, ServedStep

LEMMA ServerStep ==
    ASSUME ScanInv, Server
    PROVE  ScanInv'
<1>1. UNCHANGED <<tab, list, reloads>>
    BY DEF Server, KeepTab
<1> QED BY <1>1, ServeListStep, ServeCreateStep, ServeScanStep, ServeJobStep, ServeCaptureStep DEF Server

LEMMA ScanEndsStep ==
    ASSUME ScanInv, NEW j \in Jobs, NEW S \in SUBSET Discoveries,
           ScanEnds(j, "succeeded", S) \/ ScanEnds(j, "failed", S)
    PROVE  ScanInv'
<1> PICK state \in {"succeeded", "failed"} : ScanEnds(j, state, S)
    OBVIOUS
<1> DEFINE R == [project : Projects \cup {NoProject},
                 state : {"none", "active", "succeeded", "failed"}, found : SUBSET Discoveries]
           r == [job[j] EXCEPT !.state = state, !.found = S]
<1>1. job \in [Jobs -> R] /\ job[j].state = "active"
    BY DEF ScanInv, WorldTyped, ScanEnds
<1>2. job' = [job EXCEPT ![j] = r]
    BY <1>1 DEF ScanEnds
<1>3. r \in R /\ r.project = job[j].project /\ r.state = state
    <2>1. job[j] \in R
        BY <1>1
    <2> QED BY <2>1
<1> HIDE DEF r
<1>4. job' \in [Jobs -> R] /\ job'[j] = r /\ \A k \in Jobs : k # j => job'[k] = job[k]
    BY <1>1, <1>2, <1>3
<1>5. /\ UNCHANGED <<rows, first, republished, calls, tab, list, reloads>>
    BY DEF ScanEnds, KeepTab
<1>6. WorldTyped'
    BY <1>4, <1>5 DEF ScanInv, WorldTyped, Exists
<1>7. Kept(job, first, job', first')
    BY <1>1, <1>3, <1>4, <1>5, NoneEnded DEF Kept
<1> QED BY <1>5, <1>6, <1>7, WorldStep

LEMMA ElsewhereStep ==
    ASSUME ScanInv, Elsewhere
    PROVE  ScanInv'
<1>1. UNCHANGED <<job, calls, reloads, tab, list>>
    BY DEF Elsewhere, KeepTab
<1> PICK p \in Projects, S \in SUBSET Discoveries :
        \/ ~Exists(p) /\ rows' = Append(rows, p) /\ UNCHANGED <<first, republished>>
        \/ /\ Exists(p) /\ first[p] = NoRevision
           /\ \E j \in Jobs \cup {OtherScan} :
                 /\ j \in Jobs => job[j].project = p /\ job[j].state = "succeeded" /\ S \subseteq job[j].found
                 /\ first' = [first EXCEPT ![p] = [scan |-> j, items |-> S]]
           /\ UNCHANGED <<rows, republished>>
        \/ /\ first[p] # NoRevision /\ p \notin republished
           /\ republished' = republished \cup {p}
           /\ UNCHANGED <<rows, first>>
    BY DEF Elsewhere
<1>2. CASE rows' = Append(rows, p) /\ UNCHANGED <<first, republished>>
    <2>1. rows \in Seq(Projects)
        BY DEF ScanInv, WorldTyped
    <2>2. \A i \in DOMAIN rows : i \in DOMAIN rows' /\ rows'[i] = rows[i]
        BY <1>2, <2>1
    <2>3. rows' \in Seq(Projects) /\ \A q \in Known : Exists(q)'
        BY <1>2, <2>1, <2>2 DEF ScanInv, WorldTyped, Exists
    <2>4. WorldTyped' /\ Kept(job, first, job', first')
        BY <1>1, <1>2, <2>3, KeptAsIs DEF ScanInv, WorldTyped
    <2> QED BY <1>1, <2>4, WorldStep
<1>3. CASE /\ first[p] = NoRevision /\ UNCHANGED <<rows, republished>>
           /\ \E j \in Jobs \cup {OtherScan} : first' = [first EXCEPT ![p] = [scan |-> j, items |-> S]]
    <2>1. PICK j \in Jobs \cup {OtherScan} : first' = [first EXCEPT ![p] = [scan |-> j, items |-> S]]
        BY <1>3
    <2>2. [scan |-> j, items |-> S] \in Revisions /\ first \in [Projects -> Revisions]
        BY DEF Revisions, ScanInv, WorldTyped
    <2>3. first' \in [Projects -> Revisions] /\ \A q \in Projects : q # p => first'[q] = first[q]
        BY <2>1, <2>2
    <2>4. WorldTyped' /\ Kept(job, first, job', first')
        BY <1>1, <1>3, <2>3 DEF ScanInv, WorldTyped, Exists, Kept
    <2> QED BY <1>1, <2>4, WorldStep
<1>4. CASE republished' = republished \cup {p} /\ UNCHANGED <<rows, first>>
    <2>1. WorldTyped' /\ Kept(job, first, job', first')
        BY <1>1, <1>4, KeptAsIs DEF ScanInv, WorldTyped, Exists
    <2> QED BY <1>1, <2>1, WorldStep
<1> QED BY <1>2, <1>3, <1>4

------------------------------------------------------------------------------
(* The invariant.                                                            *)

LEMMA ScanInit == Init => ScanInv
<1> SUFFICES ASSUME Init PROVE ScanInv
    OBVIOUS
<1>1. WorldTyped
    <2>1. Cardinality(Known) \in Nat
        BY ScanAssumption, FS_Subset, FS_CardinalityType
    <2>2. rows \in [1..Cardinality(Known) -> Known] /\ \A p \in Known : Exists(p)
        BY DEF Init, Exists
    <2>3. rows \in [1..Cardinality(Known) -> Projects]
        BY <2>2, ScanAssumption
    <2>4. rows \in Seq(Projects)
        BY <2>1, <2>3
    <2>5. NoRevision \in Revisions
        BY DEF NoRevision, Revisions
    <2> QED BY <2>2, <2>4, <2>5 DEF Init, WorldTyped
<1>2. NoScan \in ScanTypes /\ NoStatus \in Statuses /\ NoRevision \in Revisions
    BY DEF NoScan, ScanTypes, NoStatus, Statuses, NoRevision, Revisions, Unknown
<1>3. tab \in TabTypes /\ tab.scan = NoScan /\ tab.status = NoStatus /\ tab.capture = NoRevision
    BY <1>2 DEF Init, Mounted, TabTypes
<1>4. TabHolds(tab, job, first) /\ ~Ended(tab.status.state)
    BY <1>3, EmptyTabHolds
<1>5. /\ Honest(ListCall(FALSE), job, first) /\ FitsTab(ListCall(FALSE), tab)
      /\ ListCall(FALSE).kind = "list"
    BY ListCallIsHonest
<1>6. calls = {ListCall(FALSE)} /\ list = <<>> /\ reloads = 0
    BY DEF Init
<1>7. ScanIsAlone(calls, tab) /\ NewestIsAlone(calls, tab)
    BY <1>4, <1>5, <1>6 DEF ScanIsAlone, NewestIsAlone, Scanning, Watching
<1>8. <<>> \in Seq(Entry)
    OBVIOUS
<1> QED BY <1>1, <1>4, <1>5, <1>6, <1>7, <1>8 DEF ScanInv

LEMMA ScanStutter ==
    ASSUME ScanInv, UNCHANGED vars
    PROVE  ScanInv'
<1>1. UNCHANGED <<tab, list, calls, reloads>> /\ UNCHANGED serverVars
    BY DEF vars
<1> QED BY <1>1, WorldAsIs, WorldStep

LEMMA ScanStep == ScanInv /\ [Next]_vars => ScanInv'
<1> SUFFICES ASSUME ScanInv, [Next]_vars PROVE ScanInv'
    OBVIOUS
<1>1. CASE Person
    BY <1>1, SelectProjectStep, ChooseStep, RetryListStep, CreateProjectStep, StartScanStep,
       CaptureDefaultStep, ReloadStep DEF Person
<1>2. CASE PollStarts
    BY <1>2, PollStartsStep
<1>3. CASE Answers
    BY <1>3, PollAdoptedStep, PollIgnoredStep, SelectingStep, ScanLandsStep, CaptureLandsStep,
       CallFailsStep DEF Answers
<1>4. CASE Server
    BY <1>4, ServerStep
<1>5. CASE Runner
    BY <1>5, ScanEndsStep DEF Runner
<1>6. CASE Elsewhere
    BY <1>6, ElsewhereStep
<1>7. CASE UNCHANGED vars
    BY <1>7, ScanStutter
<1> QED BY <1>1, <1>2, <1>3, <1>4, <1>5, <1>6, <1>7 DEF Next

\* What a tab holds is of the project that it shows as selected, every answer
\* in flight is true, and an answer of the current context is about what is shown.
THEOREM ScanInvariant == Spec => []ScanInv
BY ScanInit, ScanStep, PTL DEF Spec

\* The scan, the status and the capture shown are those of the project selected,
\* whatever the order in which the answers come.
THEOREM ShowsTheSelectedProject == Spec => []OnlySelectedProject
<1>1. ScanInv => OnlySelectedProject
    BY DEF ScanInv, TabHolds, Tells, OnlySelectedProject
<1> QED BY <1>1, ScanInvariant, PTL

------------------------------------------------------------------------------
(* What is reviewed.                                                         *)

\* The scan of another project, and a new scan, is not the one that was shown.
LEMMA SelectingForgets ==
    ASSUME ScanInv, NEW p \in Projects \cup {NoProject}, Select(p).scan.job = tab.scan.job
    PROVE  /\ Select(p).scan.included # tab.scan.included => tab.scan.included = Unknown
           /\ Select(p).status # tab.status => tab.status = NoStatus
<1>1. CASE p = tab.selected
    BY <1>1 DEF Select
<1>2. CASE p # tab.selected
    <2>1. Select(p).scan = NoScan
        BY <1>2, SelectEmpties
    <2>2. tab.scan = NoScan /\ tab.status = NoStatus
        BY <2>1, NoJobIsNone DEF NoScan, ScanInv, TabHolds
    <2> QED BY <2>2 DEF NoScan
<1> QED BY <1>1, <1>2

\* An answer that selects a project leaves the review of the one shown.
LEMMA ResemblingKeeps ==
    ASSUME ScanInv, NEW p \in Projects \cup {NoProject}, tab'.scan = Select(p).scan,
           tab'.status = Select(p).status, tab'.scan.job = tab.scan.job
    PROVE  /\ tab'.scan.included # tab.scan.included => tab.scan.included = Unknown
           /\ Ended(tab.status.state) => tab'.status = tab.status
BY SelectingForgets, NoneEnded DEF NoStatus

ReviewStays ==
    tab'.scan.job = tab.scan.job =>
        /\ tab.scan.included # Unknown /\ tab'.scan.included # tab.scan.included => calls' = calls
        /\ Ended(tab.status.state) /\ tab'.status # tab.status => reloads' # reloads

LEMMA SameReview ==
    ASSUME tab'.scan = tab.scan, tab'.status = tab.status
    PROVE  ReviewStays
BY DEF ReviewStays

LEMMA PersonKeepsReview ==
    ASSUME ScanInv, Person
    PROVE  ReviewStays
<1>1. ASSUME NEW p \in Projects, SelectProject(p)
      PROVE  ReviewStays
    BY <1>1, ResemblingKeeps DEF SelectProject, ReviewStays
<1>2. ASSUME NEW S \in SUBSET Discoveries, Choose(S)
      PROVE  ReviewStays
    <2>1. calls' = calls /\ tab' = [tab EXCEPT !.scan = [tab.scan EXCEPT !.included = S]]
        BY <1>2, TabIsTyped DEF Choose, TabTypes, ScanTypes
    <2>2. tab'.status = tab.status
        BY <2>1, TabIsTyped DEF TabTypes
    <2> QED BY <2>1, <2>2 DEF ReviewStays
<1>3. CASE RetryList \/ CreateProject \/ StartScan \/ CaptureDefault
    <2>1. tab'.scan = tab.scan /\ tab'.status = tab.status
        BY <1>3, TabIsTyped DEF RetryList, CreateProject, StartScan, CaptureDefault, TabTypes
    <2> QED BY <2>1, SameReview
<1>4. CASE Reload
    <2>1. tab'.scan = tab.scan /\ reloads' # reloads
        BY <1>4 DEF Reload, Mounted, ScanInv
    <2> QED BY <2>1 DEF ReviewStays
<1> QED BY <1>1, <1>2, <1>3, <1>4 DEF Person

\* The poll that is adopted says of a scan that ended what was shown of it.
LEMMA AdoptedKeepsReview ==
    ASSUME ScanInv, NEW c \in calls, PollAdopted(c)
    PROVE  ReviewStays
<1>1. /\ Tells(c.reply, tab.scan.job, job) /\ tab.scan # NoScan /\ c.job = tab.scan.job
      /\ c.reply \in Statuses /\ Watching(c) /\ c.newest
    BY AdoptableTells DEF PollAdopted
<1>2. ~Ended(tab.status.state)
    BY <1>1 DEF ScanInv, NewestIsAlone
<1>3. ASSUME tab.scan.included # Unknown
      PROVE  tab'.scan.included = tab.scan.included
    <2>1. CASE c.reply.state = "succeeded"
        <3>1. tab.scan.included \subseteq c.reply.found
            BY <1>1, <1>3, <2>1, NoneEnded DEF ScanInv, TabHolds, Tells
        <3> QED BY <1>3, <2>1, <3>1, PollAdoptedTab DEF Reconcile
    <2>2. CASE c.reply.state # "succeeded"
        BY <2>2, PollAdoptedTab
    <2> QED BY <2>1, <2>2
<1> QED BY <1>2, <1>3 DEF ReviewStays

LEMMA AnswersKeepReview ==
    ASSUME ScanInv, Answers
    PROVE  ReviewStays
<1> PICK c \in calls :
        \/ PollAdopted(c) \/ PollIgnored(c) \/ ListLands(c) \/ CreateLands(c)
        \/ ScanLands(c) \/ CaptureLands(c) \/ CallFails(c)
    BY DEF Answers
<1>1. CASE PollAdopted(c)
    BY <1>1, AdoptedKeepsReview
<1>2. CASE PollIgnored(c)
    BY <1>2, SameReview DEF PollIgnored
<1>3. CASE ListLands(c)
    <2>1. PICK p \in Projects \cup {NoProject} : Resembles(tab', Select(p))
        BY <1>3, ListLandsTab
    <2> QED BY <2>1, ResemblingKeeps DEF Resembles, ReviewStays
<1>4. CASE CreateLands(c)
    <2>1. PICK p \in Projects \cup {NoProject} : Resembles(tab', Select(p))
        BY <1>4, CreateLandsTab
    <2> QED BY <2>1, ResemblingKeeps DEF Resembles, ReviewStays
<1>5. CASE ScanLands(c)
    <2>1. CASE ~c.fresh
        BY <1>5, <2>1, SameReview DEF ScanLands
    <2>2. CASE c.fresh
        <3>1. c.job # tab.scan.job
            BY <1>5, <2>2 DEF ScanLands, ScanInv, FitsTab
        <3>2. tab'.scan = [project |-> c.project, job |-> c.job, included |-> Unknown]
            BY <1>5, <2>2, TabIsTyped DEF ScanLands, TabTypes
        <3> QED BY <3>1, <3>2 DEF ReviewStays
    <2> QED BY <2>1, <2>2
<1>6. CASE CaptureLands(c)
    <2>1. tab'.scan = tab.scan /\ tab'.status = tab.status
        BY <1>6, TabIsTyped DEF CaptureLands, TabTypes
    <2> QED BY <2>1, SameReview
<1>7. CASE CallFails(c)
    <2>1. tab'.scan = tab.scan /\ tab'.status = tab.status
        BY <1>7, TabIsTyped DEF CallFails, TabTypes
    <2> QED BY <2>1, SameReview
<1> QED BY <1>1, <1>2, <1>3, <1>4, <1>5, <1>6, <1>7

\* What the person reviews changes by the person's hand only: the end of a scan that
\* was shown is not taken back, and no answer selects or drops a discovery.
THEOREM ReviewIsThePersons == Spec => ReviewIsKept
<1>1. ScanInv /\ [Next]_vars => [ReviewStays]_vars
    <2> SUFFICES ASSUME ScanInv, Next PROVE ReviewStays
        BY DEF vars
    <2>1. CASE Person
        BY <2>1, PersonKeepsReview
    <2>2. CASE Answers
        BY <2>2, AnswersKeepReview
    <2>3. CASE PollStarts \/ Server \/ Runner \/ Elsewhere
        <3>1. tab' = tab
            BY <2>3 DEF PollStarts, Server, Runner, ScanEnds, Elsewhere, KeepTab
        <3> QED BY <3>1, SameReview
    <2> QED BY <2>1, <2>2, <2>3 DEF Next
<1>2. Spec => [][ReviewStays]_vars
    BY <1>1, ScanInvariant, PTL DEF Spec
<1> QED BY <1>2 DEF ReviewStays, ReviewIsKept

\* Every row, call and field of the hook has its type.
THEOREM ScanTypeCorrect == Spec => []TypeOK
<1>1. ASSUME ScanInv PROVE TypeOK
    <2>1. tab \in TabTypes
        BY <1>1, TabIsTyped
    <2>2. \A i \in DOMAIN list : list[i].project \in Projects
        <3>1. ASSUME NEW i \in DOMAIN list PROVE list[i] \in Entry
            BY <1>1, <3>1 DEF ScanInv
        <3> QED BY <3>1 DEF Entry
    <2> QED BY <1>1, <2>1, <2>2 DEF ScanInv, WorldTyped, TabTypes, ScanTypes, TypeOK
<1> QED BY <1>1, ScanInvariant, PTL

==============================================================================
