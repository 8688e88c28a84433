----------------------------- MODULE SetupLibrary -----------------------------
(* Publishing into the Setup library of one organization: creating a Setup,  *)
(* publishing a revision of one, adding a skill that a runner captured, and  *)
(* capturing a project's Default (PostgresSetupRepository, addLibrarySkill,  *)
(* PostgresProjectRepository), by people who work at the same time and       *)
(* repeat a request whose answer was lost.                                   *)
(*                                                                           *)
(* A request is one transaction (READ COMMITTED), cut at the statements that *)
(* wait for a lock or read what another one may write.  Its inserts appear   *)
(* at its commit.  A lock is on a row (FOR UPDATE), or on a key of a unique  *)
(* index that was inserted and is not yet committed.  Rows are never deleted *)
(* nor changed, so two reads in a row are one step.  A request names its own *)
(* new rows: the Setup and the revision it makes have its identity.          *)
EXTENDS Naturals, FiniteSets

CONSTANTS
    Requests,     \* requests that may be sent
    Seed,         \* a custom Setup that is there already, and its only revision
    SeedItems,    \* its items
    Items,        \* skills, each with its content and the target it is for
    Target,       \* Target[i]: the tool and the name that i is put at
    Names,        \* names that are asked for
    SeedName,     \* the name of Seed
    Projects,     \* projects, each with one scan that succeeded
    Discovered,   \* Discovered[p]: what the scan of p offers
    Snapshots,    \* succeeded jobs that captured a skill and uploaded it
    Captured,     \* Captured[j]: the skill that j captured
    Selections,   \* sets of items that a person composes
    MaxRevision,  \* bound on the revision number that a person has seen
    Absent        \* no row

ASSUME LibraryAssumption ==
    /\ Seed \notin Requests
    /\ SeedItems \subseteq Items
    /\ SeedName \notin Projects
    /\ Names \cap Projects = {}
    /\ Absent \notin Names \cup Projects \cup {SeedName}
    /\ Discovered \in [Projects -> SUBSET Items]
    /\ Captured \in [Snapshots -> Items]
    /\ Selections \subseteq SUBSET Items
    /\ MaxRevision \in Nat

VARIABLES
    \* committed rows
    setups,        \* setups[s]: its name; a Default has its project for a name
    revisions,     \* revisions[r]: a row of setup_revisions, with its items
    publications,  \* publications[j]: the row of setup_library_publications
    assigned,      \* assigned[p]: the revision that a capture assigned to the project
    \* transactions
    request,       \* request[q]: what q asks for
    pc,            \* where q stands
    base,          \* base[q]: the revision that an addition to a Setup starts from
    locks,         \* locks[q]: the rows and keys that q holds
    answer,        \* answer[q]: what the person was told
    sentAfter      \* sentAfter[q]: requests committed when q was sent (for properties)

tables == <<setups, revisions, publications, assigned>>
vars == <<tables, request, pc, base, locks, answer, sentAfter>>

Ids == Requests \cup {Seed}

\* What can be asked.  Items are selected from a revision that the composer listed.
Payloads ==
    [kind : {"create"}, name : Names, from : Ids, items : Selections]
    \cup [kind : {"publish"}, setup : Ids, expected : 1 .. MaxRevision, from : Ids,
          items : Selections]
    \cup [kind : {"add"}, setup : Ids, expected : 1 .. MaxRevision, snapshot : Snapshots]
    \cup [kind : {"addNew"}, name : Names, snapshot : Snapshots]
    \cup UNION {[kind : {"capture"}, project : {p}, items : SUBSET Discovered[p]] : p \in Projects}

RevisionRows == [setup : Ids, number : Nat, items : SUBSET Items, scanned : BOOLEAN]
Publications == [request : Payloads, revision : Requests]
Answers == [outcome : {"created", "refused", "lost"}, revision : Ids \cup {Absent}]

Places == {"idle", "start", "prior", "setup", "latest", "name", "insert", "default",
           "commit", "done"}

Kind(q) == request[q].kind
Exists(r) == revisions[r] # Absent
RevisionsOf(s) == {r \in Ids : Exists(r) /\ revisions[r].setup = s}
NamesTaken == {setups[s] : s \in Ids} \ {Absent}

\* ORDER BY revision_number DESC LIMIT 1
LatestOf(s) ==
    CHOOSE r \in RevisionsOf(s) : \A o \in RevisionsOf(s) : revisions[o].number <= revisions[r].number

ASSUME AbsentAssumption == Absent \notin Payloads \cup RevisionRows \cup Answers \cup Publications

-------------------------------------------------------------------------------
Init ==
    /\ setups = [s \in Ids |-> IF s = Seed THEN SeedName ELSE Absent]
    /\ revisions = [r \in Ids |-> IF r # Seed THEN Absent
                                  ELSE [setup |-> Seed, number |-> 1, items |-> SeedItems,
                                        scanned |-> FALSE]]
    /\ publications = [j \in Snapshots |-> Absent]
    /\ assigned = [p \in Projects |-> Absent]
    /\ request = [q \in Requests |-> Absent]
    /\ pc = [q \in Requests |-> "idle"]
    /\ base = [q \in Requests |-> Absent]
    /\ locks = [q \in Requests |-> {}]
    /\ answer = [q \in Requests |-> Absent]
    /\ sentAfter = [q \in Requests |-> {}]

\* A person sends a request about what the library showed.
Send(q, p) ==
    /\ pc[q] = "idle"
    /\ p.kind \in {"publish", "add"} => setups[p.setup] # Absent
    /\ p.kind \in {"create", "publish"} => Exists(p.from)
    /\ request' = [request EXCEPT ![q] = p]
    /\ pc' = [pc EXCEPT ![q] = "start"]
    /\ sentAfter' = [sentAfter EXCEPT ![q] = {o \in Requests : Exists(o)}]
    /\ UNCHANGED <<tables, base, locks, answer>>

GoTo(q, place) == pc' = [pc EXCEPT ![q] = place] /\ UNCHANGED <<request, answer, sentAfter>>

\* The end of a transaction, committed or rolled back.
End(q, outcome, r) ==
    /\ answer' = [answer EXCEPT ![q] = [outcome |-> outcome, revision |-> r]]
    /\ pc' = [pc EXCEPT ![q] = "done"]
    /\ UNCHANGED <<request, base, sentAfter>>

Release(q) == [locks EXCEPT ![q] = {}]

\* Mutant: an early return leaves the transaction open.
LocksKept(q) == locks

\* ROLLBACK, in the finally clause.
LocksAfterRefusal(q) == Release(q)

Refuse(q) == End(q, "refused", Absent) /\ locks' = LocksAfterRefusal(q)

\* A row lock, or an insert into a unique index, waits for other transactions.
Free(q, key) == \A o \in Requests \ {q} : key \notin locks[o]
Acquire(q, key) == Free(q, key) /\ locks' = [locks EXCEPT ![q] = @ \cup {key}]

\* addLibrarySkill locks the row of the job that captured the skill.
LockJob(q) ==
    /\ pc[q] = "start" /\ Kind(q) \in {"add", "addNew"}
    /\ Acquire(q, <<"job", request[q].snapshot>>)
    /\ GoTo(q, "prior")
    /\ UNCHANGED <<tables, base>>

\* The digest of the request is that of the publication.
SamePublication(q) == publications[request[q].snapshot].request = request[q]

Published(q) == publications[request[q].snapshot] # Absent

\* A captured skill is published once: the same request gets the same answer.
FindPrior(q) ==
    /\ pc[q] = "prior"
    /\ IF ~Published(q)
       THEN GoTo(q, IF Kind(q) = "add" THEN "setup" ELSE "name") /\ UNCHANGED <<base, locks>>
       ELSE IF SamePublication(q)
       THEN /\ End(q, "created", publications[request[q].snapshot].revision)
            /\ locks' = Release(q)
       ELSE Refuse(q)
    /\ UNCHANGED tables

\* SELECT ... FROM setups ... FOR UPDATE, of publishRevision and of addLibrarySkill.
LockSetup(q) ==
    /\ \/ pc[q] = "start" /\ Kind(q) = "publish"
       \/ pc[q] = "setup"
    /\ Acquire(q, <<"setup", request[q].setup>>)
    /\ GoTo(q, "latest")
    /\ UNCHANGED <<tables, base>>

\* Mutant: a number beyond the latest one will do.
ExpectedOrLater(q) == revisions[LatestOf(request[q].setup)].number <= request[q].expected

\* The revision that the person has seen is still the latest one.
ExpectedIsLatest(q) == revisions[LatestOf(request[q].setup)].number = request[q].expected

\* Every selected item is an item of the revision that it was selected from.
Available(q) ==
    /\ Exists(request[q].from)
    /\ request[q].items \subseteq revisions[request[q].from].items

TargetFree(q) ==
    \A i \in revisions[LatestOf(request[q].setup)].items :
        Target[i] # Target[Captured[request[q].snapshot]]

CheckLatest(q) ==
    /\ pc[q] = "latest"
    /\ IF /\ ExpectedIsLatest(q)
          /\ Kind(q) = "publish" => Available(q)
          /\ Kind(q) = "add" => TargetFree(q)
       THEN /\ GoTo(q, "commit")
            /\ base' = [base EXCEPT ![q] = LatestOf(request[q].setup)]
            /\ UNCHANGED locks
       ELSE Refuse(q)
    /\ UNCHANGED tables

\* createSetup and addLibrarySkill look for the name, and createSetup for the items.
CheckName(q) ==
    /\ \/ pc[q] = "start" /\ Kind(q) = "create"
       \/ pc[q] = "name"
    /\ IF request[q].name \notin NamesTaken /\ (Kind(q) = "create" => Available(q))
       THEN GoTo(q, "insert") /\ UNCHANGED <<base, locks>>
       ELSE Refuse(q)
    /\ UNCHANGED tables

\* The unique index idx_setups_name_ci.
NameStillFree(q) == request[q].name \notin NamesTaken

\* INSERT INTO setups, which waits for another one of that name; unique_violation.
InsertSetup(q) ==
    /\ pc[q] = "insert"
    /\ Free(q, <<"name", request[q].name>>)
    /\ IF NameStillFree(q)
       THEN /\ Acquire(q, <<"name", request[q].name>>)
            /\ GoTo(q, "commit")
            /\ UNCHANGED base
       ELSE Refuse(q)
    /\ UNCHANGED tables

\* captureDefault locks the project.
LockProject(q) ==
    /\ pc[q] = "start" /\ Kind(q) = "capture"
    /\ Acquire(q, <<"project", request[q].project>>)
    /\ GoTo(q, "default")
    /\ UNCHANGED <<tables, base>>

\* Mutant: any Default answers a capture.
SameCaptureAlways(q, r) == TRUE

\* The Default that is found was captured from that scan, with that selection.
SameCapture(q, r) == revisions[r].scanned /\ revisions[r].items = request[q].items

\* readCapture finds the latest revision of the project's Default.
FindDefault(q) ==
    /\ pc[q] = "default"
    /\ LET defaults == {s \in Ids : setups[s] = request[q].project}
       IN  IF defaults = {} THEN GoTo(q, "commit") /\ UNCHANGED <<base, locks>>
           ELSE LET r == LatestOf(CHOOSE s \in defaults : TRUE)
                IN  IF SameCapture(q, r)
                    THEN End(q, "created", r) /\ locks' = Release(q)
                    ELSE Refuse(q)
    /\ UNCHANGED tables

\* The rows that q inserts.
NewSetup(q) == Kind(q) \in {"create", "addNew", "capture"}
NameOf(q) == IF Kind(q) = "capture" THEN request[q].project ELSE request[q].name

NewItems(q) ==
    CASE Kind(q) = "add" -> revisions[base[q]].items \cup {Captured[request[q].snapshot]}
      [] Kind(q) = "addNew" -> {Captured[request[q].snapshot]}
      [] OTHER -> request[q].items

NewRevision(q) ==
    [setup |-> IF NewSetup(q) THEN q ELSE request[q].setup,
     number |-> IF NewSetup(q) THEN 1 ELSE request[q].expected + 1,
     items |-> NewItems(q),
     scanned |-> Kind(q) = "capture"]

\* The revision that a publication names.
PublishedAs(q) == q

\* COMMIT; its answer may be lost.
Commit(q) ==
    /\ pc[q] = "commit"
    /\ setups' = IF NewSetup(q) THEN [setups EXCEPT ![q] = NameOf(q)] ELSE setups
    /\ revisions' = [revisions EXCEPT ![q] = NewRevision(q)]
    /\ publications' = IF Kind(q) \in {"add", "addNew"}
                       THEN [publications EXCEPT ![request[q].snapshot] =
                               [request |-> request[q], revision |-> PublishedAs(q)]]
                       ELSE publications
    /\ assigned' = IF Kind(q) = "capture" THEN [assigned EXCEPT ![request[q].project] = q]
                   ELSE assigned
    /\ End(q, "created", q) \/ End(q, "lost", Absent)
    /\ locks' = Release(q)

\* The connection to the database breaks, and the transaction with it.
Break(q) ==
    /\ pc[q] \notin {"idle", "done"}
    /\ End(q, "lost", Absent)
    /\ locks' = Release(q)
    /\ UNCHANGED tables

Proceed(q) ==
    \/ LockJob(q) \/ FindPrior(q) \/ LockSetup(q) \/ CheckLatest(q)
    \/ CheckName(q) \/ InsertSetup(q) \/ LockProject(q) \/ FindDefault(q) \/ Commit(q)

Next == \E q \in Requests : Proceed(q) \/ Break(q) \/ \E p \in Payloads : Send(q, p)

Spec == Init /\ [][Next]_vars

-------------------------------------------------------------------------------
TypeOK ==
    /\ setups \in [Ids -> Names \cup Projects \cup {SeedName, Absent}]
    /\ revisions \in [Ids -> RevisionRows \cup {Absent}]
    /\ \A j \in Snapshots : publications[j] # Absent =>
          publications[j].request \in Payloads /\ publications[j].revision \in Requests
    /\ assigned \in [Projects -> Requests \cup {Absent}]
    /\ \A q \in Requests : /\ request[q] # Absent => request[q] \in Payloads
                           /\ pc[q] # "idle" => request[q] # Absent
    /\ pc \in [Requests -> Places]
    /\ base \in [Requests -> Ids \cup {Absent}]
    /\ answer \in [Requests -> Answers \cup {Absent}]

\* The library as a chain of revisions for each Setup.
ChainOf(s) ==
    [n \in {revisions[r].number : r \in RevisionsOf(s)} |->
        revisions[CHOOSE r \in RevisionsOf(s) : revisions[r].number = n].items]

Chains == INSTANCE SetupChains WITH
    Setups <- Ids,
    chains <- [s \in Ids |-> ChainOf(s)],
    InitChains <- [s \in Ids |-> IF s = Seed THEN <<SeedItems>> ELSE <<>>]

\* Whoever publishes at the same time, the library only grows, by one whole revision at
\* the end of one Setup: none is changed, lost, numbered twice or left out.
ImplementsChains == Chains!ChainsSpec

\* What revision r has to be to answer p.
Fulfils(r, p) ==
    LET row == revisions[r]
    IN  CASE p.kind = "create" -> setups[row.setup] = p.name /\ row.number = 1 /\ row.items = p.items
          [] p.kind = "publish" -> /\ row.setup = p.setup /\ row.number = p.expected + 1
                                   /\ row.items = p.items
          [] p.kind = "add" -> /\ row.setup = p.setup /\ row.number = p.expected + 1
                               /\ Captured[p.snapshot] \in row.items
          [] p.kind = "addNew" -> setups[row.setup] = p.name /\ row.items = {Captured[p.snapshot]}
          [] p.kind = "capture" -> /\ setups[row.setup] = p.project /\ row.items = p.items
                                   /\ assigned[p.project] = r

\* A person who is told that a revision was made finds in the library what was asked
\* for, made by this request or by an earlier one; one who is refused has changed nothing;
\* and one who repeats the addition of a captured skill, as its answer was lost, is told
\* of the revision made then, whatever was published since.
AnswersAreTrue ==
    \A q \in Requests : answer[q] # Absent =>
        /\ answer[q].outcome = "created" =>
              Exists(answer[q].revision) /\ Fulfils(answer[q].revision, request[q])
        /\ answer[q].outcome = "refused" => setups[q] = Absent /\ ~Exists(q)
        /\ \A o \in sentAfter[q] :
              request[q] = request[o] /\ Kind(q) \in {"add", "addNew"} =>
                 answer[q].outcome = "lost" \/ answer[q] = [outcome |-> "created", revision |-> o]

\* Transactions that wait for one another's locks do not wait for ever, and none keeps its
\* locks: as long as one is under way, one of them can go on.
SomeRequestProceeds ==
    (\E q \in Requests : pc[q] \notin {"idle", "done"}) => \E q \in Requests : ENABLED Proceed(q)
===============================================================================
