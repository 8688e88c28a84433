-------------------------- MODULE SetupLibraryProofs --------------------------
(* Proofs about SetupLibrary, for any requests, Setups, items, projects,     *)
(* captured skills and revision numbers: what people are told is true, and   *)
(* every Setup is a chain of revisions that only grows at its end.           *)
(*                                                                           *)
(* Neither follows from the tables alone.  A transaction reads, waits, and   *)
(* inserts at its commit; that what it read is still so depends on the locks *)
(* it holds from its reading on.  LibraryInv says which locks it holds where *)
(* it stands (Holding), that nobody else holds them (Exclusive), and what is *)
(* still so because of them (Checked).                                       *)
EXTENDS SetupLibrary, SequenceTheorems, WellFoundedInduction, TLAPS

-------------------------------------------------------------------------------
\* TypeOK, with what the locks and the notes of a request are.
Keys == ({"job"} \X Snapshots) \cup ({"setup"} \X Ids) \cup ({"name"} \X Names)
        \cup ({"project"} \X Projects)

Types ==
    /\ setups \in [Ids -> Names \cup Projects \cup {SeedName, Absent}]
    /\ revisions \in [Ids -> RevisionRows \cup {Absent}]
    /\ publications \in [Snapshots -> Publications \cup {Absent}]
    /\ assigned \in [Projects -> Requests \cup {Absent}]
    /\ request \in [Requests -> Payloads \cup {Absent}]
    /\ pc \in [Requests -> Places]
    /\ base \in [Requests -> Ids \cup {Absent}]
    /\ locks \in [Requests -> SUBSET Keys]
    /\ answer \in [Requests -> Answers \cup {Absent}]
    /\ sentAfter \in [Requests -> SUBSET Requests]

Adds(q) == Kind(q) \in {"add", "addNew"}
Appends(q) == Kind(q) \in {"publish", "add"}

\* A request that was sent asks for something, of a Setup that is there, and stands
\* where its kind can stand.
Standing(q) ==
    /\ pc[q] # "idle" => /\ request[q] \in Payloads
                         /\ Appends(q) => setups[request[q].setup] # Absent
    /\ pc[q] = "prior" => Adds(q)
    /\ pc[q] = "setup" => Kind(q) = "add"
    /\ pc[q] = "latest" => Appends(q)
    /\ pc[q] = "name" => Kind(q) = "addNew"
    /\ pc[q] = "insert" => Kind(q) \in {"create", "addNew"}
    /\ pc[q] = "default" => Kind(q) = "capture"

\* The locks it holds there.
Holding(q) ==
    /\ pc[q] \in {"prior", "setup", "latest", "name", "insert", "commit"} /\ Adds(q) =>
          <<"job", request[q].snapshot>> \in locks[q]
    /\ pc[q] \in {"latest", "commit"} /\ Appends(q) => <<"setup", request[q].setup>> \in locks[q]
    /\ pc[q] \in {"default", "commit"} /\ Kind(q) = "capture" =>
          <<"project", request[q].project>> \in locks[q]

\* What it read under these locks is still so.
Checked(q) ==
    /\ pc[q] \in {"setup", "latest", "name", "insert", "commit"} /\ Adds(q) => ~Published(q)
    /\ pc[q] = "commit" /\ Appends(q) =>
          /\ base[q] \in RevisionsOf(request[q].setup)
          /\ revisions[base[q]].number = request[q].expected
          /\ \A r \in RevisionsOf(request[q].setup) : revisions[r].number <= request[q].expected
    /\ pc[q] = "commit" /\ Kind(q) = "capture" => \A s \in Ids : setups[s] # request[q].project

\* It has no rows before it commits, and no answer before it ends.
Fresh(q) == pc[q] # "done" => ~Exists(q) /\ setups[q] = Absent /\ answer[q] = Absent

\* Its answer is true.
Answered(q) ==
    answer[q] # Absent =>
        /\ answer[q].outcome = "created" =>
              answer[q].revision \in Ids /\ Exists(answer[q].revision)
              /\ Fulfils(answer[q].revision, request[q])
        /\ answer[q].outcome = "refused" => setups[q] = Absent /\ ~Exists(q)
        /\ \A o \in sentAfter[q] :
              request[q] = request[o] /\ Adds(q) =>
                 answer[q].outcome = "lost" \/ answer[q] = [outcome |-> "created", revision |-> o]

UnderWay(q) ==
    /\ Standing(q) /\ Holding(q) /\ Checked(q) /\ Fresh(q) /\ Answered(q)
    /\ \A o \in sentAfter[q] : Exists(o)

\* No two transactions hold the same row or key.
Exclusive == \A q, o \in Requests : q # o => locks[q] \cap locks[o] = {}

\* The revisions of a Setup are numbered from 1, each number once and none left out.
Whole(s) ==
    /\ \A r \in RevisionsOf(s) : revisions[r].number \in 1 .. MaxRevision + 1
    /\ \A r, o \in RevisionsOf(s) : revisions[r].number = revisions[o].number => r = o
    /\ \A r \in RevisionsOf(s) : \A n \in 1 .. revisions[r].number :
          \E o \in RevisionsOf(s) : revisions[o].number = n
    /\ setups[s] # Absent <=> RevisionsOf(s) # {}

\* A revision of a request is what was asked for; its publication, or its scan, tells so.
Made(r) ==
    Exists(r) =>
        /\ Fulfils(r, request[r])
        /\ Adds(r) => publications[request[r].snapshot] = [request |-> request[r], revision |-> r]
        /\ revisions[r].scanned => Kind(r) = "capture"
        /\ Kind(r) = "capture" => revisions[r].setup = r

\* A publication is that of a revision.
PublicationsAreReal ==
    \A snapshot \in Snapshots : publications[snapshot] # Absent =>
        LET r == publications[snapshot].revision
        IN  Exists(r) /\ Adds(r) /\ request[r] = publications[snapshot].request

LibraryInv ==
    /\ Types /\ Exclusive /\ PublicationsAreReal
    /\ Exists(Seed) /\ ~revisions[Seed].scanned
    /\ \A q \in Requests : UnderWay(q) /\ Made(q)
    /\ \A s \in Ids : Whole(s)

\* A step of one request that changes no table.
LocalStep(q) ==
    /\ UNCHANGED <<tables, request, sentAfter>>
    /\ \A o \in Requests \ {q} : /\ pc'[o] = pc[o] /\ base'[o] = base[o]
                                 /\ locks'[o] = locks[o] /\ answer'[o] = answer[o]

-------------------------------------------------------------------------------

\* What a request asks for has the fields of its kind.
LEMMA PayloadFields ==
    ASSUME NEW p \in Payloads
    PROVE  /\ p.kind \in {"create", "publish", "add", "addNew", "capture"}
           /\ p.kind \in {"create", "addNew"} => p.name \in Names
           /\ p.kind \in {"create", "publish"} => p.from \in Ids /\ p.items \in SUBSET Items
           /\ p.kind \in {"publish", "add"} => p.setup \in Ids /\ p.expected \in 1 .. MaxRevision
           /\ p.kind \in {"add", "addNew"} => p.snapshot \in Snapshots /\ Captured[p.snapshot] \in Items
           /\ p.kind = "capture" => p.project \in Projects /\ p.items \in SUBSET Items
<1>1. CASE p \in [kind : {"create"}, name : Names, from : Ids, items : Selections]
  <2>1. p.kind = "create" /\ p.name \in Names /\ p.from \in Ids /\ p.items \in Selections
    BY <1>1
  <2> QED  BY <2>1, LibraryAssumption
<1>2. CASE p \in [kind : {"publish"}, setup : Ids, expected : 1 .. MaxRevision, from : Ids,
                  items : Selections]
  <2>1. /\ p.kind = "publish" /\ p.setup \in Ids /\ p.expected \in 1 .. MaxRevision
        /\ p.from \in Ids /\ p.items \in Selections
    BY <1>2
  <2> QED  BY <2>1, LibraryAssumption
<1>3. CASE p \in [kind : {"add"}, setup : Ids, expected : 1 .. MaxRevision, snapshot : Snapshots]
  <2>1. /\ p.kind = "add" /\ p.setup \in Ids /\ p.expected \in 1 .. MaxRevision
        /\ p.snapshot \in Snapshots
    BY <1>3
  <2> QED  BY <2>1, LibraryAssumption
<1>4. CASE p \in [kind : {"addNew"}, name : Names, snapshot : Snapshots]
  <2>1. p.kind = "addNew" /\ p.name \in Names /\ p.snapshot \in Snapshots
    BY <1>4
  <2> QED  BY <2>1, LibraryAssumption
<1>5. CASE p \in UNION {[kind : {"capture"}, project : {o}, items : SUBSET Discovered[o]] : o \in Projects}
  <2>1. PICK o \in Projects : p \in [kind : {"capture"}, project : {o}, items : SUBSET Discovered[o]]
    BY <1>5
  <2>2. p.kind = "capture" /\ p.project = o /\ p.items \in SUBSET Discovered[o]
    BY <2>1
  <2> QED  BY <2>2, LibraryAssumption
<1> QED  BY <1>1, <1>2, <1>3, <1>4, <1>5 DEF Payloads

\* Names of Setups, projects (the names of Defaults) and NULL are different things.
LEMMA NamesDiffer ==
    /\ Absent \notin Names /\ Absent \notin Projects /\ Absent # SeedName
    /\ Names \cap Projects = {} /\ SeedName \notin Projects
    /\ Seed \in Ids /\ Requests \subseteq Ids /\ Seed \notin Requests
  BY LibraryAssumption DEF Ids

\* A row of setup_revisions is typed.
LEMMA RowFields ==
    ASSUME Types, NEW r \in Ids, Exists(r)
    PROVE  /\ revisions[r] \in RevisionRows
           /\ revisions[r].setup \in Ids /\ revisions[r].number \in Nat
           /\ revisions[r].items \in SUBSET Items
  BY DEF Types, Exists, RevisionRows

\* ORDER BY revision_number DESC LIMIT 1 finds a row: the numbers are bounded.
LEMMA LatestExists ==
    ASSUME Types, NEW s \in Ids, Whole(s), RevisionsOf(s) # {}
    PROVE  /\ LatestOf(s) \in RevisionsOf(s)
           /\ \A o \in RevisionsOf(s) : revisions[o].number <= revisions[LatestOf(s)].number
<1> DEFINE numbers == {revisions[r].number : r \in RevisionsOf(s)}
           below == {MaxRevision + 1 - n : n \in numbers}
<1>1. \A r \in RevisionsOf(s) : revisions[r].number \in 1 .. MaxRevision + 1
  BY DEF Whole
<1>2. MaxRevision \in Nat
  BY LibraryAssumption
<1>3. below \subseteq Nat /\ below # {}
  BY <1>1, <1>2
<1>4. PICK least \in below : \A m \in below : ~ <<m, least>> \in OpToRel(<, Nat)
  BY <1>3, NatLessThanWellFounded, WFMin
<1>5. PICK r \in RevisionsOf(s) : least = MaxRevision + 1 - revisions[r].number
  BY <1>4
<1>6. \A o \in RevisionsOf(s) : revisions[o].number <= revisions[r].number
  <2> TAKE o \in RevisionsOf(s)
  <2> DEFINE m == MaxRevision + 1 - revisions[o].number
  <2>1. m \in below /\ m \in Nat /\ least \in Nat
    BY <1>3, <1>4
  <2>2. ~ (m < least)
    BY <2>1, <1>4 DEF OpToRel
  <2> QED  BY <2>2, <1>1, <1>2, <1>5
<1> HIDE DEF numbers, below
<1> QED  BY <1>6 DEF LatestOf

-------------------------------------------------------------------------------

\* A request of which nothing changes is where it was.
LEMMA OthersStay ==
    ASSUME NEW q \in Requests, NEW o \in Requests \ {q}, LocalStep(q), UnderWay(o)
    PROVE  UnderWay(o)'
<1>1. /\ setups' = setups /\ revisions' = revisions /\ publications' = publications
      /\ assigned' = assigned /\ request' = request /\ sentAfter' = sentAfter
      /\ pc'[o] = pc[o] /\ base'[o] = base[o] /\ locks'[o] = locks[o] /\ answer'[o] = answer[o]
  BY DEF LocalStep, tables
<1>2. Standing(o)'
  BY <1>1 DEF UnderWay, Standing, Adds, Appends, Kind
<1>3. Holding(o)'
  BY <1>1 DEF UnderWay, Holding, Adds, Appends, Kind
<1>4. Checked(o)'
  BY <1>1 DEF UnderWay, Checked, Adds, Appends, Kind, Published, RevisionsOf, Exists
<1>5. Fresh(o)'
  BY <1>1 DEF UnderWay, Fresh, Exists
<1>6. Answered(o)'
  BY <1>1 DEF UnderWay, Answered, Exists, Fulfils, Adds, Kind
<1>7. (\A r \in sentAfter[o] : Exists(r))'
  BY <1>1 DEF UnderWay, Exists
<1> QED  BY <1>2, <1>3, <1>4, <1>5, <1>6, <1>7 DEF UnderWay

\* The rows stay what they are.
LEMMA RowsStay ==
    ASSUME UNCHANGED <<tables, request>>
    PROVE  /\ \A r \in Requests : Made(r) => Made(r)'
           /\ \A s \in Ids : Whole(s) => Whole(s)'
           /\ PublicationsAreReal => PublicationsAreReal'
           /\ Exists(Seed) /\ ~revisions[Seed].scanned => (Exists(Seed) /\ ~revisions[Seed].scanned)'
<1>1. /\ setups' = setups /\ revisions' = revisions /\ publications' = publications
      /\ assigned' = assigned /\ request' = request
  BY DEF tables
<1>2. ASSUME NEW r \in Requests, Made(r)
      PROVE  Made(r)'
  BY <1>1, <1>2 DEF Made, Fulfils, Adds, Kind, Exists
<1>3. ASSUME NEW s \in Ids, Whole(s)
      PROVE  Whole(s)'
  BY <1>1, <1>3 DEF Whole, RevisionsOf, Exists
<1>4. PublicationsAreReal => PublicationsAreReal'
  BY <1>1 DEF PublicationsAreReal, Adds, Kind, Exists
<1> QED  BY <1>1, <1>2, <1>3, <1>4 DEF Exists

\* What a step of one request has to show, when it changes no table.
LEMMA LocalKeeps ==
    ASSUME LibraryInv, NEW q \in Requests, LocalStep(q), Types', Exclusive', UnderWay(q)'
    PROVE  LibraryInv'
<1>1. \A o \in Requests \ {q} : UnderWay(o)'
  BY OthersStay DEF LibraryInv
<1>2. UNCHANGED <<tables, request>>
  BY DEF LocalStep
<1>3. \A r \in Requests : Made(r)'
  BY <1>2, RowsStay DEF LibraryInv
<1>4. \A s \in Ids : Whole(s)'
  BY <1>2, RowsStay DEF LibraryInv
<1>5. PublicationsAreReal' /\ (Exists(Seed) /\ ~revisions[Seed].scanned)'
  BY <1>2, RowsStay DEF LibraryInv
<1> QED  BY <1>1, <1>3, <1>4, <1>5 DEF LibraryInv

\* Its locks: one more that nobody holds, the same, or none.
LEMMA LocksApart ==
    ASSUME LibraryInv, NEW q \in Requests,
           \/ \E key \in Keys : Acquire(q, key)
           \/ locks' = locks
           \/ locks' = Release(q)
    PROVE  locks' \in [Requests -> SUBSET Keys] /\ Exclusive'
<1>1. locks \in [Requests -> SUBSET Keys] /\ Exclusive
  BY DEF LibraryInv, Types
<1>2. ASSUME NEW key \in Keys, Acquire(q, key)
      PROVE  locks' \in [Requests -> SUBSET Keys] /\ Exclusive'
  <2>1. locks' = [locks EXCEPT ![q] = @ \cup {key}] /\ \A o \in Requests \ {q} : key \notin locks[o]
    BY <1>2 DEF Acquire, Free
  <2>2. locks'[q] = locks[q] \cup {key} /\ \A o \in Requests \ {q} : locks'[o] = locks[o]
    BY <2>1, <1>1
  <2>3. locks' \in [Requests -> SUBSET Keys]
    BY <2>1, <1>1
  <2>4. ASSUME NEW r \in Requests, NEW o \in Requests, r # o
        PROVE  locks'[r] \cap locks'[o] = {}
    <3>1. locks[r] \cap locks[o] = {}
      BY <1>1, <2>4 DEF Exclusive
    <3> QED  BY <3>1, <2>1, <2>2, <2>4
  <2> QED  BY <2>3, <2>4 DEF Exclusive
<1>3. CASE locks' = locks
  BY <1>1, <1>3 DEF Exclusive
<1>4. CASE locks' = Release(q)
  <2>1. locks' = [locks EXCEPT ![q] = {}]
    BY <1>4 DEF Release
  <2>2. locks' \in [Requests -> SUBSET Keys]
    BY <2>1, <1>1
  <2>3. \A o \in Requests : locks'[o] \subseteq locks[o]
    BY <2>1, <1>1
  <2> QED  BY <2>2, <2>3, <1>1 DEF Exclusive
<1> QED  BY <1>2, <1>3, <1>4

\* A request whose transaction ends has nothing more to keep than its answer.
LEMMA EndedKeeps ==
    ASSUME LibraryInv, NEW q \in Requests, NEW outcome \in {"created", "refused", "lost"},
           NEW r \in Ids \cup {Absent}, pc[q] \notin {"idle", "done"},
           End(q, outcome, r), locks' = Release(q), UNCHANGED tables,
           outcome = "created" => r \in Ids /\ Exists(r) /\ Fulfils(r, request[q]),
           outcome # "lost" =>
               \A o \in sentAfter[q] :
                   request[q] = request[o] /\ Adds(q) => outcome = "created" /\ r = o
    PROVE  LibraryInv'
<1>1. /\ answer' = [answer EXCEPT ![q] = [outcome |-> outcome, revision |-> r]]
      /\ pc' = [pc EXCEPT ![q] = "done"]
      /\ UNCHANGED <<request, base, sentAfter>> /\ locks' = [locks EXCEPT ![q] = {}]
      /\ setups' = setups /\ revisions' = revisions /\ publications' = publications
      /\ assigned' = assigned
  BY DEF End, Release, tables
<1>2. Types /\ UnderWay(q)
  BY DEF LibraryInv
<1>3. /\ answer'[q] = [outcome |-> outcome, revision |-> r] /\ pc'[q] = "done"
      /\ \A o \in Requests \ {q} : pc'[o] = pc[o] /\ locks'[o] = locks[o] /\ answer'[o] = answer[o]
  BY <1>1, <1>2 DEF Types
<1>4. LocalStep(q)
  BY <1>1, <1>3 DEF LocalStep, tables
<1>5. locks' \in [Requests -> SUBSET Keys] /\ Exclusive'
  BY LocksApart
<1>6. Types'
  <2>1. [outcome |-> outcome, revision |-> r] \in Answers
    BY DEF Answers
  <2>2. answer' \in [Requests -> Answers \cup {Absent}]
    BY <2>1, <1>1, <1>2 DEF Types
  <2>3. pc' \in [Requests -> Places]
    BY <1>1, <1>2 DEF Types, Places
  <2> QED  BY <2>2, <2>3, <1>1, <1>2, <1>5 DEF Types
<1>7. Standing(q)' /\ Holding(q)' /\ Checked(q)' /\ Fresh(q)'
  BY <1>1, <1>2, <1>3 DEF UnderWay, Standing, Holding, Checked, Fresh, Appends, Kind
<1>8. Answered(q)'
  <2>1. setups[q] = Absent /\ ~Exists(q)
    BY <1>2 DEF UnderWay, Fresh
  <2>2. answer'[q].outcome = outcome /\ answer'[q].revision = r
    BY <1>3
  <2>3. ASSUME NEW o \in sentAfter[q], request[q] = request[o], Adds(q)
        PROVE  answer'[q].outcome = "lost" \/ answer'[q] = [outcome |-> "created", revision |-> o]
    BY <2>2, <2>3, <1>3
  <2> QED  BY <2>1, <2>2, <2>3, <1>1 DEF Answered, Exists, Fulfils, Adds, Kind
<1>9. (\A o \in sentAfter[q] : Exists(o))'
  BY <1>1, <1>2 DEF UnderWay, Exists
<1> QED  BY <1>4, <1>5, <1>6, <1>7, <1>8, <1>9, LocalKeeps DEF UnderWay

\* A request that goes on has nothing more to keep than what its new place asks for.
LEMMA GoesOnKeeps ==
    ASSUME LibraryInv, NEW q \in Requests, NEW place \in Places \ {"idle", "done"},
           pc[q] \notin {"idle", "done"}, GoTo(q, place), UNCHANGED tables,
           (\E key \in Keys : Acquire(q, key)) \/ locks' = locks,
           (\E r \in Ids : base' = [base EXCEPT ![q] = r]) \/ base' = base,
           Standing(q)', Holding(q)', Checked(q)'
    PROVE  LibraryInv'
<1>1. /\ pc' = [pc EXCEPT ![q] = place] /\ UNCHANGED <<request, answer, sentAfter>>
      /\ setups' = setups /\ revisions' = revisions /\ publications' = publications
      /\ assigned' = assigned
  BY DEF GoTo, tables
<1>2. Types /\ UnderWay(q)
  BY DEF LibraryInv
<1>3. locks' \in [Requests -> SUBSET Keys] /\ Exclusive'
  BY LocksApart
<1>4. base' \in [Requests -> Ids \cup {Absent}]
  BY <1>2 DEF Types
<1>5. Types'
  BY <1>1, <1>2, <1>3, <1>4 DEF Types
<1>6. \A o \in Requests \ {q} : locks'[o] = locks[o]
  BY <1>2 DEF Acquire, Types
<1>7. \A o \in Requests \ {q} : base'[o] = base[o]
  BY <1>2 DEF Types
<1>8. LocalStep(q)
  BY <1>1, <1>2, <1>6, <1>7 DEF LocalStep, tables, Types
<1>9. Fresh(q)' /\ Answered(q)'
  <2>1. answer'[q] = Absent /\ ~Exists(q)' /\ setups'[q] = Absent
    BY <1>1, <1>2 DEF UnderWay, Fresh, Exists
  <2> QED  BY <2>1 DEF Fresh, Answered
<1>10. (\A o \in sentAfter[q] : Exists(o))'
  BY <1>1, <1>2 DEF UnderWay, Exists
<1> QED  BY <1>3, <1>5, <1>8, <1>9, <1>10, LocalKeeps DEF UnderWay

-------------------------------------------------------------------------------

\* What a request under way asks for.
LEMMA UnderWayAsks ==
    ASSUME LibraryInv, NEW q \in Requests, pc[q] # "idle"
    PROVE  /\ request[q] \in Payloads
           /\ pc[q] \in Places
           /\ Standing(q) /\ Holding(q) /\ Checked(q) /\ Fresh(q) /\ Answered(q)
           /\ Adds(q) => request[q].snapshot \in Snapshots
           /\ Appends(q) => /\ request[q].setup \in Ids /\ request[q].expected \in 1 .. MaxRevision
                            /\ setups[request[q].setup] # Absent
           /\ Kind(q) = "capture" => request[q].project \in Projects
           /\ Kind(q) \in {"create", "addNew"} => request[q].name \in Names
<1>1. UnderWay(q) /\ pc[q] \in Places
  BY DEF LibraryInv, Types
<1>2. request[q] \in Payloads
  BY <1>1 DEF UnderWay, Standing
<1> QED  BY <1>1, <1>2, PayloadFields DEF UnderWay, Standing, Adds, Appends, Kind

\* A request that follows one that published the same skill finds its publication.
LEMMA EarlierPublished ==
    ASSUME LibraryInv, NEW q \in Requests, NEW o \in sentAfter[q],
           request[q] = request[o], Adds(q)
    PROVE  /\ o \in Requests
           /\ publications[request[q].snapshot] = [request |-> request[q], revision |-> o]
           /\ Published(q)
<1>1. o \in Requests /\ Exists(o)
  BY DEF LibraryInv, Types, UnderWay
<1>2. Adds(o)
  BY DEF Adds, Kind
<1>3. publications[request[o].snapshot] = [request |-> request[o], revision |-> o]
  BY <1>1, <1>2 DEF LibraryInv, Made
<1>4. pc[o] # "idle"
  BY <1>1 DEF LibraryInv, UnderWay, Fresh
<1>5. [request |-> request[o], revision |-> o] \in Publications
  BY <1>1, <1>4, UnderWayAsks DEF Publications
<1> QED  BY <1>1, <1>3, <1>5, AbsentAssumption DEF Published

\* One lemma for each action: the invariant is kept.
LEMMA SendKeeps ==
    ASSUME LibraryInv, NEW q \in Requests, NEW p \in Payloads, Send(q, p)
    PROVE  LibraryInv'
<1>1. /\ pc[q] = "idle"
      /\ p.kind \in {"publish", "add"} => setups[p.setup] # Absent
      /\ request' = [request EXCEPT ![q] = p]
      /\ pc' = [pc EXCEPT ![q] = "start"]
      /\ sentAfter' = [sentAfter EXCEPT ![q] = {o \in Requests : Exists(o)}]
      /\ setups' = setups /\ revisions' = revisions /\ publications' = publications
      /\ assigned' = assigned /\ base' = base /\ locks' = locks /\ answer' = answer
  BY DEF Send, tables
<1>2. Types /\ UnderWay(q)
  BY DEF LibraryInv
<1>3. Types'
  <2>1. request' \in [Requests -> Payloads \cup {Absent}]
    BY <1>1, <1>2 DEF Types
  <2>2. pc' \in [Requests -> Places]
    BY <1>1, <1>2 DEF Types, Places
  <2>3. sentAfter' \in [Requests -> SUBSET Requests]
    BY <1>1, <1>2 DEF Types
  <2> QED  BY <2>1, <2>2, <2>3, <1>1, <1>2 DEF Types
<1>4. Exclusive'
  BY <1>1 DEF LibraryInv, Exclusive
<1>5. /\ request'[q] = p /\ pc'[q] = "start" /\ sentAfter'[q] = {o \in Requests : Exists(o)}
      /\ \A o \in Requests \ {q} : /\ request'[o] = request[o] /\ pc'[o] = pc[o]
                                   /\ sentAfter'[o] = sentAfter[o]
  BY <1>1, <1>2 DEF Types
<1>6. ~Exists(q) /\ setups[q] = Absent /\ answer[q] = Absent
  BY <1>1, <1>2 DEF UnderWay, Fresh
<1>7. UnderWay(q)'
  <2>1. Standing(q)'
    BY <1>1, <1>5 DEF Standing, Appends, Kind
  <2>2. Holding(q)' /\ Checked(q)'
    BY <1>5 DEF Holding, Checked
  <2>3. Fresh(q)' /\ Answered(q)'
    BY <1>1, <1>6 DEF Fresh, Answered, Exists
  <2>4. (\A o \in sentAfter[q] : Exists(o))'
    BY <1>1, <1>5 DEF Exists
  <2> QED  BY <2>1, <2>2, <2>3, <2>4 DEF UnderWay
<1>8. ASSUME NEW o \in Requests \ {q}
      PROVE  UnderWay(o)'
  <2>1. UnderWay(o)
    BY DEF LibraryInv
  <2>2. \A r \in sentAfter[o] : r \in Requests /\ r # q
    BY <2>1, <1>2, <1>6 DEF UnderWay, Types
  <2>3. Standing(o)'
    BY <1>1, <1>5, <2>1 DEF UnderWay, Standing, Adds, Appends, Kind
  <2>4. Holding(o)'
    BY <1>1, <1>5, <2>1 DEF UnderWay, Holding, Adds, Appends, Kind
  <2>5. Checked(o)'
    BY <1>1, <1>5, <2>1 DEF UnderWay, Checked, Adds, Appends, Kind, Published, RevisionsOf, Exists
  <2>6. Fresh(o)'
    BY <1>1, <1>5, <2>1 DEF UnderWay, Fresh, Exists
  <2>7. Answered(o)'
    <3>1. Answered(o)
      BY <2>1 DEF UnderWay
    <3>2. /\ setups' = setups /\ revisions' = revisions /\ assigned' = assigned /\ answer' = answer
          /\ request'[o] = request[o] /\ sentAfter'[o] = sentAfter[o]
      BY <1>1, <1>5
    <3>3. ASSUME answer[o] # Absent, answer[o].outcome = "created"
          PROVE  Exists(answer[o].revision)' /\ Fulfils(answer[o].revision, request[o])'
      BY <3>1, <3>2, <3>3 DEF Answered, Fulfils, Exists
    <3>4. ASSUME answer[o] # Absent, NEW r \in sentAfter[o], request'[o] = request'[r], Adds(o)'
          PROVE  answer[o].outcome = "lost" \/ answer[o] = [outcome |-> "created", revision |-> r]
      <4>1. request[o] = request[r] /\ Adds(o)
        BY <3>2, <3>4, <2>2, <1>5 DEF Adds, Kind
      <4> QED  BY <4>1, <3>1, <3>4 DEF Answered
    <3> QED  BY <3>1, <3>2, <3>3, <3>4 DEF Answered, Exists
  <2>8. (\A r \in sentAfter[o] : Exists(r))'
    BY <1>1, <1>5, <2>1 DEF UnderWay, Exists
  <2> QED  BY <2>3, <2>4, <2>5, <2>6, <2>7, <2>8 DEF UnderWay
<1>9. ASSUME NEW r \in Requests
      PROVE  Made(r)'
  <2>1. Exists(r)' => Exists(r) /\ r # q
    BY <1>1, <1>6 DEF Exists
  <2> SUFFICES ASSUME Exists(r)'
               PROVE  Made(r)'
    BY DEF Made
  <2>2. Exists(r) /\ r # q /\ Made(r) /\ request'[r] = request[r]
    BY <2>1, <1>5 DEF LibraryInv
  <2>3. setups' = setups /\ revisions' = revisions /\ publications' = publications /\ assigned' = assigned
    BY <1>1
  <2>4. Fulfils(r, request[r])'
    BY <2>2, <2>3 DEF Made, Fulfils
  <2> QED  BY <2>2, <2>3, <2>4 DEF Made, Adds, Kind
<1>10. ASSUME NEW s \in Ids
       PROVE  Whole(s)'
  BY <1>1 DEF LibraryInv, Whole, RevisionsOf, Exists
<1>11. PublicationsAreReal'
  <2> SUFFICES ASSUME NEW snapshot \in Snapshots, publications[snapshot] # Absent
               PROVE  LET r == publications[snapshot].revision
                      IN  Exists(r)' /\ Adds(r)' /\ request'[r] = publications[snapshot].request
    BY <1>1 DEF PublicationsAreReal, Adds, Kind, Exists
  <2>1. PICK r \in Requests : r = publications[snapshot].revision
    BY <1>2 DEF Types, Publications
  <2>2. Exists(r) /\ Adds(r) /\ request[r] = publications[snapshot].request
    BY <2>1 DEF LibraryInv, PublicationsAreReal
  <2>3. r # q
    BY <2>2, <1>6
  <2> QED  BY <2>1, <2>2, <2>3, <1>1, <1>5 DEF Exists, Adds, Kind
<1> QED  BY <1>1, <1>3, <1>4, <1>7, <1>8, <1>9, <1>10, <1>11 DEF LibraryInv, Exists

\* The lock of the job is held from here on.
LEMMA LockJobKeeps ==
    ASSUME LibraryInv, NEW q \in Requests, LockJob(q)
    PROVE  LibraryInv'
<1>1. pc[q] = "start" /\ Adds(q) /\ Acquire(q, <<"job", request[q].snapshot>>) /\ GoTo(q, "prior")
      /\ UNCHANGED <<tables, base>>
  BY DEF LockJob, Adds
<1>2. <<"job", request[q].snapshot>> \in Keys
  BY <1>1, UnderWayAsks DEF Keys
<1>3. request' = request /\ pc'[q] = "prior" /\ <<"job", request[q].snapshot>> \in locks'[q]
  BY <1>1 DEF GoTo, Acquire, LibraryInv, Types
<1>4. Standing(q)' /\ Holding(q)' /\ Checked(q)'
  BY <1>1, <1>3, UnderWayAsks DEF Standing, Holding, Checked, Adds, Appends, Kind, tables
<1> QED  BY <1>1, <1>2, <1>4, GoesOnKeeps DEF Places

\* The publication that is found is that of a revision, which answers the same request.
LEMMA FindPriorKeeps ==
    ASSUME LibraryInv, NEW q \in Requests, FindPrior(q)
    PROVE  LibraryInv'
<1>1. pc[q] = "prior" /\ Adds(q) /\ UNCHANGED tables
  BY UnderWayAsks DEF FindPrior, Standing
<1>2. CASE ~Published(q)
  <2>1. PICK place \in {"setup", "name"} :
            GoTo(q, place) /\ place = IF Kind(q) = "add" THEN "setup" ELSE "name"
    BY <1>2 DEF FindPrior
  <2>2. base' = base /\ locks' = locks /\ request' = request /\ pc'[q] = place
    BY <1>2, <2>1 DEF FindPrior, GoTo, LibraryInv, Types
  <2>3. Standing(q)'
    BY <1>1, <2>1, <2>2, UnderWayAsks DEF Standing, Adds, Appends, Kind, tables
  <2>4. Holding(q)'
    BY <1>1, <2>1, <2>2, UnderWayAsks DEF Holding, Adds, Appends, Kind, tables
  <2>5. Checked(q)'
    BY <1>1, <1>2, <2>1, <2>2, UnderWayAsks DEF Checked, Adds, Appends, Kind, tables, Published
  <2> QED  BY <1>1, <2>1, <2>2, <2>3, <2>4, <2>5, GoesOnKeeps DEF Places
<1>3. CASE Published(q)
  <2> DEFINE row == publications[request[q].snapshot]
  <2>1. row \in Publications /\ row # Absent
    BY <1>1, <1>3, UnderWayAsks DEF Published, LibraryInv, Types
  <2>2. PICK r \in Requests : r = row.revision
    BY <2>1 DEF Publications
  <2>3. Exists(r) /\ Adds(r) /\ request[r] = row.request
    BY <2>1, <2>2, <1>1, UnderWayAsks DEF LibraryInv, PublicationsAreReal
  <2>4. ASSUME NEW o \in sentAfter[q], request[q] = request[o], Adds(q)
        PROVE  row.request = request[q] /\ r = o
    <3>1. row = [request |-> request[q], revision |-> o]
      BY <2>4, EarlierPublished
    <3> QED  BY <3>1, <2>2
  <2> HIDE DEF row
  <2>5. CASE SamePublication(q)
    <3>1. End(q, "created", r) /\ locks' = Release(q) /\ row.request = request[q]
      BY <1>3, <2>2, <2>5 DEF FindPrior, SamePublication, row
    <3>2. Fulfils(r, request[q])
      <4>1. Fulfils(r, request[r])
        BY <2>3 DEF LibraryInv, Made
      <4> QED  BY <4>1, <2>3, <3>1 DEF Fulfils
    <3> QED  BY <1>1, <2>3, <2>4, <3>1, <3>2, NamesDiffer, EndedKeeps
  <2>6. CASE ~SamePublication(q)
    <3>1. End(q, "refused", Absent) /\ locks' = Release(q)
      BY <1>3, <2>6 DEF FindPrior, Refuse, LocksAfterRefusal
    <3>2. \A o \in sentAfter[q] : ~ (request[q] = request[o] /\ Adds(q))
      BY <2>4, <2>6 DEF SamePublication, row
    <3> QED  BY <1>1, <3>1, <3>2, EndedKeeps
  <2> QED  BY <2>5, <2>6
<1> QED  BY <1>2, <1>3

\* The lock of the Setup is held from here on.
LEMMA LockSetupKeeps ==
    ASSUME LibraryInv, NEW q \in Requests, LockSetup(q)
    PROVE  LibraryInv'
<1>1. /\ \/ pc[q] = "start" /\ Kind(q) = "publish"
         \/ pc[q] = "setup" /\ Kind(q) = "add"
      /\ Acquire(q, <<"setup", request[q].setup>>) /\ GoTo(q, "latest")
      /\ UNCHANGED <<tables, base>>
  BY UnderWayAsks DEF LockSetup, Standing
<1>2. <<"setup", request[q].setup>> \in Keys /\ Appends(q)
  BY <1>1, UnderWayAsks DEF Keys, Appends
<1>3. /\ request' = request /\ pc'[q] = "latest" /\ locks[q] \subseteq locks'[q]
      /\ <<"setup", request[q].setup>> \in locks'[q]
  BY <1>1 DEF GoTo, Acquire, LibraryInv, Types
<1>4. Standing(q)'
  BY <1>1, <1>2, <1>3, UnderWayAsks DEF Standing, Adds, Appends, Kind, tables
<1>5. Holding(q)'
  BY <1>1, <1>2, <1>3, UnderWayAsks DEF Holding, Adds, Appends, Kind, tables
<1>6. Checked(q)'
  BY <1>1, <1>2, <1>3, UnderWayAsks DEF Checked, Adds, Appends, Kind, tables, Published
<1> QED  BY <1>1, <1>2, <1>4, <1>5, <1>6, GoesOnKeeps DEF Places

\* The end of a request that is refused before it published anything.
LEMMA RefusalKeeps ==
    ASSUME LibraryInv, NEW q \in Requests, Refuse(q), UNCHANGED tables,
           pc[q] \notin {"idle", "done"}, Adds(q) => ~Published(q)
    PROVE  LibraryInv'
<1>1. End(q, "refused", Absent) /\ locks' = Release(q)
  BY DEF Refuse, LocksAfterRefusal
<1>2. \A o \in sentAfter[q] : ~ (request[q] = request[o] /\ Adds(q))
  BY EarlierPublished
<1> QED  BY <1>1, <1>2, EndedKeeps

\* The latest revision is found, and no other transaction can add one.
LEMMA CheckLatestKeeps ==
    ASSUME LibraryInv, NEW q \in Requests, CheckLatest(q)
    PROVE  LibraryInv'
<1>1. pc[q] = "latest" /\ Appends(q) /\ UNCHANGED tables /\ request[q].setup \in Ids
  BY UnderWayAsks DEF CheckLatest, Standing
<1>2. CASE Refuse(q)
  BY <1>1, <1>2, UnderWayAsks, RefusalKeeps DEF Checked
<1>3. CASE ~Refuse(q)
  <2>1. /\ ExpectedIsLatest(q) /\ GoTo(q, "commit") /\ locks' = locks
        /\ base' = [base EXCEPT ![q] = LatestOf(request[q].setup)]
    BY <1>3 DEF CheckLatest
  <2>2. PICK s \in Ids : s = request[q].setup
    BY <1>1
  <2>3. Whole(s) /\ setups[s] # Absent /\ Types
    BY <1>1, <2>2, UnderWayAsks DEF LibraryInv
  <2>4. RevisionsOf(s) # {}
    BY <2>3 DEF Whole
  <2>5. /\ LatestOf(s) \in RevisionsOf(s)
        /\ \A o \in RevisionsOf(s) : revisions[o].number <= revisions[LatestOf(s)].number
    BY <2>3, <2>4, LatestExists
  <2>6. PICK r \in Ids : r = LatestOf(s)
    BY <2>5 DEF RevisionsOf
  <2>7. revisions[r].number = request[q].expected
    BY <2>1, <2>2, <2>6 DEF ExpectedIsLatest
  <2>8. base' = [base EXCEPT ![q] = r] /\ base'[q] = r
    BY <2>1, <2>2, <2>3, <2>6 DEF Types
  <2>9. request' = request /\ pc'[q] = "commit" /\ revisions' = revisions /\ setups' = setups
        /\ publications' = publications
    BY <2>1, <2>3, <1>1 DEF GoTo, Types, tables
  <2>10. Standing(q)'
    BY <1>1, <2>9, UnderWayAsks DEF Standing, Adds, Appends, Kind
  <2>11. Holding(q)'
    BY <1>1, <2>1, <2>9, UnderWayAsks DEF Holding, Adds, Appends, Kind
  <2>12. Checked(q)'
    <3>1. r \in RevisionsOf(s) /\ \A o \in RevisionsOf(s) : revisions[o].number <= request[q].expected
      BY <2>5, <2>6, <2>7
    <3>2. Adds(q) => ~Published(q)
      BY <1>1, UnderWayAsks DEF Checked
    <3> QED  BY <1>1, <3>1, <3>2, <2>2, <2>7, <2>8, <2>9
             DEF Checked, Adds, Appends, Kind, Published, RevisionsOf, Exists
  <2> QED  BY <1>1, <2>1, <2>8, <2>10, <2>11, <2>12, GoesOnKeeps DEF Places
<1> QED  BY <1>2, <1>3

\* The name is only looked for: two may find it free.
LEMMA CheckNameKeeps ==
    ASSUME LibraryInv, NEW q \in Requests, CheckName(q)
    PROVE  LibraryInv'
<1>1. /\ \/ pc[q] = "start" /\ Kind(q) = "create"
         \/ pc[q] = "name" /\ Kind(q) = "addNew"
      /\ UNCHANGED tables
  BY UnderWayAsks DEF CheckName, Standing
<1>2. Adds(q) => pc[q] = "name" /\ ~Published(q)
  BY <1>1, UnderWayAsks DEF Checked, Adds
<1>3. CASE Refuse(q)
  BY <1>1, <1>2, <1>3, RefusalKeeps
<1>4. CASE ~Refuse(q)
  <2>1. GoTo(q, "insert") /\ base' = base /\ locks' = locks
    BY <1>4 DEF CheckName
  <2>2. request' = request /\ pc'[q] = "insert"
    BY <2>1 DEF GoTo, LibraryInv, Types
  <2>3. Standing(q)'
    BY <1>1, <2>1, <2>2, UnderWayAsks DEF Standing, Adds, Appends, Kind, tables
  <2>4. Holding(q)'
    BY <1>1, <1>2, <2>1, <2>2, UnderWayAsks DEF Holding, Adds, Appends, Kind, tables
  <2>5. Checked(q)'
    BY <1>1, <1>2, <2>1, <2>2, UnderWayAsks DEF Checked, Adds, Appends, Kind, tables, Published
  <2> QED  BY <1>1, <2>1, <2>3, <2>4, <2>5, GoesOnKeeps DEF Places
<1> QED  BY <1>3, <1>4

\* The key of the name is held from here on.
LEMMA InsertSetupKeeps ==
    ASSUME LibraryInv, NEW q \in Requests, InsertSetup(q)
    PROVE  LibraryInv'
<1>1. pc[q] = "insert" /\ Kind(q) \in {"create", "addNew"} /\ UNCHANGED tables
  BY UnderWayAsks DEF InsertSetup, Standing
<1>2. Adds(q) => ~Published(q)
  BY <1>1, UnderWayAsks DEF Checked
<1>3. CASE Refuse(q)
  BY <1>1, <1>2, <1>3, RefusalKeeps
<1>4. CASE ~Refuse(q)
  <2>1. Acquire(q, <<"name", request[q].name>>) /\ GoTo(q, "commit") /\ base' = base
    BY <1>4 DEF InsertSetup
  <2>2. <<"name", request[q].name>> \in Keys
    BY <1>1, UnderWayAsks DEF Keys
  <2>3. request' = request /\ pc'[q] = "commit" /\ locks[q] \subseteq locks'[q]
    BY <2>1 DEF GoTo, Acquire, LibraryInv, Types
  <2>4. Standing(q)'
    BY <1>1, <2>1, <2>3, UnderWayAsks DEF Standing, Adds, Appends, Kind, tables
  <2>5. Holding(q)'
    BY <1>1, <2>1, <2>3, UnderWayAsks DEF Holding, Adds, Appends, Kind, tables
  <2>6. Checked(q)'
    BY <1>1, <1>2, <2>1, <2>3, UnderWayAsks DEF Checked, Adds, Appends, Kind, tables, Published
  <2> QED  BY <1>1, <2>1, <2>2, <2>4, <2>5, <2>6, GoesOnKeeps DEF Places
<1> QED  BY <1>3, <1>4

\* The lock of the project is held from here on.
LEMMA LockProjectKeeps ==
    ASSUME LibraryInv, NEW q \in Requests, LockProject(q)
    PROVE  LibraryInv'
<1>1. pc[q] = "start" /\ Kind(q) = "capture" /\ Acquire(q, <<"project", request[q].project>>)
      /\ GoTo(q, "default") /\ UNCHANGED <<tables, base>>
  BY DEF LockProject
<1>2. <<"project", request[q].project>> \in Keys
  BY <1>1, UnderWayAsks DEF Keys
<1>3. request' = request /\ pc'[q] = "default" /\ <<"project", request[q].project>> \in locks'[q]
  BY <1>1 DEF GoTo, Acquire, LibraryInv, Types
<1>4. Standing(q)' /\ Holding(q)' /\ Checked(q)'
  BY <1>1, <1>3, UnderWayAsks DEF Standing, Holding, Checked, Adds, Appends, Kind, tables
<1> QED  BY <1>1, <1>2, <1>4, GoesOnKeeps DEF Places

\* A Default that was scanned is assigned to its project, or no Setup has its name.
LEMMA FindDefaultKeeps ==
    ASSUME LibraryInv, NEW q \in Requests, FindDefault(q)
    PROVE  LibraryInv'
<1> DEFINE defaults == {s \in Ids : setups[s] = request[q].project}
<1>1. pc[q] = "default" /\ Kind(q) = "capture" /\ UNCHANGED tables /\ request[q].project \in Projects
  BY UnderWayAsks DEF FindDefault, Standing
<1>2. Adds(q) = FALSE /\ Appends(q) = FALSE
  BY <1>1 DEF Adds, Appends
<1>3. CASE Refuse(q)
  BY <1>1, <1>2, <1>3, RefusalKeeps
<1>4. CASE defaults = {}
  <2>1. GoTo(q, "commit") /\ base' = base /\ locks' = locks
    BY <1>4 DEF FindDefault
  <2>2. request' = request /\ pc'[q] = "commit" /\ setups' = setups
    BY <2>1, <1>1 DEF GoTo, LibraryInv, Types, tables
  <2>3. Standing(q)'
    BY <1>1, <1>2, <2>2, UnderWayAsks DEF Standing, Adds, Appends, Kind
  <2>4. Holding(q)'
    BY <1>1, <2>1, <2>2, UnderWayAsks DEF Holding, Adds, Appends, Kind
  <2>5. Checked(q)'
    BY <1>1, <1>4, <2>2 DEF Checked, Adds, Appends, Kind
  <2> QED  BY <1>1, <2>1, <2>3, <2>4, <2>5, GoesOnKeeps DEF Places
<1>5. CASE defaults # {} /\ ~Refuse(q)
  <2>1. PICK s \in Ids : s = CHOOSE t \in defaults : TRUE
    BY <1>5
  <2>2. s \in defaults
    BY <1>5, <2>1
  <2>3. setups[s] = request[q].project /\ setups[s] # Absent
    BY <2>2, <1>1, NamesDiffer
  <2>4. Whole(s) /\ RevisionsOf(s) # {} /\ Types
    BY <2>3 DEF LibraryInv, Whole
  <2>5. PICK r \in Ids : r = LatestOf(s) /\ r \in RevisionsOf(s)
    BY <2>4, LatestExists DEF RevisionsOf
  <2>6. SameCapture(q, r) /\ End(q, "created", r) /\ locks' = Release(q)
    BY <1>5, <2>1, <2>5 DEF FindDefault
  <2>7. Exists(r) /\ revisions[r].setup = s /\ revisions[r].scanned
        /\ revisions[r].items = request[q].items
    BY <2>5, <2>6 DEF RevisionsOf, SameCapture
  <2>8. r \in Requests
    BY <2>7 DEF LibraryInv, Ids
  <2>9. Kind(r) = "capture" /\ Fulfils(r, request[r])
    BY <2>7, <2>8 DEF LibraryInv, Made
  <2>10. setups[s] = request[r].project /\ assigned[request[r].project] = r
    BY <2>9, <2>7 DEF Fulfils, Kind
  <2>11. Fulfils(r, request[q])
    BY <2>3, <2>7, <2>10, <1>1 DEF Fulfils, Kind
  <2> QED  BY <1>1, <1>2, <2>6, <2>7, <2>11, EndedKeeps
<1> QED  BY <1>3, <1>4, <1>5

\* A transaction that breaks has changed nothing.
LEMMA BreakKeeps ==
    ASSUME LibraryInv, NEW q \in Requests, Break(q)
    PROVE  LibraryInv'
<1>1. pc[q] \notin {"idle", "done"} /\ End(q, "lost", Absent) /\ locks' = Release(q) /\ UNCHANGED tables
  BY DEF Break
<1> QED  BY <1>1, EndedKeeps

-------------------------------------------------------------------------------

\* What a commit changes: one row of each table, which was not there.
LEMMA CommitRows ==
    ASSUME LibraryInv, NEW q \in Requests, Commit(q)
    PROVE  /\ pc[q] = "commit" /\ request[q] \in Payloads
           /\ ~Exists(q) /\ setups[q] = Absent /\ RevisionsOf(q) = {} /\ answer[q] = Absent
           /\ NewRevision(q) \in RevisionRows /\ revisions'[q] = NewRevision(q) /\ Exists(q)'
           /\ \A r \in Ids \ {q} : revisions'[r] = revisions[r] /\ setups'[r] = setups[r]
           /\ setups'[q] = IF NewSetup(q) THEN NameOf(q) ELSE Absent
           /\ NewSetup(q) => NameOf(q) \in Names \cup Projects
           /\ request' = request /\ sentAfter' = sentAfter /\ pc'[q] = "done"
           /\ \A o \in Requests \ {q} : /\ pc'[o] = pc[o] /\ base'[o] = base[o]
                                        /\ locks'[o] = locks[o] /\ answer'[o] = answer[o]
           /\ \/ answer'[q] = [outcome |-> "created", revision |-> q]
              \/ answer'[q] = [outcome |-> "lost", revision |-> Absent]
           /\ \A r \in Ids : Exists(r) => revisions[r].setup \in Ids \ {q}
<1>1. pc[q] = "commit" /\ Types /\ UnderWay(q) /\ q \in Ids
  BY NamesDiffer DEF Commit, LibraryInv
<1>2. ~Exists(q) /\ setups[q] = Absent /\ answer[q] = Absent
  BY <1>1 DEF UnderWay, Fresh
<1>3. RevisionsOf(q) = {}
  BY <1>1, <1>2 DEF LibraryInv, Whole
<1>4. Kind(q) \in {"create", "publish", "add", "addNew", "capture"} /\ request[q] \in Payloads
  BY <1>1, UnderWayAsks, PayloadFields DEF Kind
<1>5. NewSetup(q) => NameOf(q) \in Names \cup Projects
  BY <1>1, <1>4, UnderWayAsks DEF NewSetup, NameOf
<1>6. NewItems(q) \in SUBSET Items
  <2>1. CASE Kind(q) = "add"
    <3>1. PICK r \in Ids : r = base[q] /\ Exists(r)
      BY <1>1, <2>1 DEF UnderWay, Checked, Appends, RevisionsOf
    <3>2. revisions[r].items \in SUBSET Items
      BY <1>1, <3>1, RowFields
    <3>3. Captured[request[q].snapshot] \in Items
      BY <1>4, <2>1, PayloadFields DEF Kind
    <3> QED  BY <2>1, <3>1, <3>2, <3>3 DEF NewItems
  <2>2. CASE Kind(q) = "addNew"
    BY <1>4, <2>2, PayloadFields DEF NewItems, Kind
  <2>3. CASE Kind(q) \in {"create", "publish", "capture"}
    BY <1>4, <2>3, PayloadFields DEF NewItems, Kind
  <2> QED  BY <1>4, <2>1, <2>2, <2>3
<1>7. NewRevision(q) \in RevisionRows
  <2>1. NewSetup(q) \/ Appends(q)
    BY <1>4 DEF NewSetup, Appends
  <2>2. Appends(q) => request[q].setup \in Ids /\ request[q].expected + 1 \in Nat
    BY <1>1, UnderWayAsks, LibraryAssumption
  <2>3. (IF NewSetup(q) THEN q ELSE request[q].setup) \in Ids
    BY <1>1, <2>1, <2>2
  <2>4. (IF NewSetup(q) THEN 1 ELSE request[q].expected + 1) \in Nat
    BY <2>1, <2>2
  <2> QED  BY <1>6, <2>3, <2>4 DEF NewRevision, RevisionRows
<1>8. revisions' = [revisions EXCEPT ![q] = NewRevision(q)]
      /\ setups' = IF NewSetup(q) THEN [setups EXCEPT ![q] = NameOf(q)] ELSE setups
  BY DEF Commit
<1>9. revisions'[q] = NewRevision(q) /\ Exists(q)'
  BY <1>1, <1>7, <1>8, AbsentAssumption DEF Types, Exists
<1>10. \A r \in Ids \ {q} : revisions'[r] = revisions[r] /\ setups'[r] = setups[r]
  BY <1>1, <1>8 DEF Types
<1>11. setups'[q] = IF NewSetup(q) THEN NameOf(q) ELSE Absent
  BY <1>1, <1>2, <1>8 DEF Types
<1>12. request' = request /\ sentAfter' = sentAfter /\ pc'[q] = "done"
       /\ \A o \in Requests \ {q} : /\ pc'[o] = pc[o] /\ base'[o] = base[o]
                                    /\ locks'[o] = locks[o] /\ answer'[o] = answer[o]
  BY <1>1 DEF Commit, End, Release, Types
<1>13. \/ answer'[q] = [outcome |-> "created", revision |-> q]
       \/ answer'[q] = [outcome |-> "lost", revision |-> Absent]
  BY <1>1 DEF Commit, End, Types
<1>14. \A r \in Ids : Exists(r) => revisions[r].setup \in Ids \ {q}
  BY <1>1, <1>3, RowFields DEF RevisionsOf
<1> QED  BY <1>1, <1>2, <1>3, <1>4, <1>5, <1>7, <1>9, <1>10, <1>11, <1>12, <1>13, <1>14

\* Which Setup grows, and from where.
LEMMA CommitGrows ==
    ASSUME LibraryInv, NEW q \in Requests, Commit(q)
    PROVE  \/ /\ NewSetup(q) /\ ~Appends(q)
              /\ NewRevision(q).setup = q /\ NewRevision(q).number = 1
           \/ /\ Appends(q) /\ ~NewSetup(q)
              /\ NewRevision(q).setup = request[q].setup /\ request[q].setup \in Ids \ {q}
              /\ NewRevision(q).number = request[q].expected + 1
              /\ request[q].expected \in 1 .. MaxRevision
              /\ base[q] \in RevisionsOf(request[q].setup)
              /\ revisions[base[q]].number = request[q].expected
              /\ \A r \in RevisionsOf(request[q].setup) : revisions[r].number <= request[q].expected
<1>1. pc[q] = "commit" /\ request[q] \in Payloads /\ setups[q] = Absent
  BY CommitRows
<1>2. CASE NewSetup(q)
  BY <1>2 DEF NewSetup, Appends, NewRevision
<1>3. CASE ~NewSetup(q)
  <2>1. Appends(q)
    BY <1>1, <1>3, PayloadFields DEF NewSetup, Appends, Kind
  <2>2. request[q].setup \in Ids \ {q} /\ request[q].expected \in 1 .. MaxRevision
    BY <1>1, <2>1, UnderWayAsks
  <2>3. Checked(q)
    BY <1>1, UnderWayAsks
  <2> QED  BY <1>1, <1>3, <2>1, <2>2, <2>3 DEF Checked, NewRevision
<1> QED  BY <1>2, <1>3

\* What a commit leaves of the other tables.
LEMMA CommitLinks ==
    ASSUME LibraryInv, NEW q \in Requests, Commit(q)
    PROVE  /\ \A snapshot \in Snapshots :
                 \/ publications'[snapshot] = publications[snapshot]
                 \/ /\ Adds(q) /\ snapshot = request[q].snapshot /\ publications[snapshot] = Absent
                    /\ publications'[snapshot] = [request |-> request[q], revision |-> q]
           /\ Adds(q) => publications'[request[q].snapshot] = [request |-> request[q], revision |-> q]
           /\ \A p \in Projects :
                 \/ assigned'[p] = assigned[p]
                 \/ Kind(q) = "capture" /\ p = request[q].project
           /\ Kind(q) = "capture" => /\ assigned'[request[q].project] = q
                                     /\ \A s \in Ids : setups[s] # request[q].project
           /\ publications' \in [Snapshots -> Publications \cup {Absent}]
           /\ assigned' \in [Projects -> Requests \cup {Absent}]
<1>1. pc[q] = "commit" /\ request[q] \in Payloads /\ Types
  BY CommitRows DEF LibraryInv
<1>2. Checked(q)
  BY <1>1, UnderWayAsks
<1>3. Adds(q) => publications[request[q].snapshot] = Absent /\ request[q].snapshot \in Snapshots
  BY <1>1, <1>2, UnderWayAsks DEF Checked, Published
<1>4. Kind(q) = "capture" => request[q].project \in Projects
                             /\ \A s \in Ids : setups[s] # request[q].project
  BY <1>1, <1>2, UnderWayAsks DEF Checked
<1>5. [request |-> request[q], revision |-> q] \in Publications
  BY <1>1 DEF Publications
<1>6. publications' = IF Adds(q) THEN [publications EXCEPT ![request[q].snapshot] =
                                         [request |-> request[q], revision |-> q]]
                      ELSE publications
  BY DEF Commit, Adds, PublishedAs
<1>7. assigned' = IF Kind(q) = "capture" THEN [assigned EXCEPT ![request[q].project] = q] ELSE assigned
  BY DEF Commit
<1>8. publications' \in [Snapshots -> Publications \cup {Absent}]
  BY <1>1, <1>3, <1>5, <1>6 DEF Types
<1>9. assigned' \in [Projects -> Requests \cup {Absent}]
  BY <1>1, <1>4, <1>7 DEF Types
<1> QED  BY <1>1, <1>3, <1>4, <1>6, <1>7, <1>8, <1>9 DEF Types

\* A revision that answers a request still does after a commit.
LEMMA CommitFulfils ==
    ASSUME LibraryInv, NEW q \in Requests, Commit(q), NEW r \in Ids, NEW p \in Payloads,
           Exists(r), Fulfils(r, p)
    PROVE  Fulfils(r, p)'
<1>1. revisions'[r] = revisions[r] /\ setups'[revisions[r].setup] = setups[revisions[r].setup]
  BY CommitRows
<1>2. p.kind = "capture" => assigned'[p.project] = assigned[p.project]
  <2> SUFFICES ASSUME p.kind = "capture"
               PROVE  assigned'[p.project] = assigned[p.project]
    OBVIOUS
  <2>1. p.project \in Projects
    BY PayloadFields
  <2>2. setups[revisions[r].setup] = p.project /\ revisions[r].setup \in Ids
    BY CommitRows DEF Fulfils
  <2>3. \/ assigned'[p.project] = assigned[p.project]
        \/ Kind(q) = "capture" /\ p.project = request[q].project
    BY <2>1, CommitLinks
  <2>4. Kind(q) = "capture" => \A s \in Ids : setups[s] # request[q].project
    BY CommitLinks
  <2> QED  BY <2>2, <2>3, <2>4
<1>3. p.kind \in {"create", "publish", "add", "addNew", "capture"}
  BY PayloadFields
<1> QED  BY <1>1, <1>2, <1>3 DEF Fulfils

\* And the one that is committed answers its own.
LEMMA CommitAnswers ==
    ASSUME LibraryInv, NEW q \in Requests, Commit(q)
    PROVE  Fulfils(q, request[q])'
<1>1. request[q] \in Payloads /\ request' = request /\ revisions'[q] = NewRevision(q)
      /\ setups'[q] = IF NewSetup(q) THEN NameOf(q) ELSE Absent
  BY CommitRows
<1>2. Kind(q) \in {"create", "publish", "add", "addNew", "capture"}
  BY <1>1, PayloadFields DEF Kind
<1>3. revisions'[q].setup = (IF NewSetup(q) THEN q ELSE request[q].setup)
      /\ revisions'[q].number = (IF NewSetup(q) THEN 1 ELSE request[q].expected + 1)
      /\ revisions'[q].items = NewItems(q)
  BY <1>1 DEF NewRevision
<1>4. CASE Kind(q) = "create"
  BY <1>1, <1>3, <1>4 DEF Fulfils, Kind, NewSetup, NameOf, NewItems
<1>5. CASE Kind(q) = "publish"
  BY <1>1, <1>3, <1>5 DEF Fulfils, Kind, NewSetup, NameOf, NewItems
<1>6. CASE Kind(q) = "add"
  BY <1>1, <1>3, <1>6 DEF Fulfils, Kind, NewSetup, NameOf, NewItems
<1>7. CASE Kind(q) = "addNew"
  BY <1>1, <1>3, <1>7 DEF Fulfils, Kind, NewSetup, NameOf, NewItems
<1>8. CASE Kind(q) = "capture"
  <2>1. assigned'[request[q].project] = q
    BY <1>8, CommitLinks
  <2> QED  BY <1>1, <1>3, <1>8, <2>1 DEF Fulfils, Kind, NewSetup, NameOf, NewItems
<1> QED  BY <1>2, <1>4, <1>5, <1>6, <1>7, <1>8

\* Setups stay whole: the number that is committed is the next one.
LEMMA CommitWhole ==
    ASSUME LibraryInv, NEW q \in Requests, Commit(q), NEW s \in Ids
    PROVE  Whole(s)'
<1>1. Whole(s) /\ MaxRevision \in Nat
  BY LibraryAssumption DEF LibraryInv
<1>2. /\ ~Exists(q) /\ setups[q] = Absent /\ RevisionsOf(q) = {} /\ Exists(q)'
      /\ revisions'[q] = NewRevision(q)
      /\ \A r \in Ids \ {q} : revisions'[r] = revisions[r] /\ setups'[r] = setups[r]
      /\ setups'[q] = IF NewSetup(q) THEN NameOf(q) ELSE Absent
      /\ NewSetup(q) => NameOf(q) \in Names \cup Projects
  BY CommitRows
<1>3. RevisionsOf(s)' = RevisionsOf(s) \cup (IF NewRevision(q).setup = s THEN {q} ELSE {})
      /\ q \notin RevisionsOf(s) /\ RevisionsOf(s) \subseteq Ids
  BY <1>2, NamesDiffer DEF RevisionsOf, Exists
<1>4. \A r \in RevisionsOf(s) : revisions'[r] = revisions[r]
  BY <1>2, <1>3
<1>5. CASE NewRevision(q).setup # s
  <2>1. RevisionsOf(s)' = RevisionsOf(s)
    BY <1>3, <1>5
  <2>2. setups'[s] = setups[s]
    <3>1. s = q => ~NewSetup(q)
      BY <1>5, CommitGrows
    <3> QED  BY <3>1, <1>2
  <2> QED  BY <1>1, <1>4, <2>1, <2>2 DEF Whole
<1>6. CASE NewRevision(q).setup = s /\ NewSetup(q)
  <2>1. s = q /\ NewRevision(q).number = 1
    BY <1>6, CommitGrows
  <2>2. RevisionsOf(s)' = {q} /\ revisions'[q].number = 1
    BY <2>1, <1>2, <1>3, <1>6
  <2>3. setups'[s] # Absent
    BY <2>1, <1>2, <1>6, NamesDiffer
  <2> QED  BY <1>1, <2>2, <2>3 DEF Whole
<1>7. CASE NewRevision(q).setup = s /\ ~NewSetup(q)
  <2> DEFINE last == request[q].expected
  <2>1. /\ s # q /\ NewRevision(q).number = last + 1 /\ last \in 1 .. MaxRevision
        /\ base[q] \in RevisionsOf(s) /\ revisions[base[q]].number = last
        /\ \A r \in RevisionsOf(s) : revisions[r].number <= last
    BY <1>7, CommitGrows
  <2> HIDE DEF last
  <2>2. RevisionsOf(s)' = RevisionsOf(s) \cup {q} /\ revisions'[q].number = last + 1
    BY <2>1, <1>2, <1>3, <1>7
  <2>3. \A r \in RevisionsOf(s) : revisions'[r].number \in 1 .. MaxRevision + 1
                                  /\ revisions'[r].number <= last
    BY <1>1, <1>4, <2>1 DEF Whole
  <2>4. (\A r \in RevisionsOf(s) : revisions[r].number \in 1 .. MaxRevision + 1)'
    BY <1>1, <2>1, <2>2, <2>3
  <2>5. (\A r, o \in RevisionsOf(s) : revisions[r].number = revisions[o].number => r = o)'
    <3>1. \A r, o \in RevisionsOf(s) : revisions'[r].number = revisions'[o].number => r = o
      BY <1>1, <1>4 DEF Whole
    <3>2. \A r \in RevisionsOf(s) : revisions'[r].number # revisions'[q].number
      BY <2>1, <2>2, <2>3
    <3> QED  BY <2>2, <3>1, <3>2
  <2>6. (\A r \in RevisionsOf(s) : \A n \in 1 .. revisions[r].number :
             \E o \in RevisionsOf(s) : revisions[o].number = n)'
    <3> SUFFICES ASSUME NEW n \in 1 .. last + 1
                 PROVE  \E o \in RevisionsOf(s)' : revisions'[o].number = n
      BY <2>1, <2>2, <2>3
    <3>1. CASE n = last + 1
      BY <2>2, <3>1
    <3>2. CASE n # last + 1
      <4>1. n \in 1 .. last
        BY <2>1, <3>2
      <4>2. PICK o \in RevisionsOf(s) : revisions[o].number = n
        BY <4>1, <2>1, <1>1 DEF Whole
      <4> QED  BY <4>2, <2>2, <1>4
    <3> QED  BY <3>1, <3>2
  <2>7. (setups[s] # Absent <=> RevisionsOf(s) # {})'
    BY <2>1, <2>2, <1>1, <1>2 DEF Whole
  <2> QED  BY <2>4, <2>5, <2>6, <2>7 DEF Whole
<1> QED  BY <1>5, <1>6, <1>7

\* The transactions under way have read nothing that a commit changes: they wait for it.
LEMMA CommitOthers ==
    ASSUME LibraryInv, NEW q \in Requests, Commit(q), NEW o \in Requests \ {q}
    PROVE  UnderWay(o)'
<1>1. UnderWay(o) /\ Types
  BY DEF LibraryInv
<1>2. /\ request' = request /\ sentAfter' = sentAfter /\ pc[q] = "commit"
      /\ pc'[o] = pc[o] /\ base'[o] = base[o] /\ locks'[o] = locks[o] /\ answer'[o] = answer[o]
      /\ ~Exists(q) /\ setups[q] = Absent /\ revisions'[q] = NewRevision(q)
      /\ \A r \in Ids \ {q} : revisions'[r] = revisions[r] /\ setups'[r] = setups[r]
      /\ NewSetup(q) => NameOf(q) \in Names \cup Projects
      /\ setups'[q] = IF NewSetup(q) THEN NameOf(q) ELSE Absent
      /\ o \in Ids /\ q \in Ids
  BY CommitRows, NamesDiffer
<1>3. locks[q] \cap locks[o] = {} /\ Holding(q)
  BY <1>2, UnderWayAsks DEF LibraryInv, Exclusive
<1>4. \A r \in Ids : Exists(r) => r # q /\ revisions'[r] = revisions[r] /\ Exists(r)'
  BY <1>2 DEF Exists
<1>5. \A s \in Ids : setups[s] # Absent => s # q /\ setups'[s] = setups[s]
  BY <1>2
<1>6. Standing(o)'
  <2>1. pc[o] # "idle" /\ Appends(o) => request[o].setup \in Ids /\ setups[request[o].setup] # Absent
    BY UnderWayAsks
  <2> QED  BY <1>1, <1>2, <1>5, <2>1 DEF UnderWay, Standing, Adds, Appends, Kind
<1>7. Holding(o)'
  BY <1>1, <1>2 DEF UnderWay, Holding, Adds, Appends, Kind
<1>8. Checked(o)'
  <2>1. ASSUME pc[o] \in {"setup", "latest", "name", "insert", "commit"}, Adds(o)
        PROVE  publications'[request[o].snapshot] = Absent
    <3>1. request[o].snapshot \in Snapshots /\ publications[request[o].snapshot] = Absent
          /\ <<"job", request[o].snapshot>> \in locks[o]
      BY <2>1, UnderWayAsks DEF Checked, Published, Holding
    <3>2. Adds(q) => <<"job", request[q].snapshot>> \in locks[q]
      BY <1>2, <1>3 DEF Holding
    <3>3. ~ (Adds(q) /\ request[q].snapshot = request[o].snapshot)
      BY <3>1, <3>2, <1>3
    <3>4. \/ publications'[request[o].snapshot] = publications[request[o].snapshot]
          \/ Adds(q) /\ request[o].snapshot = request[q].snapshot
      BY <3>1, CommitLinks
    <3> QED  BY <3>1, <3>3, <3>4
  <2>2. ASSUME pc[o] = "commit", Appends(o)
        PROVE  /\ base[o] \in RevisionsOf(request[o].setup)'
               /\ revisions'[base[o]].number = request[o].expected
               /\ \A r \in RevisionsOf(request[o].setup)' : revisions'[r].number <= request[o].expected
    <3> DEFINE s == request[o].setup
    <3>1. s \in Ids /\ setups[s] # Absent /\ Checked(o) /\ <<"setup", s>> \in locks[o]
      BY <2>2, UnderWayAsks DEF Holding
    <3>2. NewRevision(q).setup # s
      <4>1. CASE NewSetup(q)
        BY <4>1, <3>1, <1>5, CommitGrows
      <4>2. CASE ~NewSetup(q)
        <5>1. Appends(q) /\ NewRevision(q).setup = request[q].setup
          BY <4>2, CommitGrows
        <5>2. <<"setup", request[q].setup>> \in locks[q]
          BY <5>1, <1>2, <1>3 DEF Holding
        <5> QED  BY <5>1, <5>2, <3>1, <1>3
      <4> QED  BY <4>1, <4>2
    <3>3. /\ RevisionsOf(s) \subseteq Ids \ {q}
          /\ {r \in Ids : revisions'[r] # Absent /\ revisions'[r].setup = s} = RevisionsOf(s)
      BY <1>2, <1>4, <3>2 DEF RevisionsOf, Exists
    <3>4. RevisionsOf(request[o].setup)' = RevisionsOf(s)
      BY <3>3, <1>2 DEF RevisionsOf, Exists
    <3>5. \A r \in RevisionsOf(s) : revisions'[r] = revisions[r]
      BY <3>3, <1>2
    <3> QED  BY <2>2, <3>1, <3>4, <3>5 DEF Checked
  <2>3. ASSUME pc[o] = "commit", Kind(o) = "capture"
        PROVE  \A s \in Ids : setups'[s] # request[o].project
    <3>1. /\ request[o].project \in Projects /\ <<"project", request[o].project>> \in locks[o]
          /\ \A s \in Ids : setups[s] # request[o].project
      BY <2>3, UnderWayAsks DEF Checked, Holding
    <3>2. setups'[q] # request[o].project
      <4>1. Kind(q) = "capture" => <<"project", request[q].project>> \in locks[q]
        BY <1>2, <1>3 DEF Holding
      <4>2. Kind(q) \in {"create", "addNew"} => NameOf(q) \in Names
        BY <1>2, UnderWayAsks DEF NameOf
      <4>3. Kind(q) = "capture" => NameOf(q) # request[o].project
        BY <4>1, <3>1, <1>3 DEF NameOf
      <4> QED  BY <4>2, <4>3, <3>1, <1>2, NamesDiffer DEF NewSetup
    <3> QED  BY <3>1, <3>2, <1>2
  <2> QED  BY <1>2, <2>1, <2>2, <2>3 DEF Checked, Adds, Appends, Kind, Published
<1>9. Fresh(o)'
  BY <1>1, <1>2 DEF UnderWay, Fresh, Exists
<1>10. Answered(o)'
  <2>1. Answered(o)
    BY <1>1 DEF UnderWay
  <2>2. ASSUME answer[o] # Absent, answer[o].outcome = "created"
        PROVE  /\ answer[o].revision \in Ids /\ Exists(answer[o].revision)'
               /\ Fulfils(answer[o].revision, request[o])'
    <3>1. PICK r \in Ids : r = answer[o].revision
      BY <2>1, <2>2 DEF Answered
    <3>2. PICK p \in Payloads : p = request[o]
      BY <1>1, <2>2 DEF UnderWay, Fresh, Standing
    <3>3. Exists(r) /\ Fulfils(r, p)
      BY <2>1, <2>2, <3>1, <3>2 DEF Answered
    <3>4. Exists(r)' /\ Fulfils(r, p)'
      BY <3>3, <1>4, CommitFulfils
    <3>5. answer'[o].revision = r /\ request'[o] = p
      BY <1>2, <3>1, <3>2
    <3>6. Exists(answer[o].revision)'
      BY <3>4, <3>5 DEF Exists
    <3>7. Fulfils(answer[o].revision, request[o])'
      BY <3>4, <3>5 DEF Fulfils
    <3> QED  BY <3>1, <3>6, <3>7
  <2>3. answer[o] # Absent /\ answer[o].outcome = "refused" => setups'[o] = Absent /\ ~Exists(o)'
    BY <2>1, <1>2 DEF Answered, Exists
  <2> QED  BY <1>2, <2>1, <2>2, <2>3 DEF Answered, Adds, Kind
<1>11. (\A r \in sentAfter[o] : Exists(r))'
  BY <1>1, <1>2, <1>4, NamesDiffer DEF UnderWay, Types
<1> QED  BY <1>6, <1>7, <1>8, <1>9, <1>10, <1>11 DEF UnderWay

\* A commit keeps the invariant.
LEMMA CommitKeeps ==
    ASSUME LibraryInv, NEW q \in Requests, Commit(q)
    PROVE  LibraryInv'
<1>1. /\ request' = request /\ sentAfter' = sentAfter /\ pc[q] = "commit" /\ pc'[q] = "done"
      /\ ~Exists(q) /\ revisions'[q] = NewRevision(q) /\ Exists(q)' /\ NewRevision(q) \in RevisionRows
      /\ \A r \in Ids \ {q} : revisions'[r] = revisions[r] /\ setups'[r] = setups[r]
      /\ NewSetup(q) => NameOf(q) \in Names \cup Projects
      /\ \/ answer'[q] = [outcome |-> "created", revision |-> q]
         \/ answer'[q] = [outcome |-> "lost", revision |-> Absent]
      /\ request[q] \in Payloads /\ q \in Ids
  BY CommitRows, NamesDiffer
<1>2. Types /\ UnderWay(q)
  BY DEF LibraryInv
<1>3. locks' \in [Requests -> SUBSET Keys] /\ Exclusive'
  <2>1. locks' = Release(q)
    BY DEF Commit
  <2> QED  BY <2>1, LocksApart
<1>4. Types'
  <2>1. setups' \in [Ids -> Names \cup Projects \cup {SeedName, Absent}]
    BY <1>1, <1>2 DEF Types, Commit
  <2>2. revisions' \in [Ids -> RevisionRows \cup {Absent}]
    BY <1>1, <1>2 DEF Types, Commit
  <2>3. answer' \in [Requests -> Answers \cup {Absent}]
    <3>1. [outcome |-> "created", revision |-> q] \in Answers
          /\ [outcome |-> "lost", revision |-> Absent] \in Answers
      BY <1>1 DEF Answers
    <3> QED  BY <3>1, <1>2 DEF Commit, End, Types
  <2>4. pc' \in [Requests -> Places] /\ base' = base
    BY <1>2 DEF Commit, End, Types, Places
  <2> QED  BY <2>1, <2>2, <2>3, <2>4, <1>1, <1>2, <1>3, CommitLinks DEF Types
<1>5. UnderWay(q)'
  <2>1. Standing(q)'
    <3>1. Appends(q) => request[q].setup \in Ids /\ setups[request[q].setup] # Absent
      BY <1>1, UnderWayAsks
    <3>2. Appends(q) => setups'[request[q].setup] # Absent
      BY <3>1, <1>1, CommitRows
    <3> QED  BY <3>2, <1>1 DEF Standing, Appends, Kind
  <2>2. Holding(q)' /\ Checked(q)' /\ Fresh(q)'
    BY <1>1 DEF Holding, Checked, Fresh
  <2>3. Answered(q)'
    <3>1. Fulfils(q, request[q])'
      BY CommitAnswers
    <3>2. \A o \in sentAfter[q] : ~ (request[q] = request[o] /\ Adds(q))
      BY <1>1, EarlierPublished, UnderWayAsks DEF Checked
    <3>3. CASE answer'[q] = [outcome |-> "created", revision |-> q]
      <4>1. answer'[q].outcome = "created" /\ answer'[q].revision = q
        BY <3>3
      <4>2. Fulfils(answer[q].revision, request[q])' /\ Exists(answer[q].revision)'
        BY <4>1, <3>1, <1>1 DEF Fulfils, Exists
      <4> QED  BY <4>1, <4>2, <3>2, <1>1 DEF Answered, Adds, Kind
    <3>4. CASE answer'[q] = [outcome |-> "lost", revision |-> Absent]
      <4>1. answer'[q].outcome = "lost"
        BY <3>4
      <4> QED  BY <4>1 DEF Answered
    <3> QED  BY <1>1, <3>3, <3>4
  <2>4. (\A o \in sentAfter[q] : Exists(o))'
    <3>1. \A o \in sentAfter[q] : o \in Ids /\ Exists(o)
      BY <1>2, NamesDiffer DEF UnderWay, Types
    <3> QED  BY <3>1, <1>1 DEF Exists
  <2> QED  BY <2>1, <2>2, <2>3, <2>4 DEF UnderWay
<1>6. ASSUME NEW r \in Requests
      PROVE  Made(r)'
  <2>1. CASE r = q
    <3>1. /\ Fulfils(q, request[q])'
          /\ Adds(q) =>
                publications'[request[q].snapshot] = [request |-> request[q], revision |-> q]
      BY CommitAnswers, CommitLinks
    <3>2. revisions'[q].scanned => Kind(q) = "capture"
      <4>1. NewRevision(q).scanned = (Kind(q) = "capture")
        BY DEF NewRevision
      <4> QED  BY <4>1, <1>1
    <3>3. Kind(q) = "capture" => revisions'[q].setup = q
      BY <1>1 DEF NewRevision, NewSetup
    <3> QED  BY <2>1, <3>1, <3>2, <3>3, <1>1 DEF Made, Adds, Kind
  <2>2. CASE r # q
    <3> SUFFICES ASSUME Exists(r)'
                 PROVE  Made(r)'
      BY DEF Made
    <3>1. r \in Ids /\ revisions'[r] = revisions[r] /\ Exists(r)
      BY <1>1, <2>2, NamesDiffer DEF Exists
    <3>2. pc[r] # "idle" /\ Made(r)
      BY <3>1 DEF LibraryInv, UnderWay, Fresh
    <3>3. PICK p \in Payloads : p = request[r]
      BY <3>2, UnderWayAsks
    <3>4. Fulfils(r, p)
      BY <3>1, <3>2, <3>3 DEF Made
    <3>5. Fulfils(r, p)' /\ request'[r] = p
      BY <3>1, <3>3, <3>4, <1>1, CommitFulfils
    <3>6. Fulfils(r, request[r])'
      BY <3>5 DEF Fulfils
    <3>7. ASSUME Adds(r)
          PROVE  publications'[request[r].snapshot] = [request |-> request[r], revision |-> r]
      <4>1. publications[request[r].snapshot] = [request |-> request[r], revision |-> r]
            /\ request[r].snapshot \in Snapshots
        BY <3>1, <3>2, <3>7, UnderWayAsks DEF Made
      <4>2. publications[request[r].snapshot] # Absent
        <5>1. [request |-> request[r], revision |-> r] \in Publications
          BY <3>3 DEF Publications
        <5> QED  BY <4>1, <5>1, AbsentAssumption
      <4> QED  BY <4>1, <4>2, CommitLinks
    <3> QED  BY <3>1, <3>2, <3>6, <3>7, <1>1 DEF Made, Adds, Kind
  <2> QED  BY <2>1, <2>2
<1>7. PublicationsAreReal'
  <2> SUFFICES ASSUME NEW snapshot \in Snapshots, publications'[snapshot] # Absent
               PROVE  \E r \in Requests : /\ r = publications'[snapshot].revision
                                          /\ Exists(r)' /\ Adds(r)'
                                          /\ request'[r] = publications'[snapshot].request
    BY DEF PublicationsAreReal, Exists, Adds, Kind
  <2>1. CASE publications'[snapshot] = publications[snapshot]
    <3>1. PICK r \in Requests : r = publications[snapshot].revision
      BY <2>1, <1>2 DEF Types, Publications
    <3>2. Exists(r) /\ Adds(r) /\ request[r] = publications[snapshot].request
      BY <2>1, <3>1 DEF LibraryInv, PublicationsAreReal
    <3>3. r # q /\ revisions'[r] = revisions[r]
      BY <3>2, <1>1, NamesDiffer
    <3> QED  BY <2>1, <3>1, <3>2, <3>3, <1>1 DEF Exists, Adds, Kind
  <2>2. CASE Adds(q) /\ publications'[snapshot] = [request |-> request[q], revision |-> q]
    <3>1. publications'[snapshot].revision = q /\ publications'[snapshot].request = request[q]
      BY <2>2
    <3> QED  BY <2>2, <3>1, <1>1 DEF Exists, Adds, Kind
  <2> QED  BY <2>1, <2>2, CommitLinks
<1>8. (Exists(Seed) /\ ~revisions[Seed].scanned)'
  BY <1>1, NamesDiffer DEF LibraryInv, Exists
<1> QED  BY <1>3, <1>4, <1>5, <1>6, <1>7, <1>8, CommitOthers, CommitWhole DEF LibraryInv

-------------------------------------------------------------------------------

\* A library with one Setup.
LEMMA LibraryInvInit ==
    Init => LibraryInv
<1> SUFFICES ASSUME Init
             PROVE  LibraryInv
  OBVIOUS
<1> USE DEF Init
<1>1. /\ setups = [s \in Ids |-> IF s = Seed THEN SeedName ELSE Absent]
      /\ \A r \in Ids \ {Seed} : revisions[r] = Absent /\ setups[r] = Absent
      /\ revisions[Seed] = [setup |-> Seed, number |-> 1, items |-> SeedItems, scanned |-> FALSE]
      /\ setups[Seed] = SeedName
      /\ Requests \subseteq Ids \ {Seed} /\ Seed \in Ids
  BY NamesDiffer
<1>2. revisions[Seed] \in RevisionRows
  BY <1>1, LibraryAssumption DEF RevisionRows
<1>3. Exists(Seed) /\ revisions[Seed].scanned = FALSE /\ revisions[Seed].setup = Seed
      /\ revisions[Seed].number = 1
  BY <1>1, <1>2, AbsentAssumption DEF Exists
<1>4. Types
  <2>1. revisions \in [Ids -> RevisionRows \cup {Absent}]
    BY <1>1, <1>2
  <2>2. setups \in [Ids -> Names \cup Projects \cup {SeedName, Absent}]
    OBVIOUS
  <2> QED  BY <2>1, <2>2 DEF Types, Places
<1>5. Exclusive /\ PublicationsAreReal
  BY DEF Exclusive, PublicationsAreReal
<1>6. ASSUME NEW q \in Requests
      PROVE  UnderWay(q) /\ Made(q)
  <2>1. ~Exists(q) /\ setups[q] = Absent
    BY <1>1 DEF Exists
  <2> QED  BY <2>1 DEF UnderWay, Standing, Holding, Checked, Fresh, Answered, Made
<1>7. ASSUME NEW s \in Ids
      PROVE  Whole(s)
  <2>1. RevisionsOf(s) = IF s = Seed THEN {Seed} ELSE {}
    BY <1>1, <1>3 DEF RevisionsOf, Exists
  <2>2. setups[s] # Absent <=> s = Seed
    BY <1>1, NamesDiffer
  <2> QED  BY <1>3, <2>1, <2>2, LibraryAssumption DEF Whole
<1> QED  BY <1>3, <1>4, <1>5, <1>6, <1>7 DEF LibraryInv

\* Every step keeps the invariant.
LEMMA LibraryInvNext ==
    LibraryInv /\ [Next]_vars => LibraryInv'
<1> SUFFICES ASSUME LibraryInv, [Next]_vars
             PROVE  LibraryInv'
  OBVIOUS
<1>1. CASE UNCHANGED vars
  <2>1. /\ setups' = setups /\ revisions' = revisions /\ publications' = publications
        /\ assigned' = assigned /\ request' = request /\ sentAfter' = sentAfter
        /\ pc' = pc /\ base' = base /\ locks' = locks /\ answer' = answer
    BY <1>1 DEF vars, tables
  <2>2. \A q \in Requests : LocalStep(q) /\ (\A o \in Requests \ {q} : UnderWay(o)')
    BY <2>1, OthersStay DEF LocalStep, tables, LibraryInv
  <2>3. Types' /\ Exclusive'
    BY <2>1 DEF LibraryInv, Types, Exclusive
  <2>4. /\ \A r \in Requests : Made(r)'
        /\ \A s \in Ids : Whole(s)'
        /\ PublicationsAreReal' /\ (Exists(Seed) /\ ~revisions[Seed].scanned)'
    BY <2>1, RowsStay DEF tables, LibraryInv
  <2>5. ASSUME NEW q \in Requests
        PROVE  UnderWay(q)'
    <3>1. UnderWay(q)
      BY DEF LibraryInv
    <3> QED  BY <3>1, <2>1 DEF UnderWay, Standing, Holding, Checked, Fresh, Answered, Adds, Appends,
                  Kind, Published, RevisionsOf, Exists, Fulfils
  <2> QED  BY <2>3, <2>4, <2>5 DEF LibraryInv
<1>2. CASE Next
  <2>1. PICK q \in Requests : Proceed(q) \/ Break(q) \/ \E p \in Payloads : Send(q, p)
    BY <1>2 DEF Next
  <2> QED  BY <2>1, LockJobKeeps, FindPriorKeeps, LockSetupKeeps, CheckLatestKeeps, CheckNameKeeps,
              InsertSetupKeeps, LockProjectKeeps, FindDefaultKeeps, CommitKeeps, BreakKeeps,
              SendKeeps DEF Proceed
<1> QED  BY <1>1, <1>2

\* LibraryInv is an invariant: what a transaction has read under its locks stays so until
\* it commits, and the revisions of a Setup are numbered without a gap.
THEOREM LibraryHolds ==
    Spec => []LibraryInv
  BY LibraryInvInit, LibraryInvNext, PTL DEF Spec

\* The rows of the library, the requests and their answers keep their types.
THEOREM LibraryTypeCorrect ==
    Spec => []TypeOK
<1>1. LibraryInv => TypeOK
  <2> SUFFICES ASSUME LibraryInv
               PROVE  TypeOK
    OBVIOUS
  <2>1. Types
    BY DEF LibraryInv
  <2>2. \A snapshot \in Snapshots : publications[snapshot] # Absent =>
            publications[snapshot].request \in Payloads /\ publications[snapshot].revision \in Requests
    BY <2>1 DEF Types, Publications
  <2>3. ASSUME NEW q \in Requests
        PROVE  /\ request[q] # Absent => request[q] \in Payloads
               /\ pc[q] # "idle" => request[q] # Absent
    BY <2>1, UnderWayAsks, AbsentAssumption DEF Types
  <2> QED  BY <2>1, <2>2, <2>3 DEF Types, TypeOK
<1> QED  BY <1>1, LibraryHolds, PTL

\* Who is told that a revision was made finds it, and it is what was asked for; who is
\* refused has changed nothing; who repeats an addition is told of the revision made then.
THEOREM LibraryTellsTheTruth ==
    Spec => []AnswersAreTrue
<1>1. LibraryInv => AnswersAreTrue
  BY DEF LibraryInv, UnderWay, Answered, AnswersAreTrue, Adds
<1> QED  BY <1>1, LibraryHolds, PTL

-------------------------------------------------------------------------------

\* ChainOf, for any rows.
ChainIn(rows, R) ==
    [n \in {rows[r].number : r \in R} |-> rows[CHOOSE r \in R : rows[r].number = n].items]

NumberedOnce(rows, R) == \A r, o \in R : rows[r].number = rows[o].number => r = o

\* ChainOf is ChainIn of the rows, before and after a step.
LEMMA ChainOfIsChainIn ==
    /\ \A s \in Ids : ChainOf(s) = ChainIn(revisions, RevisionsOf(s))
    /\ (\A s \in Ids : ChainOf(s) = ChainIn(revisions, RevisionsOf(s)))'
<1>1. \A s \in Ids : ChainOf(s) = ChainIn(revisions, RevisionsOf(s))
  BY DEF ChainOf, ChainIn
<1>2. (\A s \in Ids : ChainOf(s) = ChainIn(revisions, RevisionsOf(s)))'
  BY DEF ChainOf, ChainIn
<1> QED  BY <1>1, <1>2

\* A row is at its number.
LEMMA RowInChain ==
    ASSUME NEW rows, NEW R, NumberedOnce(rows, R), NEW r \in R
    PROVE  /\ rows[r].number \in DOMAIN ChainIn(rows, R)
           /\ ChainIn(rows, R)[rows[r].number] = rows[r].items
<1>1. (CHOOSE o \in R : rows[o].number = rows[r].number) = r
  BY DEF NumberedOnce
<1> QED  BY <1>1 DEF ChainIn

\* What has the same numbers and the same items is the same chain.
LEMMA SameRowsSameChain ==
    ASSUME NEW rows, NEW other, NEW R, NumberedOnce(rows, R), \A r \in R : other[r] = rows[r]
    PROVE  ChainIn(other, R) = ChainIn(rows, R)
<1>1. DOMAIN ChainIn(other, R) = DOMAIN ChainIn(rows, R)
  BY DEF ChainIn
<1>2. NumberedOnce(other, R)
  BY DEF NumberedOnce
<1>3. ASSUME NEW n \in DOMAIN ChainIn(rows, R)
      PROVE  ChainIn(other, R)[n] = ChainIn(rows, R)[n]
  <2>1. PICK r \in R : n = rows[r].number
    BY DEF ChainIn
  <2>2. ChainIn(rows, R)[n] = rows[r].items
    BY <2>1, RowInChain
  <2>3. ChainIn(other, R)[other[r].number] = other[r].items
    BY <1>2, RowInChain
  <2> QED  BY <2>1, <2>2, <2>3
<1>4. /\ ChainIn(rows, R) = [n \in DOMAIN ChainIn(rows, R) |-> ChainIn(rows, R)[n]]
      /\ ChainIn(other, R) = [n \in DOMAIN ChainIn(other, R) |-> ChainIn(other, R)[n]]
  BY DEF ChainIn
<1> QED  BY <1>1, <1>3, <1>4

\* A sequence that has one element more is the other one with this element appended.
LEMMA LongerByOne ==
    ASSUME NEW n \in Nat, NEW S, NEW f \in [1 .. n -> S], NEW g \in [1 .. n + 1 -> S],
           \A i \in 1 .. n : g[i] = f[i]
    PROVE  g = Append(f, g[n + 1])
<1>1. f \in Seq(S) /\ g \in Seq(S) /\ Len(f) = n /\ Len(g) = n + 1
  BY SMT
<1>2. g[n + 1] \in S
  BY SMT
<1>3. /\ Append(f, g[n + 1]) \in Seq(S) /\ Len(Append(f, g[n + 1])) = n + 1
      /\ \A i \in 1 .. n : Append(f, g[n + 1])[i] = f[i]
      /\ Append(f, g[n + 1])[n + 1] = g[n + 1]
  BY <1>1, <1>2, AppendProperties
<1>4. \A i \in 1 .. n + 1 : Append(f, g[n + 1])[i] = g[i]
  <2> TAKE i \in 1 .. n + 1
  <2>1. i \in 1 .. n \/ i = n + 1
    OBVIOUS
  <2> QED  BY <2>1, <1>3
<1> QED  BY <1>1, <1>3, <1>4, SeqEqual

\* The rows other are rows and one more, q, which has the next number.
OneMore(rows, other, R, q, n) ==
    /\ q \notin R /\ n \in Nat
    /\ NumberedOnce(rows, R) /\ {rows[r].number : r \in R} = 1 .. n
    /\ \A r \in R : other[r] = rows[r] /\ rows[r].items \in SUBSET Items
    /\ other[q].number = n + 1 /\ other[q].items \in SUBSET Items

\* One more row, with the next number, is one more element at the end.
LEMMA GrownChain ==
    ASSUME NEW rows, NEW other, NEW R, NEW q, NEW n, OneMore(rows, other, R, q, n)
    PROVE  ChainIn(other, R \cup {q}) \in Chains!Longer(ChainIn(rows, R))
<1> DEFINE S == SUBSET Items
           f == ChainIn(rows, R)
           g == ChainIn(other, R \cup {q})
<1> USE DEF OneMore
<1>1. NumberedOnce(other, R \cup {q})
  <2>1. \A r \in R : other[r].number \in 1 .. n
    OBVIOUS
  <2>2. \A r \in R : other[r].number # other[q].number
    BY <2>1
  <2>3. \A r, o \in R : other[r].number = other[o].number => r = o
    BY DEF NumberedOnce
  <2> QED  BY <2>2, <2>3 DEF NumberedOnce
<1>2. \A r \in R : f[rows[r].number] = rows[r].items /\ g[rows[r].number] = rows[r].items
  <2> TAKE r \in R
  <2>1. f[rows[r].number] = rows[r].items
    BY RowInChain
  <2>2. g[other[r].number] = other[r].items
    BY <1>1, RowInChain
  <2> QED  BY <2>1, <2>2
<1>3. g[n + 1] = other[q].items
  BY <1>1, RowInChain
<1>4. \A i \in 1 .. n : \E r \in R : rows[r].number = i
  OBVIOUS
<1>5. DOMAIN f = 1 .. n /\ DOMAIN g = 1 .. n + 1
  <2>1. DOMAIN f = 1 .. n
    BY DEF ChainIn
  <2>2. {other[r].number : r \in R \cup {q}} = {rows[r].number : r \in R} \cup {n + 1}
    OBVIOUS
  <2>3. {other[r].number : r \in R \cup {q}} = 1 .. n + 1
    BY <2>2
  <2> QED  BY <2>1, <2>3 DEF ChainIn
<1>6. f = [i \in DOMAIN f |-> f[i]] /\ g = [i \in DOMAIN g |-> g[i]]
  BY DEF ChainIn
<1> HIDE DEF f, g, S
<1>7. \A i \in 1 .. n : g[i] = f[i] /\ f[i] \in S
  BY <1>2, <1>4 DEF S
<1>8. \A i \in 1 .. n + 1 : i \in 1 .. n \/ i = n + 1
  OBVIOUS
<1>9. f \in [1 .. n -> S]
  BY <1>5, <1>6, <1>7
<1>10. g \in [1 .. n + 1 -> S]
  <2>1. g[n + 1] \in S
    BY <1>3 DEF S
  <2> QED  BY <2>1, <1>5, <1>6, <1>7, <1>8
<1>11. g = Append(f, g[n + 1])
  BY <1>7, <1>9, <1>10, LongerByOne
<1>12. g[n + 1] \in SUBSET Items
  BY <1>3
<1> QED  BY <1>11, <1>12 DEF f, g, Chains!Longer

\* A commit makes one chain longer, and no other step touches one.
LEMMA CommitGrowsChain ==
    ASSUME LibraryInv, NEW q \in Requests, Commit(q)
    PROVE  \E s \in Ids : Chains!Grow(s)
<1>1. /\ revisions'[q] = NewRevision(q) /\ Exists(q)' /\ ~Exists(q)
      /\ \A r \in Ids \ {q} : revisions'[r] = revisions[r]
      /\ NewRevision(q) \in RevisionRows /\ q \in Ids /\ RevisionsOf(q) = {}
  <2>1. q \in Ids
    BY NamesDiffer
  <2> QED  BY <2>1, CommitRows
<1>2. PICK s \in Ids : s = NewRevision(q).setup
  BY <1>1 DEF RevisionRows
<1>3. \A t \in Ids : /\ RevisionsOf(t)' = RevisionsOf(t) \cup (IF s = t THEN {q} ELSE {})
                     /\ q \notin RevisionsOf(t) /\ RevisionsOf(t) \subseteq Ids
                     /\ \A r \in RevisionsOf(t) : revisions'[r] = revisions[r]
  BY <1>1, <1>2 DEF RevisionsOf, Exists
<1>4. \A t \in Ids : Whole(t) /\ NumberedOnce(revisions, RevisionsOf(t))
  BY DEF LibraryInv, Whole, NumberedOnce
<1>5. \A t \in Ids \ {s} : ChainOf(t)' = ChainOf(t)
  <2> TAKE t \in Ids \ {s}
  <2>1. RevisionsOf(t)' = RevisionsOf(t)
    BY <1>3
  <2>2. ChainIn(revisions', RevisionsOf(t)) = ChainIn(revisions, RevisionsOf(t))
    BY <1>3, <1>4, SameRowsSameChain
  <2> QED  BY <2>1, <2>2, ChainOfIsChainIn
<1>6. PICK n \in Nat : /\ {revisions[r].number : r \in RevisionsOf(s)} = 1 .. n
                       /\ NewRevision(q).number = n + 1
  <2>1. CASE NewSetup(q)
    <3>1. s = q /\ NewRevision(q).number = 1 /\ RevisionsOf(s) = {}
      BY <2>1, <1>1, <1>2, CommitGrows
    <3>2. {revisions[r].number : r \in RevisionsOf(s)} = 1 .. 0
      BY <3>1
    <3> QED  BY <3>1, <3>2
  <2>2. CASE ~NewSetup(q)
    <3>1. PICK last \in 1 .. MaxRevision : last = request[q].expected
      BY <2>2, CommitGrows
    <3>2. /\ NewRevision(q).number = last + 1 /\ last \in Nat
          /\ base[q] \in RevisionsOf(s) /\ revisions[base[q]].number = last
          /\ \A r \in RevisionsOf(s) : revisions[r].number <= last
      BY <2>2, <3>1, <1>2, CommitGrows, LibraryAssumption
    <3>3. \A r \in RevisionsOf(s) : revisions[r].number \in 1 .. last
      BY <3>2, <1>4, LibraryAssumption DEF Whole
    <3>4. \A i \in 1 .. last : \E o \in RevisionsOf(s) : revisions[o].number = i
      BY <3>2, <1>4 DEF Whole
    <3> QED  BY <3>2, <3>3, <3>4
  <2> QED  BY <2>1, <2>2
<1>7. ChainOf(s)' \in Chains!Longer(ChainOf(s))
  <2>1. \A r \in RevisionsOf(s) : revisions[r].items \in SUBSET Items
    BY <1>3, RowFields DEF LibraryInv, RevisionsOf
  <2>2. NewRevision(q).items \in SUBSET Items
    BY <1>1 DEF RevisionRows
  <2>3. OneMore(revisions, revisions', RevisionsOf(s), q, n)
    BY <2>1, <2>2, <1>1, <1>3, <1>4, <1>6 DEF OneMore
  <2>4. ChainIn(revisions', RevisionsOf(s) \cup {q})
            \in Chains!Longer(ChainIn(revisions, RevisionsOf(s)))
    BY <2>3, GrownChain
  <2> QED  BY <2>4, <1>3, ChainOfIsChainIn
<1> QED  BY <1>2, <1>5, <1>7 DEF Chains!Grow

\* Without a new row, no chain changes.
LEMMA OtherStepsKeepChains ==
    ASSUME LibraryInv, UNCHANGED revisions
    PROVE  UNCHANGED [s \in Ids |-> ChainOf(s)]
<1>1. \A s \in Ids : RevisionsOf(s)' = RevisionsOf(s)
  BY DEF RevisionsOf, Exists
<1>2. \A s \in Ids : ChainOf(s)' = ChainOf(s)
  BY <1>1, ChainOfIsChainIn
<1> QED  BY <1>2

\* Whoever publishes at the same time, every Setup is a chain that only grows at its end.
THEOREM LibraryImplementsChains ==
    Spec => ImplementsChains
<1>1. Init => Chains!ChainsInit
  <2> SUFFICES ASSUME Init
               PROVE  [s \in Ids |-> ChainOf(s)] =
                          [s \in Ids |-> IF s = Seed THEN <<SeedItems>> ELSE <<>>]
    BY DEF Chains!ChainsInit
  <2>1. LibraryInv
    BY LibraryInvInit
  <2>2. /\ \A r \in Ids \ {Seed} : ~Exists(r)
        /\ revisions[Seed] = [setup |-> Seed, number |-> 1, items |-> SeedItems, scanned |-> FALSE]
        /\ Exists(Seed) /\ Seed \in Ids
    BY <2>1, NamesDiffer DEF Init, Exists, LibraryInv
  <2>3. ASSUME NEW s \in Ids
        PROVE  ChainOf(s) = IF s = Seed THEN <<SeedItems>> ELSE <<>>
    <3>1. CASE s = Seed
      <4>1. RevisionsOf(s) = {Seed}
        BY <2>2, <3>1 DEF RevisionsOf
      <4>2. NumberedOnce(revisions, {Seed})
        BY DEF NumberedOnce
      <4>3. ChainIn(revisions, {Seed})[1] = SeedItems
        BY <2>2, <4>2, RowInChain
      <4>4. DOMAIN ChainIn(revisions, {Seed}) = {1}
        BY <2>2 DEF ChainIn
      <4>5. ChainIn(revisions, {Seed}) =
                [n \in DOMAIN ChainIn(revisions, {Seed}) |-> ChainIn(revisions, {Seed})[n]]
        BY DEF ChainIn
      <4>6. ChainIn(revisions, {Seed}) = <<SeedItems>>
        BY <4>3, <4>4, <4>5
      <4> QED  BY <3>1, <4>1, <4>6, ChainOfIsChainIn
    <3>2. CASE s # Seed
      <4>1. RevisionsOf(s) = {}
        BY <2>2, <3>2 DEF RevisionsOf
      <4>2. ChainIn(revisions, {}) = <<>>
        BY DEF ChainIn
      <4> QED  BY <3>2, <4>1, <4>2, ChainOfIsChainIn
    <3> QED  BY <3>1, <3>2
  <2> QED  BY <2>3
<1>2. LibraryInv /\ [Next]_vars => [Chains!ChainsNext]_([s \in Ids |-> ChainOf(s)])
  <2> SUFFICES ASSUME LibraryInv, [Next]_vars
               PROVE  (\E s \in Ids : Chains!Grow(s)) \/ UNCHANGED [s \in Ids |-> ChainOf(s)]
    BY DEF Chains!ChainsNext
  <2>1. UNCHANGED revisions \/ \E q \in Requests : Commit(q)
    <3>1. CASE UNCHANGED vars
      BY <3>1 DEF vars, tables
    <3>2. CASE Next
      BY <3>2 DEF Next, Proceed, Send, LockJob, FindPrior, LockSetup, CheckLatest, CheckName,
                  InsertSetup, LockProject, FindDefault, Break, tables
    <3> QED  BY <3>1, <3>2
  <2> QED  BY <2>1, CommitGrowsChain, OtherStepsKeepChains
<1> QED  BY <1>1, <1>2, LibraryHolds, PTL DEF Spec, ImplementsChains, Chains!ChainsSpec

-------------------------------------------------------------------------------
\* A transaction under way, and the row or key that its next statement waits for.
InTransaction(q) == pc[q] \notin {"idle", "done"}

Awaited(q) ==
    CASE pc[q] = "start" /\ Adds(q) -> {<<"job", request[q].snapshot>>}
      [] pc[q] = "start" /\ Kind(q) = "publish" -> {<<"setup", request[q].setup>>}
      [] pc[q] = "start" /\ Kind(q) = "capture" -> {<<"project", request[q].project>>}
      [] pc[q] = "setup" -> {<<"setup", request[q].setup>>}
      [] pc[q] = "insert" -> {<<"name", request[q].name>>}
      [] OTHER -> {}

\* Locks are taken in one order: the row of a job or of a project first, then that of a
\* Setup or a name, after which a transaction waits for nothing more.
InOrder(q) ==
    /\ pc[q] \in {"idle", "start", "done"} => locks[q] = {}
    /\ \A key \in locks[q] : /\ key[1] = "setup" => pc[q] \in {"latest", "commit"}
                             /\ key[1] = "name" => pc[q] = "commit"

LEMMA InOrderKept ==
    ASSUME LibraryInv, NEW q \in Requests, InOrder(q), [Next]_vars
    PROVE  InOrder(q)'
<1>1. Types /\ Standing(q)
  BY DEF LibraryInv, UnderWay
<1>2. ASSUME pc'[q] = pc[q], locks'[q] = locks[q]
      PROVE  InOrder(q)'
  BY <1>2 DEF InOrder
<1>3. ASSUME pc'[q] = "done", locks'[q] = {}
      PROVE  InOrder(q)'
  BY <1>3 DEF InOrder
<1>4. ASSUME NEW o \in Requests, Proceed(o) \/ Break(o) \/ \E p \in Payloads : Send(o, p), o # q
      PROVE  pc'[q] = pc[q] /\ locks'[q] = locks[q]
  BY <1>1, <1>4 DEF Types, Proceed, Break, Send, LockJob, FindPrior, LockSetup, CheckLatest, CheckName,
                    InsertSetup, LockProject, FindDefault, Commit, Refuse, LocksAfterRefusal, Release,
                    Acquire, GoTo, End
<1>5. ASSUME \E outcome, r : End(q, outcome, r), locks' = Release(q)
      PROVE  InOrder(q)'
  BY <1>1, <1>3, <1>5 DEF Types, End, Release
<1>6. ASSUME Refuse(q)
      PROVE  InOrder(q)'
  BY <1>5, <1>6 DEF Refuse, LocksAfterRefusal
<1>7. ASSUME NEW kind, NEW value, Acquire(q, <<kind, value>>), NEW place, GoTo(q, place),
             pc[q] \in {"start", "setup", "insert"},
             \/ kind \in {"job", "project"} /\ place \in {"prior", "default"}
             \/ kind = "setup" /\ place = "latest"
             \/ kind = "name" /\ place = "commit"
      PROVE  InOrder(q)'
  <2>1. locks'[q] = locks[q] \cup {<<kind, value>>} /\ pc'[q] = place
    BY <1>1, <1>7 DEF Types, Acquire, GoTo
  <2>2. \A key \in locks[q] : key[1] # "setup" /\ key[1] # "name"
    BY <1>7 DEF InOrder
  <2> QED  BY <1>7, <2>1, <2>2 DEF InOrder
<1>8. ASSUME NEW place, GoTo(q, place), locks' = locks,
             \/ pc[q] \in {"prior", "start", "name", "default"} /\ place # "idle" /\ place # "done"
                /\ place # "start"
             \/ pc[q] = "latest" /\ place = "commit"
      PROVE  InOrder(q)'
  <2>1. locks'[q] = locks[q] /\ pc'[q] = place
    BY <1>1, <1>8 DEF Types, GoTo
  <2> QED  BY <1>8, <2>1 DEF InOrder
<1>9. CASE LockJob(q) \/ LockProject(q)
  BY <1>7, <1>9 DEF LockJob, LockProject
<1>10. CASE FindPrior(q)
  BY <1>5, <1>6, <1>8, <1>10 DEF FindPrior
<1>11. CASE LockSetup(q)
  BY <1>7, <1>11 DEF LockSetup
<1>12. CASE CheckLatest(q)
  BY <1>6, <1>8, <1>12 DEF CheckLatest
<1>13. CASE CheckName(q)
  BY <1>6, <1>8, <1>13 DEF CheckName
<1>14. CASE InsertSetup(q)
  BY <1>6, <1>7, <1>14 DEF InsertSetup
<1>15. CASE FindDefault(q)
  <2> DEFINE r == LatestOf(CHOOSE s \in {s \in Ids : setups[s] = request[q].project} : TRUE)
  <2>1. \/ GoTo(q, "commit") /\ locks' = locks
        \/ End(q, "created", r) /\ locks' = Release(q)
        \/ Refuse(q)
    BY <1>15 DEF FindDefault
  <2>2. pc[q] = "default"
    BY <1>15 DEF FindDefault
  <2> QED  BY <1>5, <1>6, <1>8, <2>1, <2>2
<1>16. CASE Commit(q)
  BY <1>5, <1>16 DEF Commit
<1>17. CASE Break(q)
  BY <1>5, <1>17 DEF Break
<1>18. ASSUME NEW p \in Payloads, Send(q, p)
       PROVE  InOrder(q)'
  <2>1. pc[q] = "idle" /\ pc'[q] = "start" /\ locks' = locks
    BY <1>1, <1>18 DEF Types, Send
  <2> QED  BY <2>1 DEF InOrder
<1>19. CASE UNCHANGED vars
  BY <1>2, <1>19 DEF vars
<1>20. CASE Next
  <2>1. PICK o \in Requests : Proceed(o) \/ Break(o) \/ \E p \in Payloads : Send(o, p)
    BY <1>20 DEF Next
  <2>2. CASE o # q
    BY <1>2, <1>4, <2>1, <2>2
  <2>3. CASE o = q
    BY <1>9, <1>10, <1>11, <1>12, <1>13, <1>14, <1>15, <1>16, <1>17, <1>18, <2>1, <2>3 DEF Proceed
  <2> QED  BY <2>2, <2>3
<1> QED  BY <1>19, <1>20

\* As long as a transaction is under way, one of them waits for nobody: LockJob, LockSetup,
\* InsertSetup and LockProject, the statements that wait for a lock, cannot all wait for one
\* another, however many people publish what.
THEOREM NobodyWaitsForEver ==
    Spec => []((\E q \in Requests : InTransaction(q)) =>
                  \E q \in Requests : InTransaction(q) /\ \A key \in Awaited(q) : Free(q, key))
<1> DEFINE Ordered == \A q \in Requests : InOrder(q)
           Goes(q) == InTransaction(q) /\ \A key \in Awaited(q) : Free(q, key)
           Progress == (\E q \in Requests : InTransaction(q)) => \E q \in Requests : Goes(q)
<1>1. Init => Ordered
  BY DEF Init, InOrder
<1>2. LibraryInv /\ Ordered /\ [Next]_vars => Ordered'
  BY InOrderKept
<1>3. LibraryInv /\ Ordered => Progress
  <2> SUFFICES ASSUME LibraryInv, Ordered, NEW q \in Requests, InTransaction(q)
               PROVE  \E o \in Requests : Goes(o)
    OBVIOUS
  <2>1. pc \in [Requests -> Places] /\ \A o \in Requests : Standing(o)
    BY DEF LibraryInv, Types, UnderWay
  <2>2. CASE \E o \in Requests : InTransaction(o) /\ Awaited(o) = {}
    BY <2>2
  <2>3. CASE \A o \in Requests : InTransaction(o) => Awaited(o) # {}
    <3>1. \A o \in Requests : InTransaction(o) => pc[o] \in {"start", "setup", "insert"}
      BY <2>1, <2>3 DEF Awaited
    <3>2. \A o \in Requests : pc[o] \notin {"latest", "commit"}
      BY <3>1 DEF InTransaction
    <3>3. \A o \in Requests : \A key \in locks[o] : key[1] # "setup" /\ key[1] # "name"
      BY <3>2 DEF InOrder
    <3>4. CASE \E o \in Requests : pc[o] \in {"setup", "insert"}
      <4>1. PICK o \in Requests : pc[o] \in {"setup", "insert"}
        BY <3>4
      <4>2. Awaited(o) = {<<"setup", request[o].setup>>} \/ Awaited(o) = {<<"name", request[o].name>>}
        BY <4>1 DEF Awaited
      <4>3. \A key \in Awaited(o) : Free(o, key)
        BY <3>3, <4>2 DEF Free
      <4> QED  BY <4>1, <4>3 DEF InTransaction
    <3>5. CASE \A o \in Requests : pc[o] \notin {"setup", "insert"}
      <4>1. \A o \in Requests : pc[o] \in {"idle", "start", "done"}
        BY <3>1, <3>5 DEF InTransaction
      <4>2. \A o \in Requests : locks[o] = {}
        BY <4>1 DEF InOrder
      <4> QED  BY <4>2 DEF Free
    <3> QED  BY <3>4, <3>5
  <2> QED  BY <2>2, <2>3
<1> QED  BY <1>1, <1>2, <1>3, LibraryHolds, PTL DEF Spec
===============================================================================
