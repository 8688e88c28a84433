---------------------------- MODULE AtomicSetups -----------------------------
(* What applying, assigning and rolling back Setups promises for one         *)
(* checkout: each takes effect as a whole, in the checkout and in what is    *)
(* recorded of it, or not at all; and a rollback undoes the last apply.      *)
(* Only what the person changes while an operation is under way may show in  *)
(* part, or be taken back with it.                                           *)
EXTENDS Sequences, Naturals

CONSTANTS Paths, Skills, Revisions, Desired, NoSkill, Foreign, NoRevision

VARIABLES
    content,   \* content[p]: what is at target p, once what is under way is taken back
    records,   \* records[p]: the skill that is recorded at p
    assigned,  \* the revision that the project should have
    applied,   \* the one that it has
    history,   \* the applies, each with what it found
    undone,    \* those that were rolled back
    edits,     \* how often the person changed something
    disturbed  \* the last time was while an operation was under way

promised == <<content, records, assigned, applied, history, undone, edits, disturbed>>

Whole == [Paths -> Skills \cup {NoSkill, Foreign}]

\* No target that has to be written holds content that is not ours.
Fits(want) ==
    \A p \in Paths : IF records[p] # NoSkill THEN content[p] \in {NoSkill, records[p]}
                     ELSE want[p] # NoSkill => content[p] \in {NoSkill, want[p]}

\* What is wanted is there; what was recorded and is not wanted is gone.
Result(want) ==
    [p \in Paths |-> IF want[p] # NoSkill THEN want[p]
                     ELSE IF records[p] # NoSkill THEN NoSkill ELSE content[p]]

PersonsStays == \A p \in Paths : content[p] = Foreign => content'[p] = Foreign

\* All of it, unless the person was there in between.
Change(want) ==
    /\ content' \in Whole /\ PersonsStays
    /\ ~disturbed => Fits(want) /\ content' = Result(want)
    /\ disturbed' = FALSE

Apply(r) ==
    /\ Change(Desired[r])
    /\ records' = Desired[r]
    /\ assigned' = r
    /\ applied' = r
    /\ \E found \in Whole, when \in 0 .. edits :
          /\ ~disturbed => found = content /\ when = edits
          /\ history' = Append(history, [content |-> found, records |-> records,
                                         revision |-> applied, edits |-> when])
    /\ UNCHANGED <<undone, edits>>

\* The last apply that was not rolled back.
Standing == DOMAIN history \ undone
IsLast(i) == i \in Standing /\ \A k \in Standing : k <= i

\* What an apply found comes back, records and revision with it; what it found of the
\* wanted content and adopted is there again or is left alone.
Back(found, want) ==
    \A p \in Paths : IF found.records[p] # NoSkill THEN want[p] = found.records[p]
                     ELSE want[p] \in {NoSkill, found.content[p]}

Rollback(i) ==
    /\ IsLast(i)
    /\ \E want \in [Paths -> Skills \cup {NoSkill}] : Back(history[i], want) /\ Change(want)
    /\ edits = history[i].edits =>
          content' = [p \in Paths |-> IF history[i].records[p] # NoSkill THEN history[i].records[p]
                                      ELSE history[i].content[p]]
    /\ records' = history[i].records
    /\ assigned' = history[i].revision
    /\ applied' = history[i].revision
    /\ undone' = undone \cup {i}
    /\ UNCHANGED <<history, edits>>

Assign(r) == assigned' = r /\ UNCHANGED <<content, records, applied, history, undone, edits, disturbed>>

\* What was under way is taken back, and what the person did meanwhile shows.
TakeBack ==
    /\ disturbed /\ disturbed' = FALSE
    /\ content' \in Whole /\ PersonsStays
    /\ UNCHANGED <<records, assigned, applied, history, undone, edits>>

\* The person changes a target, in view or where an operation is under way.
Person ==
    /\ edits' = edits + 1
    /\ \/ /\ \E p \in Paths, c \in Skills \cup {NoSkill, Foreign} : content' = [content EXCEPT ![p] = c]
          /\ disturbed' \in BOOLEAN /\ (disturbed => disturbed')
       \/ content' = content /\ disturbed' = TRUE
    /\ UNCHANGED <<records, assigned, applied, history, undone>>

AtomicInit ==
    /\ content \in Whole
    /\ records = [p \in Paths |-> NoSkill]
    /\ assigned = NoRevision
    /\ applied = NoRevision
    /\ history = <<>>
    /\ undone = {}
    /\ edits = 0
    /\ disturbed = FALSE

AtomicNext ==
    \/ \E r \in Revisions : Apply(r) \/ Assign(r)
    \/ \E i \in DOMAIN history : Rollback(i)
    \/ TakeBack \/ Person

AtomicSpec == AtomicInit /\ [][AtomicNext]_promised
==============================================================================
