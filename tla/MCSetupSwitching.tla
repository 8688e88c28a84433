-------------------------- MODULE MCSetupSwitching ---------------------------
(* Two checkouts of one project, two revisions, a few jobs.                  *)
EXTENDS SetupSwitching

CONSTANTS i1, i2, r1, r2

Failing(i) == outbox[i] # Nothing /\ outbox[i].result.kind \in {"error", "cancellation"}
Setbacks ==
    {n \in DOMAIN jobs : jobs[n].state \in {"failed", "cancelled", "expired"}}
    \cup {outbox[i].job : i \in {k \in Checkouts : Failing(k)}}

\* Bound: at most two times does a job end without effect or lose a result in a crash,
\* the latter once, and no history is longer than three operations.  Nobody edits the
\* second checkout, and once something is asked of it, which happens after the first one
\* was asked, none of this happens, nothing is cancelled, and the first one is not
\* edited either.
SecondIsPlain ==
    /\ Cardinality(Setbacks) + Cardinality(lost) <= 2
    /\ Cardinality(lost) <= 1
    /\ \A i \in Checkouts : Len(history[i]) <= 3
    /\ checkout[i2].content.shape = "intact"
    /\ (\E n \in DOMAIN jobs : jobs[n].checkout = i2) =>
            /\ jobs[1].checkout = i1 /\ Setbacks \cup lost = {}
            /\ \A n \in DOMAIN jobs : jobs[n].state # "stopping"
            /\ checkout[i1].content.shape = "intact"

\* Only the execution of a job reads the shape of a checkout: an edit can as well wait
\* until one is about to be executed.
EditsWait ==
    \A i \in Checkouts : checkout'[i] # checkout[i] /\ outbox' = outbox =>
        outbox[i] = Nothing /\ \E n \in JobsOf(i) : jobs[n].state \in Held

\* Whether a result is saved or lost is decided at once: no other step reads or changes
\* what decides it, and what FinishJob saves is what the properties see either way.
SavedAtOnce ==
    \A i \in Checkouts :
        outbox[i] # Nothing /\ ~outbox[i].saved => outbox'[i] # outbox[i]
=============================================================================
