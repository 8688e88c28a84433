---------------------------- MODULE MCSkillUpdate ----------------------------
(* One skill with a copy at home and a copy in a project, and one with a     *)
(* link.                                                                     *)
EXTENDS SkillUpdate

CONSTANTS s1, s2, home, project, link, p1, v1, v2

MCOf == [t \in {home, project, link} |-> IF t = link THEN s2 ELSE s1]
MCIn == [t \in {home, project, link} |-> IF t = project THEN p1 ELSE None]

\* Bound: where a request and the schedule meet, there is one fault or one change
\* of the person's, not both.
OneSurprise == auto.enabled /\ requests > 0 => changes + faults <= 1
=============================================================================
