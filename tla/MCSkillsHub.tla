---------------------------- MODULE MCSkillsHub ----------------------------
(* Two tools that read one directory at home; t2, a tool that the user added *)
(* without one, has no directory in projects.                                *)
EXTENDS SkillsHub, TLC

CONSTANTS w1, w2, s1, x, y, t1, t2, p1, common

MCHomeDir == [t \in Tools |-> common]
MCProjectDir == [t \in Tools |-> t]

Alike == Permutations(Tabs)
=============================================================================
