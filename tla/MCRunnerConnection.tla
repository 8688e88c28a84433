-------------------------- MODULE MCRunnerConnection --------------------------
(* Two computers and two codes; the tab may remember a computer of another  *)
(* organization.                                                             *)
EXTENDS RunnerConnection

CONSTANTS old, new, e1, e2, p1, p2
==============================================================================
