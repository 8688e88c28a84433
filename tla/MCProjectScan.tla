--------------------------- MODULE MCProjectScan ---------------------------
(* Two projects, one of them there from the start.                          *)
EXTENDS ProjectScan

CONSTANTS site, app, pdf, s1
==============================================================================
