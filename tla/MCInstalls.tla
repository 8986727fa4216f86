----------------------------- MODULE MCInstalls -----------------------------
(* Installs with its processes as model values.                              *)
EXTENDS Installs
CONSTANTS f1, u1, c1
MCFetchers == {f1}
MCUpdaters == {u1}
MCCommands == {c1}
MCFlavors  == {"minimal", "latest"}
MCNobody   == {}
=============================================================================
