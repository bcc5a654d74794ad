------------------------------- MODULE MCBuild -------------------------------
(* Builds of one and of two boards; a stage may be off, two are forgiven.   *)
EXTENDS Build

MCOptions == {{}, {Setup}}
MCForgiving == {Completion, <<"UploadTestArtifacts", 1>>}
MCBounds == {[boards |-> 1, runs |-> 3, kills |-> 2], [boards |-> 2, runs |-> 1, kills |-> 1]}
=============================================================================
