--------------------------- MODULE MCProjectCommands ---------------------------
(* Two processes, of which one configures and both upgrade; the two        *)
(* manifests and two generated files, the second an editor file.           *)
EXTENDS ProjectCommands

CONSTANTS p1, p2

MCEditorPath == {LastPath}
================================================================================
