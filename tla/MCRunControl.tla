---------------------------- MODULE MCRunControl ----------------------------
(* Instances of RunControl for TLC. *)
EXTENDS RunControl, TLC

CONSTANTS b1, b2, s1, s2, s3, trigger, runcontrol

Everybody == Processes
RunCommands == {"CREATE", "INITIALISE", "CONFIGURE", "START", "STOP"}
CycleCommands == RunCommands \cup {"HALT"}
AllButOne == Processes \ {s2}
AllCommands == CycleCommands \cup {"FORCESTATE"}

\* Builders are interchangeable, and so are servers.
AppSymmetry == Permutations({b1, b2}) \cup Permutations({s1, s2})
=============================================================================
