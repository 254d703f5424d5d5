------------------------------- MODULE MCFsmJob -------------------------------
(* Instances of FsmJob for TLC. *)
EXTENDS FsmJob

CONSTANTS j1, j2, j3

\* Two data source servers and a builder on one host.
HostNames == [j \in Jobs |-> IF j = j3 THEN "BUILDER" ELSE "EXSERVER"]
=============================================================================
