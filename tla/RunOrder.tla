------------------------------- MODULE RunOrder -------------------------------
(***************************************************************************)
(* What the run control promises to the data path: the order in which      *)
(* builders, data source servers and trigger register, start and stop.     *)
(* Merger takes this order for granted when Orderly is TRUE; RunControl    *)
(* implements it.                                                          *)
(***************************************************************************)
CONSTANTS Builders, Servers

VARIABLES
  registered,   \* servers whose sources have registered to the builders
  building,     \* builders that are running
  serving,      \* servers that are running
  triggering    \* the trigger is running

vars == <<registered, building, serving, triggering>>

Init ==
  /\ registered = {} /\ building = {} /\ serving = {} /\ triggering = FALSE

\* A registration reaches the builders between two runs only.
Register(s) ==
  /\ building = {} /\ serving = {}
  /\ registered' = registered \cup {s}
  /\ UNCHANGED <<building, serving, triggering>>

StartBuilder(b) ==
  /\ registered = Servers /\ serving = {} /\ ~triggering
  /\ building' = building \cup {b}
  /\ UNCHANGED <<registered, serving, triggering>>

StartServer(s) ==
  /\ building = Builders /\ ~triggering
  /\ serving' = serving \cup {s}
  /\ UNCHANGED <<registered, building, triggering>>

StartTrigger ==
  /\ building = Builders /\ serving = Servers
  /\ triggering' = TRUE
  /\ UNCHANGED <<registered, building, serving>>

StopTrigger ==
  /\ triggering' = FALSE
  /\ UNCHANGED <<registered, building, serving>>

StopServer(s) ==
  /\ ~triggering
  /\ serving' = serving \ {s}
  /\ UNCHANGED <<registered, building, triggering>>

StopBuilder(b) ==
  /\ ~triggering /\ serving = {}
  /\ building' = building \ {b}
  /\ UNCHANGED <<registered, serving, triggering>>

Next ==
  \/ \E s \in Servers : Register(s) \/ StartServer(s) \/ StopServer(s)
  \/ \E b \in Builders : StartBuilder(b) \/ StopBuilder(b)
  \/ StartTrigger \/ StopTrigger

Spec == Init /\ [][Next]_vars
=============================================================================
