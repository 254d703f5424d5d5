--------------------------- MODULE TriggerAssembly ---------------------------
(***************************************************************************)
(* What an event builder promises, whatever its threads and its map: each  *)
(* source sees the triggers in order and sends at most one fragment of     *)
(* each; a fragment is used in one event or discarded; an event is built   *)
(* from one fragment of every source, once, and after every event built    *)
(* before it.  Merger implements this specification (Merger!Assembly).     *)
(***************************************************************************)
EXTENDS Integers

CONSTANTS Sources, Keys

VARIABLES
  seen,      \* the triggers each source has dealt with
  waiting,   \* fragments sent and not yet used: pairs <<source, trigger>>
  built      \* triggers whose event has been built

vars == <<seen, waiting, built>>

TypeOK ==
  /\ seen \in [Sources -> SUBSET Keys]
  /\ waiting \subseteq Sources \X Keys
  /\ built \subseteq Keys

Init ==
  /\ seen = [s \in Sources |-> {}]
  /\ waiting = {}
  /\ built = {}

\* Source s deals with trigger k, and sends its fragment or misses it.
Trigger(s, k) ==
  /\ \A j \in seen[s] : j < k
  /\ seen' = [seen EXCEPT ![s] = @ \cup {k}]
  /\ waiting' \in {waiting, waiting \cup {<<s, k>>}}
  /\ UNCHANGED built

Fragments(k) == {<<s, k>> : s \in Sources}

\* The event of trigger k is built; older fragments may be given up with it.
Build(k) ==
  /\ Fragments(k) \subseteq waiting
  /\ \A j \in built : j < k
  /\ built' = built \cup {k}
  /\ waiting' \subseteq waiting \ Fragments(k)
  /\ UNCHANGED seen

\* Fragments are given up: purges, START, HALT.
Discard ==
  /\ waiting' \subseteq waiting
  /\ UNCHANGED <<seen, built>>

Next ==
  \/ \E k \in Keys : Build(k) \/ \E s \in Sources : Trigger(s, k)
  \/ Discard

Spec == Init /\ [][Next]_vars
=============================================================================
