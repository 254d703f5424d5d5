--------------------------------- MODULE Fsm ---------------------------------
(***************************************************************************)
(* zdaq::fsm (src/fsm.cc), the state machine every application owns.       *)
(* A table is the set of transitions an application has registered with    *)
(* addTransition; the handlers themselves are modelled where the           *)
(* application is.                                                         *)
(***************************************************************************)

Transition(command, from, to) == [command |-> command, from |-> from, to |-> to]

\* What baseApplication's constructor registers.
BaseTable == {Transition("CREATE", "VOID", "CREATED")}

\* The transition of processCommand exists in this state.
Accepts(table, state, command) ==
  \E t \in table : t.command = command /\ t.from = state

\* The state after the handler has returned.
Target(table, state, command) ==
  (CHOOSE t \in table : t.command = command /\ t.from = state).to

\* State after processCommand: the handler returns nothing, so the machine
\* moves on however early it came back; only an exception leaves the state as
\* it was, and so does a command the state does not accept.
ProcessCommand(table, state, command, throws) ==
  IF Accepts(table, state, command) /\ ~throws
    THEN Target(table, state, command)
    ELSE state

=============================================================================
