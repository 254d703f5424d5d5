----------------------------- MODULE SoftTrigger -----------------------------
(***************************************************************************)
(* The software trigger (example/src/softTrigger.cxx) from its CONFIGURE   *)
(* on: a publishing thread that sends a burst of _ntrg triggers after      *)
(* every period unless one of its clients, the servers, is too far behind, *)
(* and a web thread for the transitions and commands.  HALT sets the bunch  *)
(* crossing back and deletes the publisher, to which it leaves the pointer: *)
(* configure makes a new one only when there is none.                      *)
(***************************************************************************)
EXTENDS TriggerWire

CONSTANTS
  Clients,       (* servers found by findClients: all, or none without a     *)
                 (* "clientname" parameter                                   *)
  Ntrg,          (* the "ntrg" parameter                                     *)
  Ntrgs,         (* values the NTRG command is given                         *)
  NtrgAnytime,   (* NTRG commands come during a run too                      *)
  MaxHalted,     (* bound: bunch crossings after a HALT: 0..MaxHalted - 1    *)
  MaxLost        (* bound: bursts that reach only some of the servers        *)

ASSUME SoftTriggerAssumption ==
  /\ Clients \subseteq Servers
  /\ Ntrg \in Nat \ {0} /\ Ntrgs \subseteq Nat \ {0}
  /\ NtrgAnytime \in BOOLEAN /\ MaxHalted \in Nat

VARIABLES
  tstate,        \* state of the trigger's fsm, "DOWN" when the process has died
  stopping,      \* the web thread is in stop(), waiting in join_all
  halting,       \* ... which halt() has called
  publisher,     \* softTrigger::_triggerPublisher: "live" or "deleted"
  running,       \* softTrigger::_running
  paused,        \* softTrigger::_paused
  event,         \* softTrigger::_event
  bx,            \* softTrigger::_bx
  ntrg,          \* softTrigger::_ntrg
  thread,        \* where the publishing thread is
  ns0,           \* its ns0: the event number the clients start from
  toAsk,         \* clients whose STATUS it has still to ask for
  waiting        \* the last look at the clients made it wait

web == <<tstate, stopping, halting, running, publisher>>
trigger == <<web, paused, event, bx, ntrg, thread, ns0, toAsk, waiting>>

TriggerTypeOK ==
  /\ tstate \in {"CREATED", "CONFIGURED", "RUNNING", "DOWN"}
  /\ publisher \in {"live", "deleted"}
  /\ thread \in {"none", "start", "loop", "check", "post", "advance"}
  /\ {stopping, halting, running, paused, waiting} \subseteq BOOLEAN
  /\ {event, bx, ntrg, ns0} \subseteq Nat
  /\ toAsk \subseteq Clients

TriggerInit ==
  /\ tstate = "CONFIGURED" /\ stopping = FALSE /\ halting = FALSE
  /\ publisher = "live" /\ running = FALSE /\ paused = TRUE
  /\ event = 0 /\ bx = 0 /\ ntrg = Ntrg
  /\ thread = "none" /\ ns0 = 0 /\ toAsk = {} /\ waiting = FALSE

-----------------------------------------------------------------------------
(***************************************************************************)
(* The publishing thread.                                                  *)
(***************************************************************************)

\* Before its loop it asks every client for the event number of its first
\* source and keeps the last answer.
AskStart(c) ==
  /\ thread = "start" /\ c \in toAsk
  /\ ns0' = stat[c] /\ toAsk' = toAsk \ {c}
  /\ UNCHANGED <<web, paused, event, bx, ntrg, thread, waiting, shared>>

EnterLoop ==
  /\ thread = "start" /\ toAsk = {}
  /\ thread' = "loop"
  /\ UNCHANGED <<web, paused, event, bx, ntrg, ns0, toAsk, waiting, shared>>

\* while (_running), and the period.
NextPeriod ==
  /\ thread = "loop"
  /\ thread' = IF running THEN "check" ELSE "none"
  /\ toAsk' = IF running THEN Clients ELSE toAsk
  /\ UNCHANGED <<web, paused, event, bx, ntrg, ns0, waiting, shared>>

\* (variant) allows one burst more
TooLateLoose(ns) == (event - (ns - ns0)) % WordSize > 3 * ntrg

\* A client at event ns is more than two bursts behind, in uint32_t.
TooLate(ns) == (event - (ns - ns0)) % WordSize > 2 * ntrg

\* STATUS of one client.  A client too far behind makes the thread wait for
\* another period whatever the others answer.
AskStatus(c) ==
  /\ thread = "check" /\ c \in toAsk
  /\ IF TooLate(stat[c])
       THEN /\ thread' = "loop" /\ waiting' = TRUE
            /\ toAsk' = {}
       ELSE /\ toAsk' = toAsk \ {c}
            /\ UNCHANGED <<thread, waiting>>
  /\ UNCHANGED <<web, paused, event, bx, ntrg, ns0, shared>>

\* (bounds: MaxKey, MaxHalted)  A trigger beyond the bound stays asleep.
LastKey == IF publisher = "live" THEN MaxKey ELSE MaxHalted - 1

\* Nobody is late: go on unless paused, or stopped meanwhile.
Ready ==
  /\ thread = "check" /\ toAsk = {}
  /\ waiting' = FALSE
  /\ thread' = IF paused \/ bx + ntrg > LastKey + 1 THEN "loop"
               ELSE IF running THEN "post" ELSE "none"
  /\ UNCHANGED <<web, paused, event, bx, ntrg, ns0, toAsk, shared>>

\* zPublisher::post, to every subscriber; PUB drops what a subscriber that is
\* not yet connected, or not reading, cannot take.  Through a deleted publisher
\* it may still work, or go out under a name that no server listens to.
Post(missed) ==
  /\ thread = "post"
  /\ lost' = lost + IF missed = {} THEN 0 ELSE 1
  /\ lost' <= MaxLost
  /\ wire' = [s \in Servers |-> IF s \in missed THEN wire[s]
                                 ELSE Append(wire[s], Burst(event, bx, ntrg))]
  /\ thread' = "advance"
  /\ UNCHANGED <<web, paused, event, bx, ntrg, ns0, toAsk, waiting, stat, up>>

\* ... or the process dies of it.
PostDies ==
  /\ thread = "post" /\ publisher = "deleted"
  /\ tstate' = "DOWN" /\ thread' = "none"
  /\ running' = FALSE /\ stopping' = FALSE /\ halting' = FALSE
  /\ UNCHANGED <<publisher, paused, event, bx, ntrg, ns0, toAsk, waiting, shared>>

\* (variant) forgets the bunch crossing
AdvanceEventOnly ==
  /\ thread = "advance"
  /\ event' = event + ntrg
  /\ thread' = "loop"
  /\ UNCHANGED <<web, bx, paused, ntrg, ns0, toAsk, waiting, shared>>

Advance ==
  /\ thread = "advance"
  /\ event' = event + ntrg /\ bx' = bx + ntrg
  /\ thread' = "loop"
  /\ UNCHANGED <<web, paused, ntrg, ns0, toAsk, waiting, shared>>

PublishingThread ==
  \/ \E c \in Clients : AskStart(c) \/ AskStatus(c)
  \/ EnterLoop \/ NextPeriod \/ Ready \/ Advance \/ PostDies
  \/ \E missed \in SUBSET Servers : Post(missed)

-----------------------------------------------------------------------------
(***************************************************************************)
(* The web thread.                                                         *)
(***************************************************************************)

\* CONFIGURE takes "ntrg" from the parameters again.
TriggerConfigure ==
  /\ tstate \in {"CREATED", "CONFIGURED"}
  /\ tstate' = "CONFIGURED" /\ ntrg' = Ntrg
  /\ UNCHANGED <<stopping, halting, running, publisher>>
  /\ UNCHANGED <<paused, event, bx, thread, ns0, toAsk, waiting, shared>>

\* (variant) restarts the bunch crossings too
TriggerStartFromZero ==
  /\ tstate = "CONFIGURED"
  /\ tstate' = "RUNNING" /\ running' = TRUE /\ paused' = FALSE
  /\ event' = 0 /\ bx' = 0
  /\ thread' = "start" /\ ns0' = 0 /\ toAsk' = Clients /\ waiting' = FALSE
  /\ UNCHANGED <<stopping, halting, publisher, ntrg, shared>>

TriggerStart ==
  /\ tstate = "CONFIGURED"
  /\ tstate' = "RUNNING" /\ running' = TRUE /\ paused' = FALSE
  /\ event' = 0
  /\ thread' = "start" /\ ns0' = 0 /\ toAsk' = Clients /\ waiting' = FALSE
  /\ UNCHANGED <<stopping, halting, publisher, bx, ntrg, shared>>

\* (variant) forgets to clear _running
TriggerStopLate(halt) ==
  /\ tstate = "RUNNING" /\ ~stopping
  /\ stopping' = TRUE /\ halting' = halt
  /\ UNCHANGED <<tstate, running, publisher, paused, event, bx, ntrg, thread, ns0, toAsk, waiting>>
  /\ UNCHANGED <<wire, stat, lost>>

\* stop(), for STOP or at the beginning of HALT.
TriggerStop(halt) ==
  /\ tstate = "RUNNING" /\ ~stopping
  /\ stopping' = TRUE /\ halting' = halt /\ running' = FALSE
  /\ UNCHANGED <<tstate, publisher, paused, event, bx, ntrg, thread, ns0, toAsk, waiting>>
  /\ UNCHANGED <<wire, stat, lost>>

\* What HALT does to a trigger that does not run.  Deleting the publisher a
\* second time may kill it.
Destroy ==
  /\ bx' = 0 /\ publisher' = "deleted"
  /\ tstate' \in {"CREATED"} \cup (IF publisher = "deleted" THEN {"DOWN"} ELSE {})

\* (variant) does not join the thread
TriggerStoppedNoJoin ==
  /\ stopping
  /\ stopping' = FALSE /\ halting' = FALSE /\ paused' = TRUE
  /\ IF halting THEN Destroy ELSE tstate' = "CONFIGURED" /\ UNCHANGED <<bx, publisher>>
  /\ UNCHANGED <<running, event, ntrg, thread, ns0, toAsk, waiting, shared>>

\* The join_all of stop() has returned.
TriggerStopped ==
  /\ stopping /\ thread = "none"
  /\ stopping' = FALSE /\ halting' = FALSE /\ paused' = TRUE
  /\ IF halting THEN Destroy ELSE tstate' = "CONFIGURED" /\ UNCHANGED <<bx, publisher>>
  /\ UNCHANGED <<running, event, ntrg, thread, ns0, toAsk, waiting, shared>>

\* HALT from CONFIGURED.
TriggerHalt ==
  /\ tstate = "CONFIGURED"
  /\ Destroy
  /\ UNCHANGED <<stopping, halting, running>>
  /\ UNCHANGED <<paused, event, ntrg, thread, ns0, toAsk, waiting, shared>>

Pause(value) ==
  /\ tstate # "DOWN" /\ ~stopping
  /\ paused' = value
  /\ UNCHANGED <<web, event, bx, ntrg, thread, ns0, toAsk, waiting, shared>>

SetNtrg(n) ==
  /\ tstate # "DOWN" /\ ~stopping
  /\ NtrgAnytime \/ tstate # "RUNNING"
  /\ ntrg' = n
  /\ UNCHANGED <<web, paused, event, bx, thread, ns0, toAsk, waiting, shared>>
=============================================================================
