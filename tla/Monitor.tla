------------------------------- MODULE Monitor -------------------------------
(***************************************************************************)
(* The monitoring applications, which publish the status of the hardware   *)
(* from time to time: monitorApplication (include/monitorApplication.hh),  *)
(* the supervisor of the zmon plugins (monitoring/src/zmonSupervisor.cxx)  *)
(* and the daemon lsc (monitoring/daemon/src/lsc.cxx).  Their START, STOP  *)
(* and monitor() are the same but for what the comments say.               *)
(*                                                                         *)
(* The web thread runs transitions and STATUS, one at a time; START gives  *)
(* the monitoring to a second thread.  They share _running and _plugins    *)
(* without a lock.                                                         *)
(***************************************************************************)
EXTENDS Fsm

CONSTANTS
  Apps,          (* the kinds of application that are run                    *)
  Plugins        (* the plugins of a configuration                           *)

none == "none"
Self == {"self"}               \* a monitorApplication reads its own hardware

ASSUME MonitorAssumption ==
  /\ Apps \subseteq {"monitorApplication", "supervisor", "lsc"}
  /\ none \notin Plugins \cup Self

VARIABLES
  app,           \* the kind of this one
  state,         \* of its fsm
  ctl,           \* the handler the web thread is in, "idle" if none
  running,       \* _running
  thread,        \* the monitoring thread: where it is in monitor()
  todo,          \* plugins it has still to read in this round
  reading,       \* the plugin whose status() it is in
  plugins,       \* _plugins
  asked,         \* plugins STATUS has still to read
  publisher,     \* _publisher
  port           \* TCPPort: not in the parameters, free or bound

vars == <<app, state, ctl, running, thread, todo, reading, plugins, asked, publisher, port>>
worker == <<thread, todo, reading>>
sockets == <<publisher, port>>

Sources == IF app = "monitorApplication" THEN Self ELSE plugins

TypeOK ==
  /\ app \in Apps
  /\ state \in {"VOID", "CREATED", "CONFIGURED", "STOPPED", "RUNNING"}
  /\ ctl \in {"idle", "START", "STOP", "HALT", "STATUS"}
  /\ running \in BOOLEAN
  /\ thread \in {none, "created", "check", "plugins", "sleep"}
  /\ todo \subseteq Plugins \cup Self /\ asked \subseteq Plugins \cup Self
  /\ reading \in Plugins \cup Self \cup {none}
  /\ plugins \subseteq Plugins
  /\ publisher \in {"null", "wild", "unbound", "bound"}
  /\ port \in {none, "free", "bound"}

\* The constructor of lsc leaves _publisher uninitialised.
NoPublisher == IF app = "lsc" THEN {"null", "wild"} ELSE {"null"}

Fresh ==
  /\ state' = "VOID" /\ ctl' = "idle" /\ running' = FALSE
  /\ thread' = none /\ todo' = {} /\ reading' = none
  /\ plugins' = {} /\ asked' = {}
  /\ publisher' \in NoPublisher
  /\ port' = IF port = "bound" THEN "free" ELSE port

Init ==
  /\ app \in Apps
  /\ state = "VOID" /\ ctl = "idle" /\ running = FALSE
  /\ thread = none /\ todo = {} /\ reading = none
  /\ plugins = {} /\ asked = {}
  /\ publisher \in NoPublisher
  /\ port \in {none, "free"}

MonitorTable ==
  BaseTable \cup
  { Transition("OPEN", "CREATED", "STOPPED"),
    Transition("START", "STOPPED", "RUNNING"),
    Transition("STOP", "RUNNING", "STOPPED"),
    Transition("CLOSE", "STOPPED", "CREATED") }

SupervisorTable ==
  BaseTable \cup
  { Transition("CONFIGURE", "CREATED", "CONFIGURED"),
    Transition("START", "CONFIGURED", "RUNNING"),
    Transition("STOP", "RUNNING", "CONFIGURED"),
    Transition("HALT", "RUNNING", "CREATED"),
    Transition("HALT", "CONFIGURED", "CREATED") }

LscTable ==
  { Transition("CONFIGURE", "VOID", "CONFIGURED"),
    Transition("START", "CONFIGURED", "RUNNING"),
    Transition("STOP", "RUNNING", "CONFIGURED") }

Table ==
  CASE app = "monitorApplication" -> MonitorTable
    [] app = "supervisor" -> SupervisorTable
    [] app = "lsc" -> LscTable

Takes(command) == ctl = "idle" /\ Accepts(Table, state, command)
Moves(command) == state' = Target(Table, state, command)

-----------------------------------------------------------------------------
(***************************************************************************)
(* The transitions.                                                        *)
(***************************************************************************)

\* CREATE, and OPEN and CLOSE of the hardware, which each application of the
\* base class writes itself.
Simple(command) ==
  /\ Takes(command) /\ Moves(command)
  /\ UNCHANGED <<app, ctl, running, worker, plugins, asked, sockets>>

\* new socket_t and bind, which throws when the port is bound already: nothing
\* ever closes a socket.
Binds == port = "free" /\ publisher' = "bound" /\ port' = "bound"
BindThrows == port = "bound" /\ publisher' = "unbound" /\ port' = port
NoPort == port = none /\ UNCHANGED sockets

\* CONFIGURE of the supervisor and of lsc.  One that lacks a parameter, or
\* whose file cannot be read, comes back early and is CONFIGURED all the same.
Configure ==
  /\ Takes("CONFIGURE")
  /\ \/ Moves("CONFIGURE") /\ UNCHANGED <<plugins, sockets>>
     \/ Moves("CONFIGURE") /\ plugins' = plugins \cup Plugins /\ (Binds \/ NoPort)
     \/ BindThrows /\ UNCHANGED <<state, plugins>>
  /\ UNCHANGED <<app, ctl, running, worker, asked>>

\* START creates the thread ...
StartBegin ==
  /\ Takes("START")
  /\ \/ app # "monitorApplication" /\ UNCHANGED sockets
     \/ app = "monitorApplication" /\ (Binds \/ NoPort)
  /\ ctl' = "START" /\ thread' = "created"
  /\ UNCHANGED <<app, state, running, todo, reading, plugins, asked>>

\* ... and then sets _running.
StartEnd ==
  /\ ctl = "START"
  /\ ctl' = "idle" /\ running' = TRUE /\ Moves("START")
  /\ UNCHANGED <<app, worker, plugins, asked, sockets>>

\* A monitorApplication without a period is RUNNING and has no thread; one
\* that cannot bind its port stays STOPPED.
StartInVain ==
  /\ Takes("START") /\ app = "monitorApplication"
  /\ \/ Moves("START") /\ UNCHANGED sockets
     \/ BindThrows /\ UNCHANGED state
  /\ UNCHANGED <<app, ctl, running, worker, plugins, asked>>

\* (variant) leaves _running as it is
StopBeginRunning(command) ==
  /\ Takes(command) /\ (command = "HALT" => running)
  /\ ctl' = command
  /\ UNCHANGED <<app, state, running, worker, plugins, asked, sockets>>

\* STOP, or HALT that finds _running set.
StopBegin(command) ==
  /\ Takes(command) /\ (command = "HALT" => running)
  /\ ctl' = command /\ running' = FALSE
  /\ UNCHANGED <<app, state, worker, plugins, asked, sockets>>

Stopped(command) ==
  /\ ctl' = "idle" /\ Moves(command)
  /\ plugins' = IF command = "HALT" THEN {} ELSE plugins
  /\ UNCHANGED <<app, running, worker, asked, sockets>>

\* (variant) does not wait for the thread
StopEndNoJoin(command) == ctl = command /\ Stopped(command)

\* join_all has returned.
StopEnd(command) == ctl = command /\ thread = none /\ Stopped(command)

\* HALT that finds it not running.
HaltAtOnce == Takes("HALT") /\ ~running /\ Stopped("HALT")

\* STATUS reads the status of each plugin (a monitorApplication calls it INFOS).
StatusBegin ==
  /\ ctl = "idle"
  /\ ctl' = "STATUS" /\ asked' = Sources
  /\ UNCHANGED <<app, state, running, worker, plugins, sockets>>

StatusNext ==
  /\ ctl = "STATUS"
  /\ IF asked = {} THEN ctl' = "idle" /\ UNCHANGED asked
                   ELSE \E x \in asked : asked' = asked \ {x} /\ UNCHANGED ctl
  /\ UNCHANGED <<app, state, running, worker, plugins, sockets>>

-----------------------------------------------------------------------------
(***************************************************************************)
(* monitor(), in its thread.                                               *)
(***************************************************************************)
Shared == <<app, state, ctl, running, plugins, asked, sockets>>

Ends == thread' = none /\ todo' = {} /\ UNCHANGED reading

\* while (_running); a monitorApplication gives up without a publisher.
Check ==
  /\ thread \in {"created", "check"}
  /\ IF running /\ ~(app = "monitorApplication" /\ publisher = "null")
       THEN thread' = "plugins" /\ todo' = Sources /\ UNCHANGED reading
       ELSE Ends
  /\ UNCHANGED Shared

\* The status of plugin x is read, ...
Read(x) ==
  /\ thread = "plugins" /\ reading = none /\ x \in todo
  /\ reading' = x /\ todo' = todo \ {x}
  /\ UNCHANGED <<thread, Shared>>

\* ... published, when there is a publisher, and stored.
ReadDone ==
  /\ thread = "plugins" /\ reading # none
  /\ reading' = none
  /\ UNCHANGED <<thread, todo, Shared>>

\* The round is over: sleep(_period), unless it has been stopped.
RoundDone ==
  /\ thread = "plugins" /\ reading = none /\ todo = {}
  /\ IF running THEN thread' = "sleep" /\ UNCHANGED <<todo, reading>> ELSE Ends
  /\ UNCHANGED Shared

\* (variant) leaves the loop after a round
SleepOnce == thread = "sleep" /\ Ends /\ UNCHANGED Shared

Sleep ==
  /\ thread = "sleep"
  /\ thread' = "check"
  /\ UNCHANGED <<todo, reading, Shared>>

\* A send through an uninitialised pointer may end the process; it is started
\* again.
Dies ==
  /\ thread = "plugins" /\ reading # none /\ publisher = "wild"
  /\ Fresh
  /\ UNCHANGED app

-----------------------------------------------------------------------------
Transitions ==
  \/ \E command \in {"CREATE", "OPEN", "CLOSE"} : Simple(command)
  \/ Configure \/ StartBegin \/ StartInVain \/ HaltAtOnce \/ StatusBegin
  \/ \E command \in {"STOP", "HALT"} : StopBegin(command)

\* A handler that is under way goes on.
Handler ==
  \/ StartEnd \/ StatusNext
  \/ \E command \in {"STOP", "HALT"} : StopEnd(command)

Monitoring ==
  \/ Check \/ ReadDone \/ RoundDone \/ Sleep
  \/ \E x \in Plugins \cup Self : Read(x)

Next == Transitions \/ Handler \/ Monitoring \/ Dies

\* The kernel runs both threads, and sleep and status() come back; nobody has
\* to send a transition.
Spec ==
  /\ Init /\ [][Next]_vars
  /\ WF_vars(Handler) /\ WF_vars(Monitoring)

-----------------------------------------------------------------------------
(***************************************************************************)
(* Properties.                                                             *)
(***************************************************************************)


\* START never finds the thread of an earlier run: two of them would share
\* the plugins and the publisher.
OneThread == Takes("START") => thread = none

\* The thread reads only plugins that are loaded: HALT, which empties the list
\* the thread walks through, does so when it has ended.
ReadsLoadedPlugins == todo \cup ({reading} \ {none}) \subseteq Sources

\* STOP and HALT come back.
StopReturns == \A command \in {"STOP", "HALT"} : ctl = command ~> ctl = "idle"

\* A thread that has begun reads every plugin again and again until a STOP, or
\* the end of its process.
KeepsMonitoring ==
  \A x \in Plugins \cup Self :
    thread = "sleep" /\ x \in Sources ~> reading = x \/ ~running

\* Where the thread may be: START creates it, STOP and HALT wait for it.
ThreadInv ==
  /\ thread # none => state = "RUNNING" \/ ctl = "START"
  /\ thread = none => todo = {}
  /\ reading # none => thread = "plugins" /\ reading \notin todo

\* When _running is set, and what the handlers under way rely on.
HandlerInv ==
  /\ running => state = "RUNNING" /\ ctl \in {"idle", "STATUS"}
  /\ thread # none /\ ctl \in {"idle", "STATUS"} => running
  /\ ctl = "START" => Accepts(Table, state, "START")
  /\ ctl \in {"STOP", "HALT"} => state = "RUNNING" /\ Accepts(Table, state, ctl)

\* Plugins are loaded from CONFIGURE to HALT, and by no monitorApplication.
PluginInv ==
  plugins # {} => app # "monitorApplication" /\ state \in {"CONFIGURED", "RUNNING"}

\* The inductive invariant of the applications (MonitorProofs).
MonitorInv == TypeOK /\ ThreadInv /\ HandlerInv /\ PluginInv /\ ReadsLoadedPlugins

-----------------------------------------------------------------------------
(***************************************************************************)
(* What does not hold.                                                     *)
(***************************************************************************)

\* An application that is RUNNING and can publish monitors its hardware: not
\* when its thread has looked at _running before START has set it.
Monitors == running /\ ctl = "idle" /\ publisher # "null" => thread # none

\* A port that is still to be bound is free: not after a first run of a
\* monitorApplication, nor after HALT of a supervisor.
PortFree ==
  <<app, state>> \in {<<"monitorApplication", "STOPPED">>, <<"supervisor", "CREATED">>}
    => port # "bound"

\* The status of a plugin is read by one thread at a time, as the lock that
\* nobody takes (theSync_) suggests.
StatusOneAtATime == ~(ctl = "STATUS" /\ reading \in asked)
=============================================================================
