------------------------------ MODULE RunControl ------------------------------
(***************************************************************************)
(* The run control (example/src/exRunControl.cxx) and, as far as it can    *)
(* tell, the applications it drives: the event builders                    *)
(* (example/src/exBuilder.cxx), the data source servers                    *)
(* (example/src/exServer.cxx) and the trigger (example/src/softTrigger.cxx)*)
(* with the state machine each of them owns (src/fsm.cc,                   *)
(* src/baseApplication.cc) and the web calls between them                  *)
(* (src/fsmwebCaller.cc).                                                  *)
(*                                                                         *)
(* A handler of the run control is a sequence of stages, each a transition *)
(* sent to a set of applications.  The loops over the clients and the      *)
(* thread groups that send START to all the servers at once are both one   *)
(* call at a time in any order: a call returns when the application has    *)
(* run its handler.  Answers are never looked at.                          *)
(***************************************************************************)
EXTENDS Fsm, Integers, Sequences, FiniteSets

CONSTANTS
  Builders, Servers,  (* the BUILDER and EXSERVER processes                  *)
  Trigger,            (* the TRIGGER process                                 *)
  RunCtrl,            (* the RUNCONTROL process                              *)
  Complete,           (* processes with a right configuration: it has every  *)
                      (* parameter and counts the builders from 0            *)
  Commands,           (* what the operator sends to the run control          *)
  MaxMishaps          (* bound: processes that die or hang and FORCESTATEs   *)

Apps == Builders \cup Servers \cup {Trigger}
Processes == Apps \cup {RunCtrl}

ASSUME RunControlAssumption ==
  /\ Builders \cap Servers = {}
  /\ Trigger \notin Builders \cup Servers /\ RunCtrl \notin Apps
  /\ Builders # {} /\ Servers # {}
  /\ Complete \subseteq Processes
  /\ MaxMishaps \in Nat

VARIABLES
  state,        \* state of the fsm of every process, "DOWN" when it is dead
  handler,      \* transition the run control is executing, "none" if none
  stages,       \* calls of that handler still to be made
  client,       \* fsmwebCaller of every application: its url was found or not
  bound,        \* builders that have bound their collecting port
  senders,      \* servers that have their zmSenders
  registered,   \* servers whose sources have registered to the builders
  publisher,    \* softTrigger::_triggerPublisher: "null", "live", "deleted"
  crashed,      \* history: processes that have died
  halted,       \* history: HALT has been used
  forced,       \* history: number of FORCESTATEs
  hung          \* applications whose STOP or HALT never comes back

vars == <<state, handler, stages, client, bound, senders, registered,
          publisher, crashed, halted, forced, hung>>

Mishaps == Cardinality(crashed \cup hung) + forced

\* The operator has kept to CREATE, INITIALISE, CONFIGURE, START and STOP.
Undisturbed == ~halted /\ forced = 0

inner == <<bound, senders, registered, publisher>>   \* inside the applications
faults == <<crashed, halted, forced, hung>>

States == {"DOWN", "VOID", "CREATED", "INITIALISED", "CONFIGURED", "RUNNING"}
Handlers == {"CREATE", "INITIALISE", "CONFIGURE", "START", "STOP", "HALT"}

-----------------------------------------------------------------------------
(***************************************************************************)
(* The transition tables.                                                  *)
(***************************************************************************)
RunControlTable == BaseTable \cup
  { Transition("INITIALISE", "CREATED", "INITIALISED"),
    Transition("CONFIGURE", "INITIALISED", "CONFIGURED"),
    Transition("CONFIGURE", "CONFIGURED", "CONFIGURED"),
    Transition("START", "CONFIGURED", "RUNNING"),
    Transition("STOP", "RUNNING", "CONFIGURED"),
    Transition("HALT", "CONFIGURED", "CREATED"),
    Transition("HALT", "INITIALISED", "CREATED") }

\* exBuilder and softTrigger
SimpleTable == BaseTable \cup
  { Transition("CONFIGURE", "CREATED", "CONFIGURED"),
    Transition("CONFIGURE", "CONFIGURED", "CONFIGURED"),
    Transition("START", "CONFIGURED", "RUNNING"),
    Transition("STOP", "RUNNING", "CONFIGURED"),
    Transition("HALT", "RUNNING", "CREATED"),
    Transition("HALT", "CONFIGURED", "CREATED") }

ServerTable == BaseTable \cup
  { Transition("INITIALISE", "CREATED", "INITIALISED"),
    Transition("CONFIGURE", "INITIALISED", "CONFIGURED"),
    Transition("CONFIGURE", "CONFIGURED", "CONFIGURED"),
    Transition("START", "CONFIGURED", "RUNNING"),
    Transition("STOP", "RUNNING", "CONFIGURED"),
    Transition("HALT", "RUNNING", "INITIALISED"),
    Transition("HALT", "CONFIGURED", "INITIALISED") }

Table(p) ==
  CASE p \in Servers -> ServerTable
    [] p = RunCtrl   -> RunControlTable
    [] OTHER         -> SimpleTable

-----------------------------------------------------------------------------
Init ==
  /\ state = [p \in Processes |-> "VOID"]
  /\ handler = "none" /\ stages = <<>>
  /\ client = [a \in Apps |-> "none"]
  /\ bound = {} /\ senders = {} /\ registered = {}
  /\ publisher = "null"
  /\ crashed = {} /\ halted = FALSE /\ forced = 0 /\ hung = {}

-----------------------------------------------------------------------------
(***************************************************************************)
(* The handlers of the run control.                                        *)
(***************************************************************************)
Stage(command, apps) == [command |-> command, to |-> apps]

\* The loop over one list of clients: only discovered applications are in it.
ToKnown(command, apps) ==
  LET known == {a \in apps : client[a] # "none"}
  IN  IF known = {} THEN << >> ELSE << Stage(command, known) >>

\* (variant) starts the trigger before the servers
ProgramTriggerEarly(command) ==
  CASE command = "INITIALISE" -> ToKnown("CONFIGURE", Builders) \o ToKnown("INITIALISE", Servers)
    [] command = "CONFIGURE" -> ToKnown("CONFIGURE", {Trigger}) \o ToKnown("CONFIGURE", Servers)
    [] command = "START" ->
         ToKnown("START", Builders) \o ToKnown("START", {Trigger}) \o ToKnown("START", Servers)
    [] command \in {"STOP", "HALT"} ->
         ToKnown(command, {Trigger}) \o ToKnown(command, Servers) \o ToKnown(command, Builders)
    [] OTHER -> << >>

\* (variant) STOP leaves the builders running
ProgramKeepsBuilders(command) ==
  CASE command = "INITIALISE" -> ToKnown("CONFIGURE", Builders) \o ToKnown("INITIALISE", Servers)
    [] command = "CONFIGURE" -> ToKnown("CONFIGURE", {Trigger}) \o ToKnown("CONFIGURE", Servers)
    [] command = "START" ->
         ToKnown("START", Builders) \o ToKnown("START", Servers) \o ToKnown("START", {Trigger})
    [] command \in {"STOP", "HALT"} -> ToKnown(command, {Trigger}) \o ToKnown(command, Servers)
    [] OTHER -> << >>

\* The calls of a handler, in order.
Program(command) ==
  CASE command = "INITIALISE" -> ToKnown("CONFIGURE", Builders) \o ToKnown("INITIALISE", Servers)
    [] command = "CONFIGURE" -> ToKnown("CONFIGURE", {Trigger}) \o ToKnown("CONFIGURE", Servers)
    [] command = "START" ->
         ToKnown("START", Builders) \o ToKnown("START", Servers) \o ToKnown("START", {Trigger})
    [] command \in {"STOP", "HALT"} ->
         ToKnown(command, {Trigger}) \o ToKnown(command, Servers) \o ToKnown(command, Builders)
    [] OTHER -> << >>

\* CREATE: baseApplication::create reads the configuration and calls
\* userCreate, hence discover, unless the configuration is of no use.
BeginCreate ==
  /\ handler = "none" /\ "CREATE" \in Commands
  /\ Accepts(RunControlTable, state[RunCtrl], "CREATE")
  /\ handler' = "CREATE"
  /\ stages' = IF RunCtrl \in Complete THEN <<Stage("CREATE", Apps)>> ELSE <<>>
  /\ client' = IF RunCtrl \in Complete THEN [a \in Apps |-> "none"] ELSE client
  /\ UNCHANGED <<state, inner, faults>>

Begin(command) ==
  /\ handler = "none" /\ command # "CREATE"
  /\ Accepts(RunControlTable, state[RunCtrl], command)
  /\ handler' = command
  /\ stages' = Program(command)
  /\ halted' = (halted \/ command = "HALT")
  /\ UNCHANGED <<state, client, inner, crashed, forced, hung>>

End ==
  /\ handler # "none" /\ stages = <<>>
  /\ state' = [state EXCEPT ![RunCtrl] = Target(RunControlTable, @, handler)]
  /\ handler' = "none"
  /\ UNCHANGED <<stages, client, inner, faults>>

\* FORCESTATE sets the state and nothing else.
ForceState(s) ==
  /\ handler = "none" /\ "FORCESTATE" \in Commands
  /\ state[RunCtrl] # "DOWN"
  /\ Mishaps < MaxMishaps
  /\ state' = [state EXCEPT ![RunCtrl] = s]
  /\ forced' = forced + 1
  /\ UNCHANGED <<handler, stages, client, inner, crashed, halted, hung>>

-----------------------------------------------------------------------------
(***************************************************************************)
(* The calls.                                                              *)
(***************************************************************************)
Current == Head(stages).command

\* The run control calls a, or one of its threads does.
Calls(a) ==
  /\ stages # <<>> /\ a \in Head(stages).to
  /\ stages' = IF Head(stages).to = {a}
                 THEN Tail(stages)
                 ELSE <<Stage(Current, Head(stages).to \ {a})>> \o Tail(stages)
  /\ UNCHANGED <<handler, faults>>

\* discover: a new fsmwebCaller asks for the prefix of the application, whose
\* url it never learns if nobody answers; CREATE is for those in VOID.
Discover(a) ==
  /\ Calls(a) /\ handler = "CREATE"
  /\ client' = [client EXCEPT ![a] = IF state[a] = "DOWN" THEN "dead" ELSE "found"]
  /\ state' = [state EXCEPT ![a] = ProcessCommand(Table(a), @, "CREATE", FALSE)]
  /\ UNCHANGED inner

\* (variant) waits for the answer of a process that is down
CallInVainBlocks(a) ==
  /\ Calls(a) /\ handler # "CREATE"
  /\ state[a] # "DOWN"
  /\ client[a] = "dead" \/ ~Accepts(Table(a), state[a], Current)
  /\ UNCHANGED <<state, client, inner>>

\* The call fails, or the application answers that it does not accept the
\* transition in its state.
CallInVain(a) ==
  /\ Calls(a) /\ handler # "CREATE"
  /\ client[a] = "dead" \/ ~Accepts(Table(a), state[a], Current)
  /\ UNCHANGED <<state, client, inner>>

\* An application's STOP, or HALT in a run, may wait in a join_all that does
\* not end (Merger and SourceServer show how, and the trigger's thread waits for
\* the servers' STATUS); fsmwebCaller::curlQuery sets no timeout, so the call
\* waits with it, until the process is killed and the call fails.
NeverReturns(a) ==
  /\ handler \in {"STOP", "HALT"} /\ stages # <<>> /\ a \in Head(stages).to
  /\ client[a] = "found" /\ state[a] = "RUNNING" /\ a \notin hung
  /\ Mishaps < MaxMishaps
  /\ hung' = hung \cup {a}
  /\ UNCHANGED <<state, handler, stages, client, inner, crashed, halted, forced>>

\* The application executes the transition; its handler may throw.
Executes(a, throws) ==
  /\ Calls(a) /\ handler # "CREATE"
  /\ client[a] = "found" /\ Accepts(Table(a), state[a], Current) /\ a \notin hung
  /\ state' = [state EXCEPT ![a] = ProcessCommand(Table(a), @, Current, throws)]
  /\ UNCHANGED client

\* The same, for a handler that uses a pointer it must not use: the process
\* may as well die.
ExecutesOrDies(a) ==
  /\ Calls(a) /\ handler # "CREATE"
  /\ client[a] = "found" /\ Accepts(Table(a), state[a], Current) /\ a \notin hung
  /\ \E after \in {Target(Table(a), state[a], Current), "DOWN"} :
       state' = [state EXCEPT ![a] = after]
  /\ UNCHANGED client

\* exBuilder::configure binds the collecting port; HALT does not close it, and
\* a second bind throws.
BuilderConfigure(b) ==
  /\ Executes(b, b \in Complete /\ b \in bound)
  /\ Current = "CONFIGURE"
  /\ bound' = IF b \in Complete THEN bound \cup {b} ELSE bound
  /\ UNCHANGED <<senders, registered, publisher>>

BuilderOther(b) ==
  /\ Executes(b, FALSE) /\ Current # "CONFIGURE"
  /\ UNCHANGED inner

\* exServer::configure replaces the senders, which register themselves.  With a
\* wrong configuration it leaves the server without any: it returns where a
\* parameter is missing, and throws where a builder's INSTANCE is.
ServerConfigure(s) ==
  /\ \E throws \in {FALSE, s \notin Complete} : Executes(s, throws)
  /\ Current = "CONFIGURE"
  /\ senders' = IF s \in Complete THEN senders \cup {s} ELSE senders \ {s}
  /\ registered' = IF s \in Complete THEN registered \cup {s} ELSE registered
  /\ UNCHANGED <<bound, publisher>>

\* (variant) keeps the senders
ServerHaltKeeps(s) ==
  /\ Executes(s, FALSE) /\ Current = "HALT"
  /\ UNCHANGED inner

\* START and STOP of a server that has never had all its parameters, and HALT
\* in a run, use a trigger subscriber that was never created.
NoSubscriber(s) ==
  s \notin Complete /\ (Current \in {"START", "STOP"} \/ (Current = "HALT" /\ state[s] = "RUNNING"))

ServerHalt(s) ==
  /\ (ExecutesOrDies(s) /\ NoSubscriber(s)) \/ (Executes(s, FALSE) /\ ~NoSubscriber(s))
  /\ Current = "HALT"
  /\ senders' = senders \ {s}
  /\ UNCHANGED <<bound, registered, publisher>>

ServerOther(s) ==
  /\ (ExecutesOrDies(s) /\ NoSubscriber(s)) \/ (Executes(s, FALSE) /\ ~NoSubscriber(s))
  /\ Current \in {"INITIALISE", "START", "STOP"}
  /\ UNCHANGED inner

\* (variant) has the test on the pointer the wrong way round
TriggerConfigureInverted ==
  /\ Executes(Trigger, FALSE) /\ Current = "CONFIGURE"
  /\ publisher' = IF Trigger \in Complete /\ publisher # "null" THEN "live" ELSE publisher
  /\ UNCHANGED <<bound, senders, registered>>

\* softTrigger::configure creates the publisher if it has no pointer to one.
TriggerConfigure ==
  /\ Executes(Trigger, FALSE) /\ Current = "CONFIGURE"
  /\ publisher' = IF Trigger \in Complete /\ publisher = "null" THEN "live" ELSE publisher
  /\ UNCHANGED <<bound, senders, registered>>

\* softTrigger::halt deletes the publisher and keeps the pointer.
TriggerHalt ==
  /\ IF publisher = "deleted" THEN ExecutesOrDies(Trigger) ELSE Executes(Trigger, FALSE)
  /\ Current = "HALT"
  /\ publisher' = IF state'[Trigger] = "DOWN" \/ publisher = "null" THEN "null" ELSE "deleted"
  /\ UNCHANGED <<bound, senders, registered>>

TriggerOther ==
  /\ Executes(Trigger, FALSE) /\ Current \in {"START", "STOP"}
  /\ UNCHANGED inner

Call ==
  \/ \E a \in Apps : Discover(a) \/ CallInVain(a)
  \/ \E b \in Builders : BuilderConfigure(b) \/ BuilderOther(b)
  \/ \E s \in Servers : ServerConfigure(s) \/ ServerHalt(s) \/ ServerOther(s)
  \/ TriggerConfigure \/ TriggerHalt \/ TriggerOther

-----------------------------------------------------------------------------
(***************************************************************************)
(* The processes.                                                          *)
(***************************************************************************)

\* What dies with process p.
Forget(p) ==
  /\ bound' = bound \ {p}
  /\ senders' = senders \ {p}
  /\ publisher' = IF p = Trigger THEN "null" ELSE publisher
  /\ IF p = RunCtrl
       THEN /\ handler' = "none" /\ stages' = <<>>
            /\ client' = [a \in Apps |-> "none"]
       ELSE UNCHANGED <<handler, stages, client>>
  /\ UNCHANGED registered

Crash(p) ==
  /\ state[p] # "DOWN"
  /\ Mishaps < MaxMishaps \/ p \in hung
  /\ crashed' = crashed \cup {p} /\ hung' = hung \ {p}
  /\ state' = [state EXCEPT ![p] = "DOWN"]
  /\ Forget(p)
  /\ UNCHANGED <<halted, forced>>

\* The job control starts the process again (fsmjob::restartjob).
Respawn(p) ==
  /\ state[p] = "DOWN"
  /\ state' = [state EXCEPT ![p] = "VOID"]
  /\ UNCHANGED <<handler, stages, client, inner, faults>>

\* softTrigger::publishingThread posts through a pointer that is null or
\* dangling; the process may die of it.
PostNowhere ==
  /\ state[Trigger] = "RUNNING" /\ publisher # "live"
  /\ state' = [state EXCEPT ![Trigger] = "DOWN"]
  /\ publisher' = "null" /\ hung' = hung \ {Trigger}
  /\ UNCHANGED <<handler, stages, client, bound, senders, registered, crashed, halted, forced>>

-----------------------------------------------------------------------------
Next ==
  \/ BeginCreate
  \/ \E command \in Commands : Begin(command)
  \/ Call \/ End
  \/ \E s \in States \ {"DOWN"} : ForceState(s)
  \/ \E p \in Processes : Crash(p) \/ Respawn(p)
  \/ \E a \in Apps : NeverReturns(a)
  \/ PostNowhere

\* The applications that the run control waits for in vain.
Hanging ==
  IF stages = <<>> THEN {}
  ELSE {a \in Head(stages).to \cap hung :
          client[a] = "found" /\ Accepts(Table(a), state[a], Current)}

\* A handler that has begun goes on as long as none of its calls hangs: a
\* process that is down refuses the connection, and one that is up answers.
\* Nobody has to send commands, to kill processes or to restart them.
Spec == Init /\ [][Next]_vars /\ WF_vars(Hanging = {} /\ Call) /\ WF_vars(End)

-----------------------------------------------------------------------------
(***************************************************************************)
(* Properties.                                                             *)
(***************************************************************************)
TypeOK ==
  /\ state \in [Processes -> States]
  /\ handler \in Handlers \cup {"none"}
  /\ stages \in Seq([command : Handlers, to : SUBSET Apps])
  /\ client \in [Apps -> {"none", "found", "dead"}]
  /\ bound \subseteq Builders
  /\ senders \subseteq Servers /\ registered \subseteq Servers
  /\ publisher \in {"null", "live", "deleted"}
  /\ crashed \subseteq Processes /\ halted \in BOOLEAN /\ forced \in Nat /\ hung \subseteq Apps

\* Where the run control believes application a to be.
Expected(a) ==
  CASE state[RunCtrl] = "INITIALISED" /\ a \in Builders   -> "CONFIGURED"
    [] state[RunCtrl] = "INITIALISED" /\ a = Trigger      -> "CREATED"
    [] OTHER -> state[RunCtrl]

\* Where an application with a wrong configuration, or one that has died, may be
\* left behind.
Behind(a) ==
  {"DOWN", "VOID"} \cup IF a \in Servers \ Complete THEN {"INITIALISED"} ELSE {}

\* Between two commands every application is where the run control believes
\* it to be, although no answer is looked at: as long as no process dies, no
\* sequence of CREATE, INITIALISE, CONFIGURE, START and STOP separates them.
\* A process that has died or has a wrong configuration is where it should be or
\* left behind, and disturbs no other.
StatesAgree ==
  handler = "none" /\ RunCtrl \notin crashed /\ Undisturbed
    => \A a \in Apps :
         IF a \in crashed \/ a \notin Complete
           THEN state[a] \in Behind(a) \cup {Expected(a)}
           ELSE state[a] = Expected(a)

\* As long as no process has died: in a run, what the states of the processes
\* with a complete configuration claim is there, builders listen, servers have
\* their senders and the trigger its publisher.
RunIsReal ==
  handler = "none" /\ state[RunCtrl] = "RUNNING" /\ crashed = {} /\ Undisturbed
    => /\ \A a \in Apps \cap Complete : state[a] = "RUNNING"
       /\ Builders \cap Complete \subseteq bound
       /\ senders = Servers \cap Complete
       /\ Trigger \in Complete => publisher = "live"

\* Whatever is sent, forced, left out of the configuration or dies: a server
\* has senders exactly while it is configured or running, and a builder in one
\* of these states is listening.
ResourcesMatchStates ==
  /\ senders = {s \in Servers \cap Complete : state[s] \in {"CONFIGURED", "RUNNING"}}
  /\ \A b \in Builders \cap Complete :
       state[b] \in {"CONFIGURED", "RUNNING"} => b \in bound

\* exRunControl::start, "Start the builder" (exRunControl.cxx:346): after START
\* the builders are running.
BuildersStarted ==
  handler = "none" /\ state[RunCtrl] = "RUNNING" => \A b \in Builders : state[b] = "RUNNING"

\* softTrigger::configure, "Create the publisher" (softTrigger.cxx:86): a
\* trigger that is configured with all its parameters has a publisher.
PublisherCreated ==
  state[Trigger] \in {"CONFIGURED", "RUNNING"} => publisher = "live"

\* exServer::halt, "go back to CREATED" (exServer.cxx:291).
HaltGoesBackToCreated ==
  handler = "none" /\ state[RunCtrl] = "CREATED" => \A s \in Servers : state[s] = "CREATED"

\* A transition of the run control ends, whoever of its clients is dead, has
\* died or does not accept what it is sent; only a STOP or HALT that never
\* returns keeps it, and once that process is killed it goes on.
HandlerEnds == handler # "none" ~> handler = "none" \/ Hanging # {}

-----------------------------------------------------------------------------
Order == INSTANCE RunOrder WITH
  Builders   <- Builders \cap Complete,
  Servers    <- Servers \cap Complete,
  building   <- {b \in Builders \cap Complete : state[b] = "RUNNING"},
  serving    <- {s \in Servers \cap Complete : state[s] = "RUNNING"},
  triggering <- state[Trigger] = "RUNNING"

\* Among the processes with a complete configuration, the run control keeps
\* the order that the event builder relies on, until a process dies or the
\* operator sends HALT or FORCESTATE.
KeepsOrder ==
  Order!Init /\ [][crashed' = {} /\ Undisturbed' => Order!Next]_(Order!vars)
=============================================================================
