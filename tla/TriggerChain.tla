----------------------------- MODULE TriggerChain -----------------------------
(***************************************************************************)
(* The trigger and the data source servers together, driven by the run     *)
(* control in the order RunControl establishes: START of every server,     *)
(* then of the trigger; STOP or HALT of the trigger, then of every server. *)
(***************************************************************************)
EXTENDS SoftTrigger, DataServer

VARIABLES
  runs,          \* runs started
  leftover       \* history: a server started with unread bursts

rest == <<runs, leftover>>
vars == <<shared, trigger, server, history, rest>>

Init ==
  /\ wire = [s \in Servers |-> <<>>]
  /\ stat = [s \in Servers |-> 0]
  /\ lost = 0 /\ up = FALSE /\ runs = 0 /\ leftover = FALSE
  /\ TriggerInit /\ ServerInit

Stopped == tstate = "CONFIGURED" /\ \A s \in Servers : sstate[s] = "CONFIGURED"

BeginRun ==
  /\ ~up /\ Stopped /\ runs < MaxRuns
  /\ up' = TRUE /\ runs' = runs + 1
  /\ UNCHANGED <<wire, stat, lost, trigger, server, history, leftover>>

StartServer(s) ==
  /\ up /\ ServerStart(s)
  /\ leftover' = (leftover \/ wire[s] # <<>>)
  /\ UNCHANGED <<trigger, runs>>

StartTrigger ==
  /\ up /\ \A s \in Servers : sstate[s] = "RUNNING"
  /\ TriggerStart /\ UNCHANGED <<server, history, rest>>

\* The STOP or HALT stage of the trigger, which may have died.
StopTrigger ==
  /\ up /\ up' = FALSE
  /\ \/ \E halt \in BOOLEAN : TriggerStop(halt)
     \/ tstate = "DOWN" /\ UNCHANGED <<trigger, wire, stat, lost>>
  /\ UNCHANGED <<server, history, rest>>

StopServer(s) ==
  /\ ~up /\ tstate # "RUNNING"
  /\ ServerStop(s) /\ UNCHANGED <<trigger, rest>>

\* Between the runs: CONFIGURE, and HALT of a trigger that does not run.  A
\* server that is halted has to be configured again: ServerConfigure.
Configure ==
  /\ ~up /\ tstate # "RUNNING" /\ \A s \in Servers : sstate[s] = "CONFIGURED"
  /\ \/ (TriggerConfigure \/ TriggerHalt) /\ UNCHANGED <<server, history>>
     \/ \E s \in Servers : ServerConfigure(s) /\ UNCHANGED trigger
  /\ UNCHANGED rest

RunCommand ==
  \/ BeginRun \/ StartTrigger \/ StopTrigger \/ Configure
  \/ \E s \in Servers : StartServer(s) \/ StopServer(s)

Command ==
  /\ \/ \E value \in BOOLEAN : Pause(value)
     \/ \E n \in Ntrgs : SetNtrg(n)
  /\ UNCHANGED <<server, history, rest>>

TriggerThread == PublishingThread /\ UNCHANGED <<server, history, rest>>

ServerThread(s) == PollThread(s) /\ UNCHANGED <<trigger, rest>>

Joined ==
  \/ TriggerStopped /\ UNCHANGED <<server, history, rest>>
  \/ \E s \in Servers : ServerStopped(s) /\ UNCHANGED <<trigger, rest>>

Next ==
  \/ RunCommand \/ Command \/ TriggerThread \/ Joined
  \/ \E s \in Servers : ServerThread(s)

\* Threads run and join_all returns once its threads have ended; the commands
\* are the operator's.
Spec ==
  /\ Init /\ [][Next]_vars
  /\ WF_vars(TriggerThread) /\ WF_vars(Joined)
  /\ \A s \in Servers : WF_vars(ServerThread(s))

-----------------------------------------------------------------------------
(***************************************************************************)
(* Properties.                                                             *)
(***************************************************************************)
TypeOK == TriggerTypeOK /\ ServerTypeOK

Publishes(s) == poller[s] = "fill" /\ burst'[s] # burst[s]

\* The servers feed the event builder as Merger assumes: each publishes keys
\* in increasing order, over all runs until the trigger is halted, whatever was
\* lost or left unread, and only while it is RUNNING.
FeedsInOrder ==
  [][\A s \in Servers : Publishes(s) =>
       /\ sstate[s] = "RUNNING"
       /\ publisher = "live" => Key(burst[s]) > lastKey[s]]_vars

\* Fragments with one key are of one event: no two servers, and no two runs,
\* give a key to different triggers (the builder puts them together by key),
\* until the trigger is halted.
OneEventPerKey == \A p, q \in published : p[1] = q[1] => p[2] = q[2]
SameEvents == publisher = "live" => OneEventPerKey

\* A burst is sent only while every server is listening: stop() of the trigger
\* comes back only when its thread has sent its last one.
PostsToRunning ==
  [][thread = "post" /\ thread' = "advance" => \A s \in Servers : sstate[s] = "RUNNING"]_vars

Unread(s) ==
  LET pending[i \in 0..Len(wire[s])] == IF i = 0 THEN burst[s].ntrg ELSE pending[i-1] + wire[s][i].ntrg
  IN  pending[Len(wire[s])]

\* As long as nothing is lost or left over from an earlier run, asking the
\* clients keeps every server within three bursts of the trigger.
BacklogBounded ==
  tstate = "RUNNING" /\ lost = 0 /\ ~leftover => \A s \in Clients : Unread(s) <= 3 * ntrg

Waiting == tstate = "RUNNING" /\ running /\ waiting

\* ... and a trigger that waits for its clients goes on some time.
TriggerResumes == Waiting /\ lost = 0 /\ ~leftover ~> ~Waiting

\* softTrigger.cxx:163, "the event number and bx are periodically updated and
\* the staus published": a trigger does not wait for ever.
PeriodicallyPublished == Waiting ~> ~Waiting

\* The STOPs come back.
StopsReturn == (stopping ~> ~stopping) /\ \A s \in Servers : s \in joining ~> s \notin joining

\* zmSender.hh:39-40, "bx, bunch crossing id" and "gtc, event or window id": the
\* key of a fragment is its event number.
KeyIsEventNumber == \A p \in published : p[1] = p[2]
=============================================================================
