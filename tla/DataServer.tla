------------------------------ MODULE DataServer ------------------------------
(***************************************************************************)
(* The data source servers (example/src/exServer.cxx) in trigger mode,     *)
(* from their CONFIGURE on: every server has a zSubscriber                 *)
(* (src/zSubscriber.cc) whose poll thread calls checkTrigger for every     *)
(* trigger message, which publishes an event of each source per trigger.   *)
(*                                                                         *)
(* The sources of a server are filled in one step: SourceServer, where     *)
(* they are filled one by one, implements this module, whichever source's  *)
(* statistics are looked at.                                               *)
(***************************************************************************)
EXTENDS TriggerWire

VARIABLES
  sstate,        \* state of each server's fsm
  joining,       \* servers whose stop() waits in join_all
  polling,       \* zSubscriber::_running of each server
  poller,        \* where each server's poll thread is
  burst,         \* what is left of the burst it works on
  lastKey,       \* history: the last key each server published, -1 if none
  published      \* history: <<key, event number>> pairs published

server == <<sstate, joining, polling, poller, burst>>
history == <<lastKey, published>>

NoBurst == Burst(0, 0, 0)

ServerTypeOK ==
  /\ sstate \in [Servers -> {"CONFIGURED", "RUNNING"}]
  /\ joining \subseteq Servers /\ polling \subseteq Servers
  /\ poller \in [Servers -> {"none", "loop", "poll", "fill"}]
  /\ stat \in [Servers -> Nat]
  /\ lastKey \in [Servers -> Nat \cup {-1}]

ServerInit ==
  /\ sstate = [s \in Servers |-> "CONFIGURED"]
  /\ joining = {} /\ polling = {}
  /\ poller = [s \in Servers |-> "none"]
  /\ burst = [s \in Servers |-> NoBurst]
  /\ lastKey = [s \in Servers |-> -1]
  /\ published = {}

-----------------------------------------------------------------------------
(***************************************************************************)
(* The poll thread of server s.                                            *)
(***************************************************************************)
NextPoll(s) ==
  /\ poller[s] = "loop"
  /\ poller' = [poller EXCEPT ![s] = IF s \in polling THEN "poll" ELSE "none"]
  /\ UNCHANGED <<sstate, joining, polling, burst, history, shared>>

PollTimeout(s) ==
  /\ poller[s] = "poll" /\ wire[s] = <<>>
  /\ poller' = [poller EXCEPT ![s] = "loop"]
  /\ UNCHANGED <<sstate, joining, polling, burst, history, shared>>

\* processData, and the handler begins.
ReceiveBurst(s) ==
  /\ poller[s] = "poll" /\ wire[s] # <<>>
  /\ burst' = [burst EXCEPT ![s] = Head(wire[s])]
  /\ wire' = [wire EXCEPT ![s] = Tail(@)]
  /\ poller' = [poller EXCEPT ![s] = "fill"]
  /\ UNCHANGED <<sstate, joining, polling, history, stat, lost, up>>

\* fillEvent calls publish(event, bx, ...), whose parameters are (bx, gtc, ...):
\* the builder's key is the bunch crossing, cut to the 32 bits of gtc.
Key(b) == b.bx % WordSize

\* (variant) forgets the statistics
FillEventSilent(s) ==
  LET b == burst[s] IN
  /\ poller[s] = "fill"
  /\ lastKey' = [lastKey EXCEPT ![s] = Key(b)]
  /\ published' = published \cup {<<Key(b), b.event>>}
  /\ burst' = [burst EXCEPT ![s] = IF b.ntrg = 1 THEN NoBurst
                                   ELSE Burst(b.event + 1, b.bx + 1, b.ntrg - 1)]
  /\ poller' = [poller EXCEPT ![s] = IF b.ntrg = 1 THEN "loop" ELSE "fill"]
  /\ UNCHANGED <<sstate, joining, polling, wire, lost, stat, up>>

\* One turn of checkTrigger's loop.
FillEvent(s) ==
  LET b == burst[s] IN
  /\ poller[s] = "fill"
  /\ lastKey' = [lastKey EXCEPT ![s] = Key(b)]
  /\ published' = published \cup {<<Key(b), b.event>>}
  /\ stat' = [stat EXCEPT ![s] = b.event]
  /\ burst' = [burst EXCEPT ![s] = IF b.ntrg = 1 THEN NoBurst
                                   ELSE Burst(b.event + 1, b.bx + 1, b.ntrg - 1)]
  /\ poller' = [poller EXCEPT ![s] = IF b.ntrg = 1 THEN "loop" ELSE "fill"]
  /\ UNCHANGED <<sstate, joining, polling, wire, lost, up>>

PollThread(s) == NextPoll(s) \/ PollTimeout(s) \/ ReceiveBurst(s) \/ FillEvent(s)

-----------------------------------------------------------------------------
(***************************************************************************)
(* The web thread of server s.                                             *)
(***************************************************************************)

\* CONFIGURE from CONFIGURED: a new subscriber, that has nothing to read.
ServerConfigure(s) ==
  /\ sstate[s] = "CONFIGURED"
  /\ stat' = [stat EXCEPT ![s] = 0]
  /\ wire' = [wire EXCEPT ![s] = <<>>]
  /\ UNCHANGED <<server, history, lost, up>>

ServerStart(s) ==
  /\ sstate[s] = "CONFIGURED"
  /\ sstate' = [sstate EXCEPT ![s] = "RUNNING"]
  /\ stat' = [stat EXCEPT ![s] = 0]
  /\ polling' = polling \cup {s}
  /\ poller' = [poller EXCEPT ![s] = "loop"]
  /\ UNCHANGED <<joining, burst, lastKey, published, wire, lost, up>>

ServerStop(s) ==
  /\ sstate[s] = "RUNNING" /\ s \notin joining
  /\ polling' = polling \ {s}
  /\ joining' = joining \cup {s}
  /\ UNCHANGED <<sstate, poller, burst, history, shared>>

ServerStopped(s) ==
  /\ s \in joining /\ poller[s] = "none"
  /\ joining' = joining \ {s}
  /\ sstate' = [sstate EXCEPT ![s] = "CONFIGURED"]
  /\ UNCHANGED <<polling, poller, burst, history, shared>>
=============================================================================
