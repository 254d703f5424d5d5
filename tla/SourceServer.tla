----------------------------- MODULE SourceServer -----------------------------
(***************************************************************************)
(* One data source server (example/src/exServer.cxx) from its INITIALISE   *)
(* on, with all its threads and sources: the web thread, the poll thread   *)
(* of its trigger subscriber (src/zSubscriber.cc), the streamdata threads  *)
(* of the stand-alone mode, and the zmSender of every source               *)
(* (src/zmSender.cc), which finds the builders in the configuration and    *)
(* pushes fragment k to builder k % n, waiting while that builder's queue  *)
(* is full.  The environment is the trigger, the builders that read, and an *)
(* operator who sends SETPARAM at any time.                                *)
(*                                                                         *)
(* Of the queued fragments only their number is kept.  CONFIGURE leaves    *)
(* the sockets of the senders it deletes open: what they still hold is no  *)
(* more this server's.                                                     *)
(***************************************************************************)
EXTENDS Integers, Sequences, FiniteSets, FiniteSetsExt

CONSTANTS
  NSources,      (* sources of the server                                    *)
  Layouts,       (* what the BUILDER processes of the configuration have for *)
                 (* INSTANCE, in the order they are found                    *)
  Room,          (* fragments a connection holds before send() waits         *)
  Ntrgs,         (* triggers in a burst                                      *)
  WordSize,      (* 2^32, the modulus of uint32_t                            *)
  MaxKey,        (* bound: bunch crossings are numbered 0..MaxKey            *)
  MaxConfigures, (* bound: CONFIGUREs                                        *)
  MaxChanges,    (* bound: SETPARAMs that change the mode                    *)
  MaxPollers     (* bound: poll threads alive at a time                      *)

Sources == 1..NSources       \* in the order of _sources
Pollers == 1..MaxPollers

ASSUME SourceServerAssumption ==
  /\ NSources \in Nat \ {0} /\ Room \in Nat \ {0}
  /\ WordSize \in Nat \ {0}
  /\ MaxConfigures \in Nat /\ MaxPollers \in Nat \ {0} /\ MaxKey \in Nat
  /\ Ntrgs \subseteq Nat \ {0}
  /\ Layouts \subseteq Seq(Nat)

VARIABLES
  layout,        \* the configuration, one of Layouts
  complete,      \* no parameter that CONFIGURE looks for is missing
  state,         \* state of the server's fsm, "DOWN" when the process has died
  web,           \* the web thread is idle, or waits in join_all of STOP or HALT
  mode,          \* the parameter "mode"
  running,       \* exServer::_running
  senders,       \* _sources holds the senders
  subscriber,    \* which zSubscriber is _triggerSubscriber, 0 as long as
                 \* nothing has been assigned to it
  polling,       \* the zSubscribers with _running set
  inbox,         \* bursts every zSubscriber has not read yet
  event, bx,     \* exServer::_event and _bx, shared by all threads
  at, task,      \* where each poll thread is, and what it is doing
  stream,        \* where the streamdata thread of each source is
  lastEvt, copy, \* its last_evt, and the values it has read
  queued,        \* fragments on the way from each source to each builder
  stat,          \* exServer::_stat
  trig,          \* the trigger's next bunch crossing
  sent,          \* history: <<key, event number>> pairs each source has sent,
                 \* kept until switched
  changes,       \* SETPARAMs so far
  switched       \* history: one of them came while RUNNING

control == <<state, web, mode, running, senders, subscriber, polling>>
poller == <<at, task>>
streamer == <<stream, lastEvt, copy>>
out == <<queued, stat, sent>>
env == <<layout, complete, trig, changes, switched>>
vars == <<control, inbox, event, bx, poller, streamer, out, env>>

Builders == 1..Len(layout)
Alive == state # "DOWN"
Idle == Alive /\ web = "idle"

NoCopy == [event |-> 0, bx |-> 0]

\* What a poll thread of zSubscriber i does between two bursts.
Polls(i) == [of |-> i, left |-> 0, src |-> 1, event |-> 0, key |-> 0]

Init ==
  /\ layout \in Layouts /\ complete \in BOOLEAN
  /\ state = "INITIALISED" /\ web = "idle" /\ mode \in {"TRIGGER", "ALONE"}
  /\ running = FALSE /\ senders = FALSE
  /\ subscriber = 0 /\ polling = {}
  /\ inbox = [i \in 1..MaxConfigures |-> <<>>]
  /\ event = 0 /\ bx = 0
  /\ at = [p \in Pollers |-> "none"] /\ task = [p \in Pollers |-> Polls(0)]
  /\ stream = [s \in Sources |-> "none"]
  /\ lastEvt = [s \in Sources |-> 0]
  /\ copy = [s \in Sources |-> NoCopy]
  /\ queued = [s \in Sources |-> [b \in Builders |-> 0]]
  /\ stat = [s \in Sources |-> 0]
  /\ trig = 1
  /\ sent = [s \in Sources |-> {}]
  /\ changes = 0 /\ switched = FALSE

-----------------------------------------------------------------------------
(***************************************************************************)
(* zmSender.                                                               *)
(***************************************************************************)
Instances == {layout[b] : b \in Builders}

\* autoDiscover throws, out of configure, when the instances are not numbered
\* from 0: it connects to the empty address it has just put in its map.
Discovers == Instances = 0..(Cardinality(Instances) - 1)

\* The builder of instance i: insert() keeps the first one found.
Connected(i) == Min({b \in Builders : layout[b] = i})

\* publish: the connection a key goes to.
Target(k) == Connected(k % Cardinality(Instances))

Registered == {Connected(i) : i \in Instances}

\* publish(bx, gtc, ...) has a bunch crossing for its gtc, which is a uint32_t.
Gtc(k) == k % WordSize

\* send() has room for a fragment of source s with key k.
HasRoom(s, k) == Instances # {} /\ queued[s][Target(k)] < Room

\* (variant) leaves _stat alone
PublishUncounted(s, ev, k) ==
  /\ HasRoom(s, Gtc(k))
  /\ queued' = [queued EXCEPT ![s][Target(Gtc(k))] = @ + 1]
  /\ sent' = IF switched THEN sent ELSE [sent EXCEPT ![s] = @ \cup {<<Gtc(k), ev>>}]
  /\ UNCHANGED stat

Publish(s, ev, k) ==
  /\ HasRoom(s, Gtc(k))
  /\ queued' = [queued EXCEPT ![s][Target(Gtc(k))] = @ + 1]
  /\ stat' = [stat EXCEPT ![s] = ev]
  /\ sent' = IF switched THEN sent ELSE [sent EXCEPT ![s] = @ \cup {<<Gtc(k), ev>>}]

\* gtc % 0: a server that knows no builder does not survive its first event.
PublishNowhere ==
  /\ Instances = {}
  /\ state' = "DOWN"
  /\ UNCHANGED <<web, mode, running, senders, subscriber, polling>>
  /\ UNCHANGED <<inbox, event, bx, poller, streamer, out, env>>

-----------------------------------------------------------------------------
(***************************************************************************)
(* A poll thread: zSubscriber::poll and checkTrigger.                      *)
(***************************************************************************)
Goes(p, place, t) == at' = [at EXCEPT ![p] = place] /\ task' = [task EXCEPT ![p] = t]

NextPoll(p) ==
  /\ Alive /\ at[p] = "loop"
  /\ at' = [at EXCEPT ![p] = IF task[p].of \in polling THEN "poll" ELSE "none"]
  /\ UNCHANGED <<control, inbox, event, bx, task, streamer, out, env>>

PollTimeout(p) ==
  /\ Alive /\ at[p] = "poll" /\ inbox[task[p].of] = <<>>
  /\ at' = [at EXCEPT ![p] = "loop"]
  /\ UNCHANGED <<control, inbox, event, bx, task, streamer, out, env>>

\* The handler of a burst looks at the mode first, and works on the members
\* _event and _bx.  Without senders it only counts.
ReceiveBurst(p) ==
  /\ Alive /\ at[p] = "poll" /\ inbox[task[p].of] # <<>>
  /\ LET burst == Head(inbox[task[p].of])
         skip == IF senders THEN 0 ELSE burst.ntrg
     IN  IF mode = "ALONE"
           THEN UNCHANGED <<event, bx>>
           ELSE event' = burst.event + skip /\ bx' = burst.bx + skip
  /\ IF mode # "ALONE" /\ senders
       THEN Goes(p, "fill", [task[p] EXCEPT !.left = Head(inbox[task[p].of]).ntrg])
       ELSE Goes(p, "loop", task[p])
  /\ inbox' = [inbox EXCEPT ![task[p].of] = Tail(@)]
  /\ UNCHANGED <<control, streamer, out, env>>

\* The arguments of fillEvent.
FillEvent(p) ==
  /\ Alive /\ at[p] = "fill"
  /\ Goes(p, "send", [task[p] EXCEPT !.event = event, !.key = bx])
  /\ UNCHANGED <<control, inbox, event, bx, streamer, out, env>>

\* The next source, the next trigger of the burst, or the end of the handler.
NextSource(p) ==
  /\ task[p].src < NSources
  /\ Goes(p, "fill", [task[p] EXCEPT !.src = @ + 1])
  /\ UNCHANGED <<event, bx>>

NextTrigger(p) ==
  /\ task[p].src = NSources /\ task[p].left > 1
  /\ Goes(p, "fill", [task[p] EXCEPT !.src = 1, !.left = @ - 1])
  /\ event' = event + 1 /\ bx' = bx + 1

EndOfBurst(p) ==
  /\ task[p].src = NSources /\ task[p].left = 1
  /\ Goes(p, "loop", Polls(task[p].of))
  /\ event' = event + 1 /\ bx' = bx + 1

Advance(p) == NextSource(p) \/ NextTrigger(p) \/ EndOfBurst(p)

\* (variant) gives the burst up when the run has been stopped
SendUnlessStopped(p) ==
  /\ Alive /\ at[p] = "send"
  /\ Publish(task[p].src, task[p].event, task[p].key)
  /\ IF running
       THEN Advance(p)
       ELSE Goes(p, "loop", Polls(task[p].of)) /\ UNCHANGED <<event, bx>>
  /\ UNCHANGED <<control, inbox, streamer, env>>

Send(p) ==
  /\ Alive /\ at[p] = "send"
  /\ Publish(task[p].src, task[p].event, task[p].key)
  /\ Advance(p)
  /\ UNCHANGED <<control, inbox, streamer, env>>

\* Its iterator or its sender has been deleted meanwhile: the process may die
\* of it.
PollerDangles(p) ==
  /\ Alive /\ at[p] = "dangling"
  /\ \/ state' = "DOWN" /\ UNCHANGED poller
     \/ Goes(p, "loop", Polls(task[p].of)) /\ UNCHANGED state
  /\ UNCHANGED <<web, mode, running, senders, subscriber, polling>>
  /\ UNCHANGED <<inbox, event, bx, streamer, out, env>>

PollThread(p) ==
  \/ NextPoll(p) \/ PollTimeout(p) \/ ReceiveBurst(p) \/ FillEvent(p) \/ Send(p)
  \/ Alive /\ at[p] = "send" /\ PublishNowhere
  \/ PollerDangles(p)

-----------------------------------------------------------------------------
(***************************************************************************)
(* streamdata of source s, in the stand-alone mode.                        *)
(***************************************************************************)

\* (bound: MaxKey)
StreamLook(s) ==
  /\ Alive /\ stream[s] = "loop"
  /\ IF running
       THEN /\ event # lastEvt[s] /\ bx <= MaxKey
            /\ copy' = [copy EXCEPT ![s] = [event |-> event, bx |-> bx]]
            /\ stream' = [stream EXCEPT ![s] = "send"]
       ELSE /\ stream' = [stream EXCEPT ![s] = "none"]
            /\ UNCHANGED copy
  /\ UNCHANGED <<control, inbox, event, bx, poller, lastEvt, out, env>>

\* After publish, last_evt=_event; _event++; _bx++ with no lock: two threads may
\* read the same values before they write them.
StreamSend(s) ==
  /\ Alive /\ stream[s] = "send"
  /\ Publish(s, copy[s].event, copy[s].bx)
  /\ lastEvt' = [lastEvt EXCEPT ![s] = event]
  /\ copy' = [copy EXCEPT ![s] = [event |-> event, bx |-> bx]]
  /\ stream' = [stream EXCEPT ![s] = "store"]
  /\ UNCHANGED <<control, inbox, event, bx, poller, env>>

StreamStore(s) ==
  /\ Alive /\ stream[s] = "store"
  /\ event' = copy[s].event + 1 /\ bx' = copy[s].bx + 1
  /\ stream' = [stream EXCEPT ![s] = "loop"]
  /\ copy' = [copy EXCEPT ![s] = NoCopy]
  /\ UNCHANGED <<control, inbox, poller, lastEvt, out, env>>

StreamDangles(s) ==
  /\ Alive /\ stream[s] = "dangling"
  /\ \/ state' = "DOWN" /\ UNCHANGED stream
     \/ stream' = [stream EXCEPT ![s] = "none"] /\ UNCHANGED state
  /\ UNCHANGED <<web, mode, running, senders, subscriber, polling>>
  /\ UNCHANGED <<inbox, event, bx, poller, lastEvt, copy, out, env>>

StreamThread(s) ==
  \/ StreamLook(s) \/ StreamSend(s) \/ StreamStore(s)
  \/ Alive /\ stream[s] = "send" /\ PublishNowhere
  \/ StreamDangles(s)

-----------------------------------------------------------------------------
(***************************************************************************)
(* The web thread.                                                         *)
(***************************************************************************)
NoStat == [s \in Sources |-> 0]

\* Deleting the senders, under a thread that is using them or not.
DeleteSenders ==
  /\ at' = [p \in Pollers |-> IF at[p] \in {"fill", "send"} THEN "dangling" ELSE at[p]]
  /\ stream' = [s \in Sources |-> IF stream[s] = "none" THEN "none" ELSE "dangling"]

\* A connection begins with the registration of its source.
Registrations == [s \in Sources |-> [b \in Builders |-> IF b \in Registered THEN 1 ELSE 0]]

\* New senders and a new subscriber; the old one is not deleted, but if no
\* thread polls it nobody will read what it gets.  (bound: MaxConfigures)
Connect ==
  /\ senders' = Discovers
  /\ IF Discovers
       THEN /\ queued' = Registrations
            /\ subscriber' = subscriber + 1
            /\ inbox' = [i \in DOMAIN inbox |->
                            IF \E p \in Pollers : at[p] # "none" /\ task[p].of = i
                              THEN inbox[i] ELSE <<>>]
            /\ state' = "CONFIGURED"
       ELSE UNCHANGED <<queued, subscriber, inbox, state>>

\* CONFIGURE with a parameter missing gives up half way, and succeeds.
GiveUp ==
  /\ senders' = FALSE /\ state' = "CONFIGURED"
  /\ UNCHANGED <<queued, subscriber, inbox>>

Configure ==
  /\ Idle /\ state \in {"INITIALISED", "CONFIGURED"}
  /\ subscriber < MaxConfigures
  /\ DeleteSenders
  /\ stat' = NoStat
  /\ IF complete THEN Connect ELSE GiveUp
  /\ UNCHANGED <<web, mode, running, polling, event, bx, task, lastEvt, copy, sent, env>>

\* What start() and stop() of the subscriber come to: _triggerSubscriber is
\* set by the first complete CONFIGURE only.
Dereference(next) ==
  state' \in {next} \cup (IF mode # "ALONE" /\ subscriber = 0 THEN {"DOWN"} ELSE {})

\* (bounds: MaxPollers, and one streamdata thread per source)
Start ==
  /\ Idle /\ state = "CONFIGURED"
  /\ event' = 0 /\ running' = TRUE /\ stat' = NoStat
  /\ Dereference("RUNNING")
  /\ IF mode = "ALONE"
       THEN /\ \A s \in Sources : stream[s] = "none"
            /\ stream' = [s \in Sources |-> IF senders THEN "loop" ELSE "none"]
            /\ lastEvt' = [s \in Sources |-> 0]
            /\ UNCHANGED <<polling, poller>>
       ELSE /\ IF subscriber = 0
                 THEN UNCHANGED <<polling, poller>>
                 ELSE /\ \E p \in Pollers :
                           /\ at[p] = "none"
                           /\ Goes(p, "loop", Polls(subscriber))
                      /\ polling' = polling \cup {subscriber}
            /\ UNCHANGED <<stream, lastEvt>>
  /\ UNCHANGED <<web, mode, senders, subscriber, inbox, bx, copy, queued, sent, env>>

\* (variant) leaves the subscriber's _running alone
BeginStopPolling(command) ==
  /\ Idle /\ state = "RUNNING"
  /\ running' = FALSE
  /\ Dereference("RUNNING")
  /\ web' = command
  /\ UNCHANGED <<mode, senders, subscriber, polling, inbox, event, bx, poller, streamer, out, env>>

\* stop(): clears the flags, and goes on to join the threads of its mode.
BeginStop(command) ==
  /\ Idle /\ state = "RUNNING"
  /\ running' = FALSE
  /\ Dereference("RUNNING")
  /\ polling' = IF mode = "ALONE" THEN polling ELSE polling \ {subscriber}
  /\ web' = command
  /\ UNCHANGED <<mode, senders, subscriber, inbox, event, bx, poller, streamer, out, env>>

\* join_all returns.
Joined ==
  IF mode = "ALONE"
    THEN \A s \in Sources : stream[s] = "none"
    ELSE \A p \in Pollers : at[p] = "none" \/ task[p].of # subscriber

\* (variant) does not wait for the threads
EndStopNoJoin ==
  /\ Alive /\ web = "STOP"
  /\ web' = "idle" /\ state' = "CONFIGURED"
  /\ UNCHANGED <<mode, running, senders, subscriber, polling, inbox, event, bx, poller, streamer, out, env>>

EndStop ==
  /\ Alive /\ web = "STOP" /\ Joined
  /\ web' = "idle" /\ state' = "CONFIGURED"
  /\ UNCHANGED <<mode, running, senders, subscriber, polling, inbox, event, bx, poller, streamer, out, env>>

\* (variant) deletes the senders without waiting for the threads
EndHaltNoJoin ==
  /\ \/ Idle /\ state = "CONFIGURED"
     \/ Alive /\ web = "HALT"
  /\ DeleteSenders /\ senders' = FALSE
  /\ web' = "idle" /\ state' = "INITIALISED"
  /\ UNCHANGED <<mode, running, subscriber, polling, inbox, event, bx, task, lastEvt, copy, out, env>>

\* HALT from RUNNING after its stop(), or from CONFIGURED, where _running is
\* not set.
EndHalt ==
  /\ \/ Idle /\ state = "CONFIGURED"
     \/ Alive /\ web = "HALT" /\ Joined
  /\ DeleteSenders /\ senders' = FALSE
  /\ web' = "idle" /\ state' = "INITIALISED"
  /\ UNCHANGED <<mode, running, subscriber, polling, inbox, event, bx, task, lastEvt, copy, out, env>>

\* SETPARAM changes "mode".  (bound: MaxChanges)
SetParameter ==
  /\ Idle /\ changes < MaxChanges
  /\ mode' = IF mode = "ALONE" THEN "TRIGGER" ELSE "ALONE"
  /\ changes' = changes + 1
  /\ switched' = (switched \/ state = "RUNNING")
  /\ sent' = IF switched' THEN [s \in Sources |-> {}] ELSE sent
  /\ UNCHANGED <<state, web, running, senders, subscriber, polling>>
  /\ UNCHANGED <<inbox, event, bx, poller, streamer, queued, stat, layout, complete, trig>>

\* The parameters that were missing come with a SETPARAM or a CONFIGURE.
SupplyParameters ==
  /\ Idle /\ ~complete
  /\ complete' = TRUE
  /\ UNCHANGED <<control, inbox, event, bx, poller, streamer, out, layout, trig, changes, switched>>

Command ==
  \/ Configure \/ Start \/ SetParameter \/ SupplyParameters
  \/ \E command \in {"STOP", "HALT"} : BeginStop(command)

-----------------------------------------------------------------------------
(***************************************************************************)
(* The environment.                                                        *)
(***************************************************************************)

\* A burst of n triggers for every zSubscriber anybody reads.  The trigger has
\* sent one crossing in an earlier run: its event numbers are one behind.
\* (bound: MaxKey)
Post(n) ==
  /\ trig + n <= MaxKey + 1
  /\ trig' = trig + n
  /\ inbox' = [i \in DOMAIN inbox |->
                 IF i = subscriber \/ \E p \in Pollers : at[p] # "none" /\ task[p].of = i
                   THEN Append(inbox[i], [event |-> trig - 1, bx |-> trig, ntrg |-> n])
                   ELSE inbox[i]]
  /\ UNCHANGED <<control, event, bx, poller, streamer, out, layout, complete, changes, switched>>

\* Builder b reads all that has come: a thread only waits for room at one
\* builder at a time.
Read(b) ==
  /\ \E s \in Sources : queued[s][b] > 0
  /\ queued' = [s \in Sources |-> [queued[s] EXCEPT ![b] = 0]]
  /\ UNCHANGED <<control, inbox, event, bx, poller, streamer, stat, sent, env>>

Next ==
  \/ Command \/ EndStop \/ EndHalt
  \/ \E p \in Pollers : PollThread(p)
  \/ \E s \in Sources : StreamThread(s)
  \/ \E n \in Ntrgs : Post(n)
  \/ \E b \in Builders : Read(b)

\* Threads run, and join_all returns once its threads have ended; commands and
\* bursts are not owed.
ThreadsRun ==
  /\ \A p \in Pollers : WF_vars(PollThread(p))
  /\ \A s \in Sources : WF_vars(StreamThread(s))
  /\ WF_vars(web # "idle" /\ (EndStop \/ EndHalt))

\* The builders run until every server has stopped (RunOrder): they read.
MostBuilders == UNION {1..Len(l) : l \in Layouts}
BuildersRead == \A b \in MostBuilders : WF_vars(b \in Builders /\ Read(b))

SpecAnyBuilders == Init /\ [][Next]_vars /\ ThreadsRun
Spec == SpecAnyBuilders /\ BuildersRead

-----------------------------------------------------------------------------
(***************************************************************************)
(* Properties.                                                             *)
(***************************************************************************)
Task == [of : Nat, left : Nat, src : Sources, event : Nat, key : Nat]
Burst == [event : Nat, bx : Nat, ntrg : Nat \ {0}]
PollerAt == {"none", "loop", "poll", "fill", "send", "dangling"}
Values == [event : Nat, bx : Nat]

TypeOK ==
  /\ layout \in Layouts /\ complete \in BOOLEAN
  /\ state \in {"INITIALISED", "CONFIGURED", "RUNNING", "DOWN"}
  /\ web \in {"idle", "STOP", "HALT"} /\ mode \in {"TRIGGER", "ALONE"}
  /\ running \in BOOLEAN /\ senders \in BOOLEAN /\ switched \in BOOLEAN
  /\ subscriber \in 0..MaxConfigures /\ polling \subseteq Nat
  /\ inbox \in [1..MaxConfigures -> Seq(Burst)]
  /\ event \in Nat /\ bx \in Nat /\ trig \in Nat \ {0} /\ changes \in Nat
  /\ at \in [Pollers -> PollerAt]
  /\ task \in [Pollers -> Task]
  /\ stream \in [Sources -> {"none", "loop", "send", "store", "dangling"}]
  /\ lastEvt \in [Sources -> Nat] /\ copy \in [Sources -> Values]
  /\ stat \in [Sources -> Nat]
  /\ sent \in [Sources -> SUBSET (Nat \X Nat)]

\* Unless the mode has been changed during a run, no thread is alive when the
\* server is not running, so that none fills in for two runs, and only the one
\* poll thread, or the streamdata threads, when it is.
QuietUnlessRunning ==
  ~switched
    => /\ state \in {"INITIALISED", "CONFIGURED"} =>
            /\ \A p \in Pollers : at[p] = "none"
            /\ \A s \in Sources : stream[s] = "none"
       /\ \A p, q \in Pollers : at[p] # "none" /\ at[q] # "none" => p = q
       /\ \A p \in Pollers, s \in Sources : at[p] = "none" \/ stream[s] = "none"

\* Whatever the commands, HALT and CONFIGURE included, no thread uses a sender
\* that has been deleted: the server only dies of a configuration without
\* builders, of a mode changed during a run, or in trigger mode of a START or a
\* STOP that no complete CONFIGURE came before.
Survives == state = "DOWN" => Instances = {} \/ switched \/ subscriber = 0

\* A trigger that one source has sent all have sent, whenever STOP came: a
\* builder never waits for the fragment of a source that has gone home.
WholeEvents ==
  ~switched /\ Alive /\ (\A p \in Pollers : at[p] \notin {"fill", "send"})
    => \A s, t \in Sources : sent[s] = sent[t]

\* Where the threads are, and whose: what QuietUnlessRunning, and the joins of
\* STOP and HALT, rest on.
ThreadInv ==
  /\ Alive /\ web # "idle" => state = "RUNNING"
  /\ \A p \in Pollers : at[p] # "none" => task[p].of \in 1..MaxConfigures
  /\ \A p \in Pollers : at[p] \in {"fill", "send"} => task[p].left > 0
  /\ ~switched /\ Alive =>
       /\ state = "RUNNING" => IF mode = "ALONE" THEN \A p \in Pollers : at[p] = "none"
                                                 ELSE \A s \in Sources : stream[s] = "none"
       /\ \A p \in Pollers : at[p] # "none" => at[p] # "dangling" /\ task[p].of = subscriber

\* In the stand-alone mode nothing begins: _event stays what last_evt is.
AloneInv ==
  ~switched /\ Alive =>
    \A s \in Sources : stream[s] # "none" => stream[s] = "loop" /\ event = lastEvt[s]

Busy(p) == at[p] \in {"fill", "send"}

\* In a burst the sources that have had their turn have sent the trigger at
\* hand; all of them have sent those before.
BurstInv ==
  ~switched /\ Alive =>
    /\ \A p \in Pollers, s \in Sources : Busy(p) =>
         sent[s] = sent[NSources] \cup (IF s < task[p].src THEN {<<Gtc(bx), event>>} ELSE {})
    /\ \A p \in Pollers : at[p] = "send" => task[p].event = event /\ task[p].key = bx
    /\ \A p \in Pollers : ~Busy(p) => task[p].src = 1

\* The inductive invariant of the server (SourceServerProofs).
ServerInv ==
  TypeOK /\ ThreadInv /\ AloneInv /\ QuietUnlessRunning /\ Survives /\ BurstInv /\ WholeEvents

\* STOP and HALT come back, although a thread they wait for may be waiting for
\* a builder.  (Under SpecAnyBuilders they may not.)
StopReturns == Alive /\ web # "idle" ~> ~Alive \/ web = "idle"

\* The server as DataServer has it, which sees the source src only: the thread
\* has done with a trigger when it has been sent by that source.
PollerOf(src) ==
  LET busy == {p \in Pollers : at[p] # "none" /\ task[p].of = subscriber} IN
  IF busy = {} THEN [at |-> "none", burst |-> [event |-> 0, bx |-> 0, ntrg |-> 0]]
  ELSE LET p == CHOOSE p \in busy : TRUE
           done == task[p].src > src
           left == task[p].left - (IF done THEN 1 ELSE 0)
           more == IF done THEN 1 ELSE 0
       IN  IF at[p] \in {"fill", "send"}
             THEN IF left = 0
                    THEN [at |-> "loop", burst |-> [event |-> 0, bx |-> 0, ntrg |-> 0]]
                    ELSE [at |-> "fill", burst |-> [event |-> event + more, bx |-> bx + more, ntrg |-> left]]
             ELSE [at |-> at[p], burst |-> [event |-> 0, bx |-> 0, ntrg |-> 0]]

Seen(src) == INSTANCE DataServer WITH
  Servers   <- {0}, MaxRuns <- 0,
  sstate    <- [s \in {0} |-> IF state = "RUNNING" THEN "RUNNING" ELSE "CONFIGURED"],
  joining   <- IF web = "idle" THEN {} ELSE {0},
  polling   <- IF subscriber \in polling THEN {0} ELSE {},
  poller    <- [s \in {0} |-> PollerOf(src).at],
  burst     <- [s \in {0} |-> PollerOf(src).burst],
  lastKey   <- [s \in {0} |-> IF sent[src] = {} THEN -1 ELSE Max({e[1] : e \in sent[src]})],
  published <- sent[src],
  wire      <- [s \in {0} |-> IF subscriber = 0 THEN <<>> ELSE inbox[subscriber]],
  stat      <- [s \in {0} |-> stat[src]],
  lost      <- 0,
  up        <- FALSE

\* In trigger mode, source by source, the server is from its first complete
\* CONFIGURE on the server of TriggerChain, where a trigger is sent in one step:
\* it answers STATUS, stops and sends what that one does.
ActsAsDataServer ==
  [][~switched' /\ mode = "TRIGGER" /\ Alive' /\ subscriber' # 0
     => \A src \in Sources :
          \/ Seen(src)!PollThread(0)
          \/ Seen(src)!ServerConfigure(0) \/ Seen(src)!ServerStart(0)
          \/ Seen(src)!ServerStop(0) \/ Seen(src)!ServerStopped(0)
          \/ UNCHANGED <<Seen(src)!server, Seen(src)!history, stat[src]>>]_vars

\* What the proof that it does (SourceServerProofs) needs beyond ServerInv.
\* _running is set in the subscriber that is being read, and in no other.
PollingInv ==
  ~switched /\ Alive =>
    polling = IF state = "RUNNING" /\ web = "idle" /\ mode # "ALONE" /\ subscriber # 0
                THEN {subscriber} ELSE {}

\* A server has its senders once it has been configured completely, and no
\* thread before; one whose autoDiscover throws never comes so far.
DiscoverInv ==
  /\ subscriber # 0 => complete /\ Discovers
  /\ subscriber # 0 /\ state \in {"CONFIGURED", "RUNNING"} => senders
  /\ subscriber = 0 =>
       /\ ~senders
       /\ \A p \in Pollers : at[p] = "none"
       /\ \A s \in Sources : stream[s] = "none" /\ stat[s] = 0

After(burst) == burst.bx + burst.ntrg

Ahead ==
  {trig} \cup (IF subscriber = 0 THEN {}
              ELSE {inbox[subscriber][j].bx : j \in DOMAIN inbox[subscriber]})

\* Keys only grow: from one burst to the next, from what has been sent to what
\* is to come, and from what has been sent to the trigger at hand.
KeyInv ==
  /\ trig <= MaxKey + 1
  /\ \A i \in 1..MaxConfigures : \A j \in DOMAIN inbox[i] :
       /\ After(inbox[i][j]) <= trig
       /\ \A k \in DOMAIN inbox[i] : j < k => After(inbox[i][j]) <= inbox[i][k].bx
  /\ ~switched /\ Alive =>
       /\ \A s \in Sources : \A e \in sent[s], key \in Ahead : e[1] < key
       /\ \A p \in Pollers : Busy(p) =>
            /\ \A e \in sent[NSources] : e[1] < bx
            /\ \A key \in Ahead : bx + task[p].left <= key

SeenInv == PollingInv /\ DiscoverInv /\ KeyInv

-----------------------------------------------------------------------------
(***************************************************************************)
(* What does not hold.                                                     *)
(***************************************************************************)

\* exServer.cxx:210, "Standalone thread with no external trigger to publish
\* continously data": _event and last_evt are both 0 at START, and only a
\* thread that has published counts _event up.
StandAlonePublishes ==
  state = "RUNNING" /\ mode = "ALONE" /\ senders
    ~> (\E s \in Sources : sent[s] # {}) \/ mode # "ALONE" \/ state # "RUNNING"

\* Quiet, whatever SETPARAM does during a run.
AlwaysQuiet ==
  state \in {"INITIALISED", "CONFIGURED"} => \A p \in Pollers : at[p] = "none"

\* Every builder of the configuration is connected: not two with one INSTANCE.
EveryBuilderConnected == senders => Registered = Builders
=============================================================================
