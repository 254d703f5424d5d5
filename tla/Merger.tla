------------------------------- MODULE Merger -------------------------------
(***************************************************************************)
(* The event builder process: the collector application                    *)
(* (builder/src/localCollector.cc, and its twin example/src/exBuilder.cxx),*)
(* the zmMerger it owns (src/zmMerger.cc) and the polling loop the merger  *)
(* inherits (src/zmPuller.cc).  Two threads act on it: the web thread,     *)
(* which runs the state-machine handlers and the stand-alone commands one  *)
(* at a time, and the poll thread that zmMerger::start creates.            *)
(*                                                                         *)
(* Around it, as far as the builder can tell: the zmSender of every data   *)
(* source (src/zmSender.cc), which registers with an ID message and then   *)
(* sends one fragment per trigger, and one FIFO connection per source.     *)
(*                                                                         *)
(* A fragment is abstracted to the source it comes from and an event of    *)
(* the map to the sequence of the sources of its buffers; payloads, sizes  *)
(* and the byte counters of zmMerger::status are left out.                 *)
(***************************************************************************)
EXTENDS Integers, Sequences, FiniteSets

CONSTANTS
  Sources,       (* the data sources, one zmSender each                      *)
  MaxKey,        (* bound: triggers are numbered 0..MaxKey (uint32_t gtc)    *)
  PurgeWindow,   (* 1000 in zmMerger.cc:295                                  *)
  ForcePurge,    (* 200 in zmMerger.cc:307                                   *)
  HalfRange,     (* 2^31: where int32_t lastgtc turns negative               *)
  DsNumber,      (* exBuilder's "dsnumber" parameter, 0 when it is not given *)
  RegisterDs,    (* the numbers exBuilder's REGISTERDS is sent with          *)
  Processors,    (* number of registered plugins, numbered in map order      *)
  Orderly,       (* commands come from exRunControl only, in its order       *)
  MaxRegister,   (* bound: CONFIGUREs a data source server receives          *)
  MaxRuns,       (* bound: runs started                                      *)
  MaxHeaders     (* bound: SETHEADER commands                                *)

ASSUME MergerAssumption ==
  /\ IsFiniteSet(Sources) /\ Sources # {}
  /\ MaxKey \in Nat /\ PurgeWindow \in Nat /\ HalfRange \in Nat
  /\ ForcePurge \in Nat /\ ForcePurge >= 2   \* a forced purge keeps keys 0 and 1
  /\ DsNumber \in Nat /\ RegisterDs \subseteq Nat
  /\ Processors \in Nat \ {0}
  /\ MaxRegister \in Nat /\ MaxRuns \in Nat /\ MaxHeaders \in Nat
  /\ Orderly \in BOOLEAN

Keys == 0..MaxKey
ID == -1                            \* the registration message of a source
Pipe == Seq(Keys \cup {ID})         \* what one connection holds, in order
NSources == Cardinality(Sources)

VARIABLES
  bstate,          \* state of the collector's fsm
  ctl,             \* handler of the web thread that waits in join_all
  bound,           \* the collecting port is bound by this process
  thread,          \* where the poll thread is
  polling,         \* zmPuller::_running
  nregistered,     \* zmPuller::_nregistered
  nDifs,           \* zmMerger::_nDifs, the number of fragments of an event
  eventMap,        \* zmMerger::_eventMap; <<>> stands for an absent key
  evt,             \* zmMerger::_evt, the last event built
  purge,           \* zmMerger::_purge
  writeHeader,     \* zmMerger::_writeHeader
  nextEventHeader, \* zmMerger::_nextEventHeader
  started,         \* the plugins have been started and not stopped
  runs,            \* runs started so far
  pipe,            \* connection of each source, oldest message first
  nextKey,         \* next trigger each source will see
  registrations,   \* ID messages each source has sent
  serving,         \* the data source servers are RUNNING
  delivered,       \* history: the vectors given to processEvent, by key
  headerAt,        \* history: keys each plugin got a run header before
  asked            \* history: "nextevent" of every SETHEADER, in order

control == <<bstate, ctl, bound, started, runs>>
poller  == <<thread, polling, nregistered>>
events  == <<nDifs, eventMap, evt, purge, delivered>>
header  == <<writeHeader, nextEventHeader, headerAt, asked>>
world   == <<pipe, nextKey, registrations, serving>>
vars    == <<control, poller, events, header, world>>

TypeOK ==
  /\ bstate \in {"CREATED", "CONFIGURED", "RUNNING"}
  /\ ctl \in {"idle", "stop", "halt"}
  /\ thread \in {"none", "created", "loop", "recv"}
  /\ bound \in BOOLEAN /\ polling \in BOOLEAN /\ purge \in BOOLEAN
  /\ writeHeader \in BOOLEAN /\ started \in BOOLEAN /\ serving \in BOOLEAN
  /\ nregistered \in Nat /\ nDifs \in Nat /\ runs \in Nat
  /\ eventMap \in [Keys -> Seq(Sources)]
  /\ evt \in Keys
  /\ nextEventHeader \in Keys \cup {-1}
  /\ pipe \in [Sources -> Pipe]
  /\ nextKey \in [Sources -> 0..MaxKey + 1]
  /\ registrations \in [Sources -> Nat]
  /\ delivered \in [Keys -> Seq(Seq(Sources))]
  /\ headerAt \in [1..Processors -> Seq(Keys)]
  /\ asked \in Seq(Keys \cup {-1})

EmptyMap == [k \in Keys |-> <<>>]

Init ==
  /\ bstate = "CREATED" /\ ctl = "idle" /\ bound = FALSE
  /\ started = FALSE /\ runs = 0
  /\ thread = "none" /\ polling = FALSE /\ nregistered = 0
  /\ nDifs = 0 /\ eventMap = EmptyMap /\ evt = 0 /\ purge = TRUE
  /\ writeHeader = FALSE /\ nextEventHeader = -1
  /\ pipe = [s \in Sources |-> <<>>]
  /\ nextKey = [s \in Sources |-> 0]
  /\ registrations = [s \in Sources |-> 0]
  /\ serving = FALSE
  /\ delivered = EmptyMap
  /\ headerAt = [p \in 1..Processors |-> <<>>]
  /\ asked = <<>>

-----------------------------------------------------------------------------
(***************************************************************************)
(* zmMerger::processData and the functions it calls, as operators on the   *)
(* event map.                                                              *)
(***************************************************************************)

Held(m) == {k \in Keys : m[k] # <<>>}

\* (variant) builds an event one fragment too early
CompleteEarly(m, n) == {k \in Held(m) : Len(m[k]) + 1 >= n}

\* Keys the two loops at zmMerger.cc:261 and 272 select.
Complete(m, n) == {k \in Held(m) : Len(m[k]) = n}

\* (variant) forgets to erase
WithoutErase(m, K) == m

Without(m, K) == [k \in Keys |-> IF k \in K THEN <<>> ELSE m[k]]

\* The values lastgtc can have after the loop over the complete events: the
\* largest of their keys, or the 0 it starts from.
LastGtc(done) ==
  IF done = {} THEN {0} ELSE {k \in done : \A j \in done : j <= k}

\* (variant) compares the wrong way round
OlderThanReversed(k, last) == last >= HalfRange \/ k + PurgeWindow > last

\* it->first + 1000 < lastgtc compares a uint64_t with an int32_t: a negative
\* lastgtc is sign-extended and exceeds every key.
OlderThan(k, last) == last >= HalfRange \/ k + PurgeWindow < last

\* (variant) has no limit on the map
PurgedByAge(m, last) == Without(m, {k \in Keys : OlderThan(k, last)})

Purged(m, last) ==
  LET young == Without(m, {k \in Keys : OlderThan(k, last)})
  IN  IF Cardinality(Held(young)) > ForcePurge
        THEN Without(young, {k \in Keys : k > 1})
        ELSE young

\* (variant) writes the pending header before whatever event comes next
ProcessEventsAnyHeader(built, vector) ==
  /\ delivered' = [k \in Keys |-> IF k \in built
                                    THEN Append(delivered[k], vector[k])
                                    ELSE delivered[k]]
  /\ evt' \in IF built = {} THEN {evt} ELSE LastGtc(built)
  /\ IF writeHeader /\ nextEventHeader > 0 /\ built # {}
       THEN /\ headerAt' = [headerAt EXCEPT ![1] = Append(@, CHOOSE k \in built : TRUE)]
            /\ writeHeader' = FALSE
            /\ nextEventHeader' = -1
       ELSE UNCHANGED <<headerAt, writeHeader, nextEventHeader>>
  /\ UNCHANGED asked

\* zmMerger::processEvent for the keys of built, in map order; vector[k] is
\* what the plugins get.  Only the first plugin can find _writeHeader set.
ProcessEvents(built, vector) ==
  /\ delivered' = [k \in Keys |-> IF k \in built
                                    THEN Append(delivered[k], vector[k])
                                    ELSE delivered[k]]
  /\ evt' \in IF built = {} THEN {evt} ELSE LastGtc(built)
  /\ IF writeHeader /\ nextEventHeader > 0 /\ nextEventHeader \in built
       THEN /\ headerAt' = [headerAt EXCEPT ![1] = Append(@, nextEventHeader)]
            /\ writeHeader' = FALSE
            /\ nextEventHeader' = -1
       ELSE UNCHANGED <<headerAt, writeHeader, nextEventHeader>>
  /\ UNCHANGED asked

\* (variant) looks for complete events before it adds the fragment
ProcessDataLate(s, k) ==
  LET n      == IF nregistered > 0 THEN nregistered ELSE nDifs
      done   == Complete(eventMap, n)
      kept   == [Without(eventMap, done) EXCEPT ![k] = Append(@, s)]
  IN  /\ nDifs' = n
      /\ ProcessEvents(done \ {0}, eventMap)
      /\ IF purge THEN \E last \in LastGtc(done) : eventMap' = Purged(kept, last)
                  ELSE eventMap' = kept
      /\ UNCHANGED purge

\* One fragment of event k from source s.
ProcessData(s, k) ==
  LET n      == IF nregistered > 0 THEN nregistered ELSE nDifs
      filled == [eventMap EXCEPT ![k] = Append(@, s)]
      done   == Complete(filled, n)
      kept   == Without(filled, done)
  IN  /\ nDifs' = n
      /\ ProcessEvents(done \ {0}, filled)      \* "do not process event 0"
      /\ IF purge THEN \E last \in LastGtc(done) : eventMap' = Purged(kept, last)
                  ELSE eventMap' = kept
      /\ UNCHANGED purge

-----------------------------------------------------------------------------
(***************************************************************************)
(* The poll thread: scanMemory, then the loop of zmPuller::poll.           *)
(***************************************************************************)

\* enablePolling(), then the first statements of poll().
EnablePolling ==
  /\ thread = "created"
  /\ thread' = "loop" /\ polling' = TRUE /\ nregistered' = 0
  /\ UNCHANGED <<control, events, header, world>>

\* while (_running)
PollContinue ==
  /\ thread = "loop" /\ polling
  /\ thread' = "recv"
  /\ UNCHANGED <<polling, nregistered, control, events, header, world>>

PollExit ==
  /\ thread = "loop" /\ ~polling
  /\ thread' = "none"
  /\ UNCHANGED <<polling, nregistered, control, events, header, world>>

\* zmq::poll returns after 2000 ms with nothing to read.
PollTimeout ==
  /\ thread = "recv"
  /\ bound => \A s \in Sources : pipe[s] = <<>>
  /\ thread' = "loop"
  /\ UNCHANGED <<polling, nregistered, control, events, header, world>>

\* One message.  A collector has one socket; an exBuilder, with a socket per
\* stream, reads from the others that are ready before it tests _running.
Receive(s) ==
  /\ thread = "recv" /\ bound
  /\ pipe[s] # <<>>
  /\ thread' \in {"loop", "recv"}
  /\ pipe' = [pipe EXCEPT ![s] = Tail(@)]
  /\ UNCHANGED <<polling, control, nextKey, registrations, serving>>

\* (variant) does not count the registration
ReceiveIDUncounted(s) ==
  /\ Receive(s)
  /\ Head(pipe[s]) = ID
  /\ UNCHANGED <<nregistered, events, header>>

ReceiveID(s) ==
  /\ Receive(s)
  /\ Head(pipe[s]) = ID
  /\ nregistered' = nregistered + 1
  /\ UNCHANGED <<events, header>>

ReceiveData(s) ==
  /\ Receive(s)
  /\ Head(pipe[s]) # ID
  /\ ProcessData(s, Head(pipe[s]))
  /\ UNCHANGED nregistered

PollThread ==
  \/ EnablePolling \/ PollContinue \/ PollExit \/ PollTimeout
  \/ \E s \in Sources : ReceiveID(s) \/ ReceiveData(s)

-----------------------------------------------------------------------------
(***************************************************************************)
(* The web thread: transitions and commands of the collector.  While a     *)
(* handler waits in join_all (ctl # "idle") no other command is served.    *)
(***************************************************************************)

\* exRunControl::start sleeps after the builders' START before it starts the
\* servers, for the poll thread to run and read the registrations.
Settled ==
  /\ thread \in {"loop", "recv"} /\ polling
  /\ \A s \in Sources : ID \notin {pipe[s][i] : i \in DOMAIN pipe[s]}

AllRegistered == \A s \in Sources : registrations[s] > 0

\* CONFIGURE.  Without its parameters (they are kept once given) the handler
\* returns early and the fsm still moves on.  With them it applies "dsnumber"
\* and "purge" and binds the port; a port that is already bound makes bind
\* throw after that, and the fsm does not move.
Configure(complete) ==
  /\ ctl = "idle"
  /\ bstate \in {"CREATED", "CONFIGURED"}
  /\ bound => complete
  /\ bstate' = IF bound THEN bstate ELSE "CONFIGURED"
  /\ bound' = (bound \/ complete)
  /\ nDifs' = IF complete /\ DsNumber > 0 THEN DsNumber ELSE nDifs
  /\ purge' \in IF complete THEN BOOLEAN ELSE {purge}
  /\ UNCHANGED <<ctl, started, runs, eventMap, evt, delivered>>
  /\ UNCHANGED <<poller, header, world>>

\* START: zmMerger::start clears the map, starts the plugins and creates the
\* poll thread; it does not wait for it.
Start ==
  /\ ctl = "idle"
  /\ bstate = "CONFIGURED"
  /\ runs < MaxRuns
  /\ Orderly => ~serving /\ AllRegistered
  /\ bstate' = "RUNNING"
  /\ runs' = runs + 1
  /\ eventMap' = EmptyMap
  /\ evt' = 0
  /\ started' = TRUE
  /\ thread' = "created"
  /\ UNCHANGED <<ctl, bound, polling, nregistered, nDifs, purge, delivered>>
  /\ UNCHANGED <<header, world>>

\* (variant) stops the plugins before the poll thread
StopBeginPlugins(handler) ==
  /\ ctl = "idle"
  /\ bstate = "RUNNING"
  /\ Orderly => ~serving /\ Settled
  /\ ctl' = handler
  /\ polling' = FALSE
  /\ started' = FALSE
  /\ UNCHANGED <<bstate, bound, runs, thread, nregistered>>
  /\ UNCHANGED <<events, header, world>>

\* (variant) does not disable the polling
StopBeginPolling(handler) ==
  /\ ctl = "idle"
  /\ bstate = "RUNNING"
  /\ Orderly => ~serving /\ Settled
  /\ ctl' = handler
  /\ UNCHANGED <<bstate, bound, started, runs, poller, events, header, world>>

\* STOP or HALT of a running builder, as far as join_all.
StopBegin(handler) ==
  /\ ctl = "idle"
  /\ bstate = "RUNNING"
  /\ Orderly => ~serving /\ Settled
  /\ ctl' = handler
  /\ polling' = FALSE
  /\ UNCHANGED <<bstate, bound, started, runs, thread, nregistered>>
  /\ UNCHANGED <<events, header, world>>

\* (variant) does not wait for the poll thread
StopEndNoJoin ==
  /\ ctl = "stop"
  /\ ctl' = "idle"
  /\ started' = FALSE
  /\ bstate' = "CONFIGURED"
  /\ UNCHANGED <<bound, runs, poller, events, header, world>>

\* join_all has returned: stop the plugins.
StopEnd ==
  /\ ctl = "stop"
  /\ thread = "none"
  /\ ctl' = "idle"
  /\ started' = FALSE
  /\ bstate' = "CONFIGURED"
  /\ UNCHANGED <<bound, runs, poller, events, header, world>>

\* HALT: stop() when running, then zmMerger::clear.  It forgets the plugins too,
\* which nothing shows: with the port bound no CONFIGURE succeeds any more, and
\* without it nothing is received.
Halt ==
  /\ \/ ctl = "halt" /\ thread = "none"
     \/ ctl = "idle" /\ bstate = "CONFIGURED"
  /\ ctl' = "idle"
  /\ started' = FALSE
  /\ bstate' = "CREATED"
  /\ eventMap' = EmptyMap
  /\ UNCHANGED <<bound, runs, nDifs, evt, purge, delivered>>
  /\ UNCHANGED <<poller, header, world>>

\* REGISTERDS, of exBuilder only, in any state and between any two messages.
\* The run control does not know it: who works with it sends it beforehand.
RegisterDS(n) ==
  /\ ctl = "idle"
  /\ Orderly => runs = 0
  /\ nDifs' = n
  /\ UNCHANGED <<eventMap, evt, purge, delivered>>
  /\ UNCHANGED <<control, poller, header, world>>

\* PURGE
SetPurge(active) ==
  /\ ctl = "idle"
  /\ purge' = active
  /\ UNCHANGED <<nDifs, eventMap, evt, delivered>>
  /\ UNCHANGED <<control, poller, header, world>>

\* SETHEADER with a header; -1 is the default of "nextevent".
SetHeader(nextevent) ==
  /\ ctl = "idle"
  /\ Len(asked) < MaxHeaders
  /\ asked' = Append(asked, nextevent)
  /\ nextEventHeader' = IF nextevent # -1 THEN nextevent ELSE nextEventHeader
  /\ writeHeader' = TRUE
  /\ UNCHANGED <<headerAt, control, poller, events, world>>

WebThread ==
  \/ \E complete \in BOOLEAN : Configure(complete)
  \/ Start
  \/ \E handler \in {"stop", "halt"} : StopBegin(handler)
  \/ StopEnd
  \/ Halt
  \/ \E n \in RegisterDs : RegisterDS(n)
  \/ \E active \in BOOLEAN : SetPurge(active)
  \/ \E k \in Keys \cup {-1} : SetHeader(k)

-----------------------------------------------------------------------------
(***************************************************************************)
(* The data sources.                                                       *)
(***************************************************************************)

\* zmSender::collectorRegister, called by the CONFIGURE of the server.
Register(s) ==
  /\ ~serving
  /\ registrations[s] < MaxRegister
  /\ Orderly => bstate # "RUNNING"
  /\ registrations' = [registrations EXCEPT ![s] = @ + 1]
  /\ pipe' = [pipe EXCEPT ![s] = Append(@, ID)]
  /\ UNCHANGED <<nextKey, serving, control, poller, events, header>>

\* START and STOP of the servers, which exRunControl::start issues after the
\* builders' START and the sleep.
StartServers ==
  /\ ~serving
  /\ AllRegistered
  /\ Orderly => bstate = "RUNNING" /\ Settled
  /\ serving' = TRUE
  /\ UNCHANGED <<pipe, nextKey, registrations, control, poller, events, header>>

StopServers ==
  /\ serving
  /\ serving' = FALSE
  /\ UNCHANGED <<pipe, nextKey, registrations, control, poller, events, header>>

\* zmSender::publish for the next trigger.
Publish(s) ==
  /\ serving
  /\ nextKey[s] <= MaxKey
  /\ pipe' = [pipe EXCEPT ![s] = Append(@, nextKey[s])]
  /\ nextKey' = [nextKey EXCEPT ![s] = @ + 1]
  /\ UNCHANGED <<registrations, serving, control, poller, events, header>>

\* The trigger message did not reach this server (it travels on PUB/SUB).
Miss(s) ==
  /\ nextKey[s] <= MaxKey
  /\ nextKey' = [nextKey EXCEPT ![s] = @ + 1]
  /\ UNCHANGED <<pipe, registrations, serving, control, poller, events, header>>

DataSources ==
  \/ StartServers \/ StopServers
  \/ \E s \in Sources : Register(s) \/ Publish(s) \/ Miss(s)

-----------------------------------------------------------------------------
Next == PollThread \/ WebThread \/ DataSources

\* Both threads of the process keep being scheduled; a handler that waits in
\* join_all continues when the thread has ended.  Nobody has to send commands,
\* and the sources have to do nothing.
Fairness == WF_vars(PollThread) /\ WF_vars(StopEnd) /\ WF_vars(Halt /\ ctl = "halt")

Spec == Init /\ [][Next]_vars /\ Fairness

-----------------------------------------------------------------------------
(***************************************************************************)
(* Safety of the data path.  The first four hold for Orderly runs in which *)
(* every source registers once (Nominal); the runs named in the README show*)
(* what happens otherwise.                                                 *)
(***************************************************************************)
Nominal ==
  /\ Orderly /\ MaxRegister = 1
  /\ DsNumber \in {0, NSources} /\ RegisterDs \subseteq {NSources}
  /\ MaxKey < HalfRange

SourcesOf(v) == {v[i] : i \in DOMAIN v}

\* Every vector zmMerger::processEvent hands to the plugins holds exactly one
\* buffer of each data source, whatever the interleaving of the connections,
\* the triggers a source missed and the fragments a purge or an earlier run
\* left behind.
BuiltComplete ==
  \A k \in Keys : \A i \in DOMAIN delivered[k] :
    /\ Len(delivered[k][i]) = NSources
    /\ SourcesOf(delivered[k][i]) = Sources

\* A trigger is built at most once and never after a later one, over all the
\* runs of the process: nothing that is purged, cleared at START or left in a
\* connection at STOP brings an older event back.
BuiltInOrder ==
  [][\A j, k \in Keys :
       delivered'[k] # delivered[k] /\ delivered[j] # <<>> => j < k]_vars

\* Event k can still collect a fragment of every source.
CanComplete(k) ==
  \A s \in Sources :
    \/ s \in SourcesOf(eventMap[k])
    \/ k \in {pipe[s][i] : i \in DOMAIN pipe[s]}
    \/ nextKey[s] <= k

\* Event k leaves the map while data is processed and is not built.
PurgedNow(k) ==
  /\ thread = "recv" /\ k # 0
  /\ eventMap[k] # <<>> /\ eventMap'[k] = <<>>
  /\ delivered'[k] = delivered[k]

\* The window purge of zmMerger::processData costs nothing: unless the map was
\* at its limit, an event it drops had already lost a fragment for good.
OnlyHopelessPurged ==
  [][\A k \in Keys : PurgedNow(k) =>
       ~CanComplete(k) \/ Cardinality(Held(eventMap)) >= ForcePurge]_vars

\* What setPurge promises (zmMerger.hh:198): below the limit of the map, the
\* purge removes events older than the last one built.
OnlyOldPurged ==
  [][\A k \in Keys : PurgedNow(k) =>
       k < evt' \/ Cardinality(Held(eventMap)) >= ForcePurge]_vars

\* Between two messages no event of the map has a fragment of every source: it
\* has been built as soon as the last of them arrived (zmMerger.hh:89-90).
CompleteNotHeld ==
  \A k \in Keys : SourcesOf(eventMap[k]) # Sources

\* It is so in the first run, whatever the order in which the registrations and
\* the fragments of the sources reach the builder, and in every later one
\* unless all the runs before it went without a fragment.
BuiltWhenComplete == runs <= 1 \/ nDifs # 0 => CompleteNotHeld

\* With the purge active a message never leaves more than ForcePurge events in
\* the map, so that lost triggers cannot fill the memory of the builder.
MapBounded ==
  [][thread = "recv" /\ purge /\ eventMap' # eventMap
       => Cardinality(Held(eventMap')) <= ForcePurge]_vars

\* Every source has a fragment of event k in the builder or on its way there.
AllSent(k) ==
  \A s \in Sources :
    \/ s \in SourcesOf(eventMap[k])
    \/ k \in {pipe[s][i] : i \in DOMAIN pipe[s]}

\* An event all the sources have sent is built, unless the run is stopped
\* first.  Key 0 is never built (zmMerger.cc:115).  (For ForcePurge > MaxKey.)
SentIsBuilt ==
  \A k \in Keys \ {0} :
    AllSent(k) /\ bstate = "RUNNING" ~> delivered[k] # <<>> \/ ctl # "idle"

-----------------------------------------------------------------------------
(***************************************************************************)
(* The threads.                                                            *)
(***************************************************************************)

\* The plugins see events only between their start and their stop, although
\* events are built by one thread and start and stop called by the other.
EventsOnlyWhileStarted ==
  [][delivered' # delivered => started /\ started']_vars

\* zmMerger::start never finds a poll thread of an earlier run: the two would
\* read the same sockets and share the event map.
StartFindsNoThread == bstate # "RUNNING" => thread = "none"

\* STOP and HALT come back from join_all (zmMerger.hh:184: stop "disables the
\* polling and delete the associated thread").
StopReturns == ctl # "idle" ~> ctl = "idle"

\* A run header is given to a plugin only with an event somebody asked for,
\* and not more often than it was asked for.
HeaderWhereAsked ==
  \A p \in 1..Processors :
    /\ SourcesOf(headerAt[p]) \subseteq SourcesOf(asked)
    /\ Len(headerAt[p]) <= Len(asked)

\* zmMerger.hh:169: the run header "is provided to the processRunHeader method
\* of all processors".
HeaderToAll == \A p, q \in 1..Processors : headerAt[p] = headerAt[q]
-----------------------------------------------------------------------------
(***************************************************************************)
(* Refinement.  A fragment waits while it is in a connection or in the     *)
(* event map.                                                              *)
(***************************************************************************)
Queued(s) == {k \in Keys : k \in {pipe[s][i] : i \in DOMAIN pipe[s]}}
InMap(s) == {k \in Keys : s \in SourcesOf(eventMap[k])}

Seen == [s \in Sources |-> {k \in Keys : k < nextKey[s]}]
Waiting == {f \in Sources \X Keys : f[2] \in Queued(f[1]) \cup InMap(f[1])}
Built == {k \in Keys : delivered[k] # <<>>}

Assembly == INSTANCE TriggerAssembly WITH
  seen <- Seen, waiting <- Waiting, built <- Built

\* The builder implements the abstract event builder: no interleaving of the
\* threads, purge, missed trigger, STOP, HALT or START builds a trigger twice,
\* builds it from part of the sources or uses a fragment in two events.
RefinesAssembly == Assembly!Spec
=============================================================================
