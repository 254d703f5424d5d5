---------------------------- MODULE MonitorProofs ----------------------------
(***************************************************************************)
(* Theorems about Monitor, for any plugins and each kind of application.   *)
(***************************************************************************)
EXTENDS Monitor, TLAPS

USE MonitorAssumption DEF MonitorAssumption, none, Self

-----------------------------------------------------------------------------
(***************************************************************************)
(* The transition tables.                                                  *)
(***************************************************************************)

\* When a transition is accepted and where it goes, in the three tables.
LEMMA TableFacts ==
  ASSUME NEW s, NEW c, app \in Apps, Accepts(Table, s, c)
  PROVE  /\ c = "START" => s \in {"STOPPED", "CONFIGURED"} /\ Target(Table, s, c) = "RUNNING"
         /\ c = "STOP" =>
              /\ s = "RUNNING" /\ Target(Table, s, c) \in {"STOPPED", "CONFIGURED"}
              /\ app # "monitorApplication" => Target(Table, s, c) = "CONFIGURED"
         /\ c = "HALT" => s \in {"RUNNING", "CONFIGURED"} /\ Target(Table, s, c) = "CREATED"
         /\ c = "CONFIGURE" =>
              /\ app # "monitorApplication"
              /\ s \in {"VOID", "CREATED"} /\ Target(Table, s, c) = "CONFIGURED"
         /\ c \in {"CREATE", "OPEN", "CLOSE"} =>
              /\ s \in {"VOID", "CREATED", "STOPPED"}
              /\ Target(Table, s, c) \in {"CREATED", "STOPPED"}
<1>1. \E t \in Table : t.command = c /\ t.from = s /\ t.to = Target(Table, s, c)
  BY DEF Accepts, Target
<1>2. CASE app = "monitorApplication"
  <2>1. Table = MonitorTable
    BY <1>2 DEF Table
  <2>. QED  BY <1>1, <1>2, <2>1 DEF MonitorTable, BaseTable, Transition
<1>3. CASE app = "supervisor"
  <2>1. Table = SupervisorTable
    BY <1>3 DEF Table
  <2>. QED  BY <1>1, <1>3, <2>1 DEF SupervisorTable, BaseTable, Transition
<1>4. CASE app = "lsc"
  <2>1. Table = LscTable
    BY <1>4 DEF Table
  <2>. QED  BY <1>1, <1>4, <2>1 DEF LscTable, Transition
<1>. QED  BY <1>2, <1>3, <1>4

\* The application does not change its kind, so its table stays.
LEMMA SameTable == app' = app => Table' = Table
BY DEF Table, MonitorTable, SupervisorTable, LscTable, BaseTable, Transition

-----------------------------------------------------------------------------
(***************************************************************************)
(* The inductive invariant.                                                *)
(***************************************************************************)
LEMMA InvInit == Init => MonitorInv
BY DEF Init, MonitorInv, TypeOK, ThreadInv, HandlerInv, PluginInv, ReadsLoadedPlugins,
       Sources, NoPublisher

\* The steps of the web thread.
LEMMA TransitionKeepsInv == MonitorInv /\ Transitions => MonitorInv'
<1>. SUFFICES ASSUME MonitorInv, Transitions PROVE MonitorInv'
  OBVIOUS
<1>. USE DEF MonitorInv, TypeOK, ThreadInv, HandlerInv, PluginInv, ReadsLoadedPlugins,
             Sources, worker, sockets
<1>1. app' = app /\ Table' = Table
  BY SameTable DEF Transitions, Simple, Configure, StartBegin, StartInVain, HaltAtOnce,
                   StatusBegin, StopBegin, Stopped
<1>2. ASSUME NEW c \in {"CREATE", "OPEN", "CLOSE"}, Simple(c) PROVE MonitorInv'
  <2>1. Accepts(Table, state, c) /\ state' = Target(Table, state, c) /\ ctl = "idle"
    BY <1>2 DEF Simple, Takes, Moves
  <2>. QED  BY <1>1, <1>2, <2>1, TableFacts DEF Simple
<1>3. CASE Configure
  <2>1. Accepts(Table, state, "CONFIGURE") /\ ctl = "idle"
    BY <1>3 DEF Configure, Takes
  <2>2. /\ state \in {"VOID", "CREATED"} /\ app # "monitorApplication"
        /\ Target(Table, state, "CONFIGURE") = "CONFIGURED"
    BY <2>1, TableFacts
  <2>. QED  BY <1>1, <1>3, <2>1, <2>2 DEF Configure, Moves, Binds, BindThrows, NoPort
<1>4. CASE StartBegin
  <2>1. Accepts(Table, state, "START") /\ ctl = "idle"
    BY <1>4 DEF StartBegin, Takes
  <2>2. state \in {"STOPPED", "CONFIGURED"}
    BY <2>1, TableFacts
  <2>. QED  BY <1>1, <1>4, <2>1, <2>2 DEF StartBegin, Binds, NoPort
<1>5. CASE StartInVain
  <2>1. Accepts(Table, state, "START") /\ ctl = "idle"
    BY <1>5 DEF StartInVain, Takes
  <2>2. state \in {"STOPPED", "CONFIGURED"} /\ Target(Table, state, "START") = "RUNNING"
    BY <2>1, TableFacts
  <2>. QED  BY <1>1, <1>5, <2>1, <2>2 DEF StartInVain, Moves, BindThrows
<1>6. CASE HaltAtOnce
  <2>1. Accepts(Table, state, "HALT") /\ ctl = "idle"
    BY <1>6 DEF HaltAtOnce, Takes
  <2>2. state \in {"RUNNING", "CONFIGURED"} /\ Target(Table, state, "HALT") = "CREATED"
    BY <2>1, TableFacts
  <2>. QED  BY <1>1, <1>6, <2>1, <2>2 DEF HaltAtOnce, Stopped, Moves
<1>7. CASE StatusBegin
  BY <1>1, <1>7 DEF StatusBegin
<1>8. ASSUME NEW c \in {"STOP", "HALT"}, StopBegin(c) PROVE MonitorInv'
  <2>1. Accepts(Table, state, c) /\ ctl = "idle"
    BY <1>8 DEF StopBegin, Takes
  <2>2. state = "RUNNING"
    BY <1>8, <2>1, TableFacts DEF StopBegin
  <2>. QED  BY <1>1, <1>8, <2>1, <2>2 DEF StopBegin
<1>. QED  BY <1>2, <1>3, <1>4, <1>5, <1>6, <1>7, <1>8 DEF Transitions

\* The steps of a handler under way.
LEMMA HandlerKeepsInv == MonitorInv /\ Handler => MonitorInv'
<1>. SUFFICES ASSUME MonitorInv, Handler PROVE MonitorInv'
  OBVIOUS
<1>. USE DEF MonitorInv, TypeOK, ThreadInv, HandlerInv, PluginInv, ReadsLoadedPlugins,
             Sources, worker, sockets
<1>1. app' = app /\ Table' = Table
  BY SameTable DEF Handler, StartEnd, StatusNext, StopEnd, Stopped
<1>2. CASE StartEnd
  <2>1. Accepts(Table, state, "START")
    BY <1>2 DEF StartEnd
  <2>2. state \in {"STOPPED", "CONFIGURED"} /\ Target(Table, state, "START") = "RUNNING"
    BY <2>1, TableFacts
  <2>. QED  BY <1>1, <1>2, <2>2 DEF StartEnd, Moves
<1>3. CASE StatusNext
  <2>1. CASE asked = {} /\ ctl' = "idle" /\ UNCHANGED asked
    BY <1>1, <1>3, <2>1 DEF StatusNext
  <2>2. CASE UNCHANGED ctl /\ asked' \subseteq asked
    BY <1>1, <1>3, <2>2 DEF StatusNext
  <2>. QED  BY <1>3, <2>1, <2>2 DEF StatusNext
<1>4. CASE StopEnd("STOP")
  <2>1. Accepts(Table, state, "STOP") /\ thread = none /\ ~running
    BY <1>4 DEF StopEnd
  <2>2. /\ Target(Table, state, "STOP") \in {"STOPPED", "CONFIGURED"}
        /\ app # "monitorApplication" => Target(Table, state, "STOP") = "CONFIGURED"
    BY <2>1, TableFacts
  <2>. QED  BY <1>1, <1>4, <2>1, <2>2 DEF StopEnd, Stopped, Moves
<1>5. CASE StopEnd("HALT")
  <2>1. Accepts(Table, state, "HALT") /\ thread = none /\ ~running
    BY <1>5 DEF StopEnd
  <2>2. Target(Table, state, "HALT") = "CREATED"
    BY <2>1, TableFacts
  <2>. QED  BY <1>1, <1>5, <2>1, <2>2 DEF StopEnd, Stopped, Moves
<1>. QED  BY <1>2, <1>3, <1>4, <1>5 DEF Handler

\* The steps of the monitoring thread, and the end of the process.
LEMMA ThreadKeepsInv == MonitorInv /\ (Monitoring \/ Dies) => MonitorInv'
<1>. SUFFICES ASSUME MonitorInv, Monitoring \/ Dies PROVE MonitorInv'
  OBVIOUS
<1>. USE DEF MonitorInv, TypeOK, ThreadInv, HandlerInv, PluginInv, ReadsLoadedPlugins,
             Sources, Shared, sockets
<1>1. app' = app /\ Table' = Table
  BY SameTable DEF Monitoring, Check, Read, ReadDone, RoundDone, Sleep, Dies
<1>2. CASE Check
  BY <1>1, <1>2 DEF Check, Ends
<1>3. ASSUME NEW x \in Plugins \cup Self, Read(x) PROVE MonitorInv'
  BY <1>1, <1>3 DEF Read
<1>4. CASE ReadDone
  BY <1>1, <1>4 DEF ReadDone
<1>5. CASE RoundDone
  BY <1>1, <1>5 DEF RoundDone, Ends
<1>6. CASE Sleep
  BY <1>1, <1>6 DEF Sleep
<1>7. CASE Dies
  BY <1>1, <1>7 DEF Dies, Fresh, NoPublisher
<1>. QED  BY <1>2, <1>3, <1>4, <1>5, <1>6, <1>7 DEF Monitoring

LEMMA NextKeepsInv == MonitorInv /\ [Next]_vars => MonitorInv'
<1>. SUFFICES ASSUME MonitorInv, [Next]_vars PROVE MonitorInv'
  OBVIOUS
<1>1. CASE Next
  BY <1>1, TransitionKeepsInv, HandlerKeepsInv, ThreadKeepsInv DEF Next
<1>2. CASE UNCHANGED vars
  <2>1. Table' = Table
    BY <1>2, SameTable DEF vars
  <2>. QED
    BY <1>2, <2>1 DEF vars, MonitorInv, TypeOK, ThreadInv, HandlerInv, PluginInv,
                      ReadsLoadedPlugins, Sources
<1>. QED  BY <1>1, <1>2

\* The invariant holds of every behaviour of an application, whatever its
\* kind and its plugins.
THEOREM MonitorInvariant == Spec => []MonitorInv
BY InvInit, NextKeepsInv, PTL DEF Spec

-----------------------------------------------------------------------------
(***************************************************************************)
(* What follows.                                                           *)
(***************************************************************************)

\* START finds no thread of an earlier run, although nothing but join_all in
\* stop() keeps the threads of two runs apart.
THEOREM OneThreadHolds == Spec => []OneThread
<1>1. MonitorInv => OneThread
  <2>. SUFFICES ASSUME MonitorInv, Takes("START") PROVE thread = none
    BY DEF OneThread
  <2>1. state # "RUNNING" /\ ctl = "idle"
    BY TableFacts DEF Takes, MonitorInv, TypeOK
  <2>. QED  BY <2>1 DEF MonitorInv, ThreadInv
<1>. QED  BY <1>1, MonitorInvariant, PTL

\* The monitoring thread never reads a plugin that HALT has removed.
THEOREM ReadsLoadedPluginsHolds == Spec => []ReadsLoadedPlugins
<1>1. MonitorInv => ReadsLoadedPlugins
  BY DEF MonitorInv
<1>. QED  BY <1>1, MonitorInvariant, PTL
=============================================================================
