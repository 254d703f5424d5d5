---------------------------- MODULE FsmJobProofs ----------------------------
(***************************************************************************)
(* Theorems about FsmJob, for every configuration and every number of      *)
(* process ids, whatever dies and whatever gets the ids of the dead: with  *)
(* signals that kill (Nominal) the map of the job control holds the id of  *)
(* every process it has started.  The entry may be another job's: what     *)
(* keeps a job from running twice is that a job that runs without an entry *)
(* of its own is never started again (HostInv).                            *)
(***************************************************************************)
EXTENDS FsmJob, TLAPS

USE FsmJobAssumption DEF FsmJobAssumption, none, Other

-----------------------------------------------------------------------------
(***************************************************************************)
(* The transition table.                                                   *)
(***************************************************************************)

\* When a transition of the table is accepted and where it goes.
LEMMA TableFacts ==
  ASSUME NEW s
  PROVE  /\ Accepts(Table, s, "INITIALISE") =>
              s = "CREATED" /\ Target(Table, s, "INITIALISE") = "INITIALISED"
         /\ Accepts(Table, s, "REGISTRATION") =>
              s = "CREATED" /\ Target(Table, s, "REGISTRATION") = "REGISTERING"
         /\ Accepts(Table, s, "REGISTERJOB") =>
              s = "REGISTERING" /\ Target(Table, s, "REGISTERJOB") = "REGISTERING"
         /\ Accepts(Table, s, "ENDREGISTRATION") =>
              s = "REGISTERING" /\ Target(Table, s, "ENDREGISTRATION") = "INITIALISED"
         /\ Accepts(Table, s, "START") =>
              s = "INITIALISED" /\ Target(Table, s, "START") = "RUNNING"
         /\ Accepts(Table, s, "KILL") =>
              s = "RUNNING" /\ Target(Table, s, "KILL") = "INITIALISED"
         /\ Accepts(Table, s, "DESTROY") =>
              s = "INITIALISED" /\ Target(Table, s, "DESTROY") = "CREATED"
<1>1. \A t \in Table :
        \/ t.command = "INITIALISE" /\ t.from = "CREATED" /\ t.to = "INITIALISED"
        \/ t.command = "REGISTRATION" /\ t.from = "CREATED" /\ t.to = "REGISTERING"
        \/ t.command = "REGISTERJOB" /\ t.from = "REGISTERING" /\ t.to = "REGISTERING"
        \/ t.command = "ENDREGISTRATION" /\ t.from = "REGISTERING" /\ t.to = "INITIALISED"
        \/ t.command = "START" /\ t.from = "INITIALISED" /\ t.to = "RUNNING"
        \/ t.command = "KILL" /\ t.from = "RUNNING" /\ t.to = "INITIALISED"
        \/ t.command = "DESTROY" /\ t.from = "INITIALISED" /\ t.to = "CREATED"
  BY DEF Table, Transition
<1>2. ASSUME NEW c, Accepts(Table, s, c)
      PROVE  \E t \in Table : t.command = c /\ t.from = s /\ t.to = Target(Table, s, c)
  BY <1>2 DEF Accepts, Target
<1>. QED  BY <1>1, <1>2

-----------------------------------------------------------------------------
(***************************************************************************)
(* fork and kill on a map m and the processes r, with the jobs s that      *)
(* START has not come to.                                                  *)
(***************************************************************************)

\* HostInv and EntryInv, with the types, StillTracked and RunsOnce.
Tracks(m, r, s) ==
  /\ m \in [Keys -> Jobs \cup {none}]
  /\ r \in [Pids -> Jobs \cup {none, Other}]
  /\ s \subseteq Jobs
  /\ \A p \in Pids : r[p] \in Jobs =>
       /\ m[p] # none
       /\ m[p] = r[p] \/ (r[p] \notin s /\ \A k \in Keys : m[k] # r[p])
  /\ \A p, q \in Pids : r[p] \in Jobs /\ r[p] = r[q] => p = q
  /\ \A k, l \in Keys : m[k] # none /\ m[k] = m[l] => k = l
  /\ \A k \in Keys : m[k] \notin s

LEMMA TracksNow ==
  TypeOK /\ HostInv /\ StillTracked /\ RunsOnce /\ EntryInv => Tracks(processMap, proc, toStart)
BY DEF TypeOK, HostInv, StillTracked, RunsOnce, EntryInv, Tracks

LEMMA FailedIsNoPid == Failed \notin Pids /\ Failed \in Keys /\ Pids \subseteq Keys
BY DEF Failed, Keys

\* A signal that kills, and the entry with it: the job of the entry runs no more.
LEMMA KillKeeps ==
  ASSUME Tracks(processMap, proc, toStart), NEW k \in Keys, processMap[k] # none,
         NEW r \in After(k, "KILL")
  PROVE  /\ Tracks([processMap EXCEPT ![k] = none], r, toStart)
         /\ \A p \in Pids : r[p] # processMap[k]
         /\ \A l \in Keys : [processMap EXCEPT ![k] = none][l] # processMap[k]
<1>. DEFINE m == [processMap EXCEPT ![k] = none]
<1>0. processMap[k] \in Jobs /\ none \notin toStart
  BY DEF Tracks
<1>1. /\ m \in [Keys -> Jobs \cup {none}] /\ \A l \in Keys : m[l] = IF l = k THEN none ELSE processMap[l]
  BY DEF Tracks
<1>. HIDE DEF m
<1>2. \A l \in Keys : m[l] # processMap[k]
  BY <1>0, <1>1 DEF Tracks
<1>3. CASE k = Failed
  <2>1. r = [p \in Pids |-> none]
    BY <1>3 DEF After
  <2>. QED  BY <1>0, <1>1, <1>2, <2>1, FailedIsNoPid DEF Tracks, m
<1>4. CASE k # Failed
  <2>1. k \in Pids /\ r = [proc EXCEPT ![k] = none]
    BY <1>4 DEF Keys, After
  <2>2. \A p \in Pids : r[p] = IF p = k THEN none ELSE proc[p]
    BY <2>1 DEF Tracks
  <2>3. \A p \in Pids : r[p] # processMap[k]
    BY <1>0, <2>1, <2>2, FailedIsNoPid DEF Tracks
  <2>4. r \in [Pids -> Jobs \cup {none, Other}]
    BY <2>1 DEF Tracks
  <2>5. Tracks(m, r, toStart)
    BY <1>0, <1>1, <2>2, <2>4, FailedIsNoPid DEF Tracks
  <2>. QED  BY <1>2, <2>3, <2>5 DEF m
<1>. QED  BY <1>3, <1>4

\* A fork of a job that has no entry and does not run.
LEMMA ForkKeeps ==
  ASSUME NEW m, NEW r, NEW s, Tracks(m, r, s), NEW j \in Jobs,
         \A k \in Keys : m[k] # j, \A p \in Pids : r[p] # j, Forks(j, r, m)
  PROVE  Tracks(processMap', proc', s \ {j})
<1>1. CASE \E p \in Free(r) :
             /\ proc' = [r EXCEPT ![p] = j]
             /\ processMap' = Recording(m, p, j)
  <2>1. PICK p \in Free(r) : /\ proc' = [r EXCEPT ![p] = j]
                             /\ processMap' = Recording(m, p, j)
    BY <1>1
  <2>2. p \in Pids /\ p \in Keys /\ r[p] = none
    BY FailedIsNoPid DEF Free
  <2>3. proc' \in [Pids -> Jobs \cup {none, Other}] /\ \A q \in Pids : proc'[q] = IF q = p THEN j ELSE r[q]
    BY <2>1, <2>2 DEF Tracks
  <2>4. CASE m[p] = none
    <3>1. /\ processMap' \in [Keys -> Jobs \cup {none}]
          /\ \A k \in Keys : processMap'[k] = IF k = p THEN j ELSE m[k]
      BY <2>1, <2>2, <2>4 DEF Recording, Tracks
    <3>. QED  BY <2>2, <2>3, <2>4, <3>1, FailedIsNoPid DEF Tracks
  <2>5. CASE m[p] # none
    <3>1. processMap' = m
      BY <2>1, <2>5 DEF Recording
    <3>. QED  BY <2>2, <2>3, <2>5, <3>1, FailedIsNoPid DEF Tracks
  <2>. QED  BY <2>4, <2>5
<1>2. CASE proc' = r /\ processMap' = Recording(m, Failed, j)
  <2>1. CASE m[Failed] = none
    <3>1. /\ processMap' \in [Keys -> Jobs \cup {none}]
          /\ \A k \in Keys : processMap'[k] = IF k = Failed THEN j ELSE m[k]
      BY <1>2, <2>1, FailedIsNoPid DEF Recording, Tracks
    <3>. QED  BY <1>2, <2>1, <3>1, FailedIsNoPid DEF Tracks
  <2>2. CASE m[Failed] # none
    <3>1. processMap' = m
      BY <1>2, <2>2 DEF Recording
    <3>. QED  BY <1>2, <3>1 DEF Tracks
  <2>. QED  BY <2>1, <2>2
<1>. QED  BY <1>1, <1>2 DEF Forks

-----------------------------------------------------------------------------
(***************************************************************************)
(* The inductive invariant.                                                *)
(***************************************************************************)
LEMMA InvInit == Init => JobInv
BY FailedIsNoPid DEF Init, JobInv, TypeOK, ListInv, HostInv, EntryInv, Empty, Recorded,
   MapEmptyOutsideRun, StillTracked, RunsOnce

\* JobInv from its parts, in the next state.
LEMMA InvNext ==
  ASSUME Tracks(processMap', proc', toStart'),
         state' \in {"CREATED", "REGISTERING", "INITIALISED", "RUNNING"},
         conf' \subseteq Jobs, toKill' \subseteq Keys,
         busy' \in {none, "START", "KILL"},
         ListInv', MapEmptyOutsideRun'
  PROVE  JobInv'
BY DEF JobInv, Tracks, TypeOK, HostInv, EntryInv, StillTracked, RunsOnce

\* No entry: no job of the configuration runs.
LEMMA InitialiseInv ==
  ASSUME JobInv, Initialise \/ RegisterFile PROVE JobInv'
<1>1. state # "RUNNING" /\ busy = none
  BY TableFacts DEF Initialise, RegisterFile, Takes
<1>2. processMap = Empty
  BY <1>1 DEF JobInv, TypeOK, MapEmptyOutsideRun, Recorded, Empty
<1>3. UNCHANGED <<processMap, proc, lists>> /\ conf' \subseteq Jobs
  BY <1>2 DEF Initialise, RegisterFile
<1>4. state' = "INITIALISED"
  BY TableFacts DEF Initialise, RegisterFile, Takes, Moves
<1>5. Tracks(processMap', proc', toStart')
  BY <1>3, TracksNow DEF JobInv, lists
<1>. QED
  BY <1>1, <1>3, <1>4, <1>5, InvNext DEF JobInv, TypeOK, ListInv, EntryInv, MapEmptyOutsideRun, Recorded, lists

\* The transitions that leave the map alone.
LEMMA ConfigurationInv ==
  ASSUME JobInv, Registration \/ EndRegistration \/ Destroy \/ \E j \in Jobs : RegisterJob(j)
  PROVE  JobInv'
<1>1. /\ busy = none /\ state # "RUNNING" /\ UNCHANGED <<processMap, proc, lists>>
      /\ state' \in {"CREATED", "REGISTERING", "INITIALISED"}
      /\ conf' \subseteq Jobs
  BY TableFacts DEF JobInv, TypeOK, Registration, EndRegistration, Destroy, RegisterJob, Takes, Moves
<1>2. Tracks(processMap', proc', toStart')
  BY <1>1, TracksNow DEF JobInv, lists
<1>. QED
  BY <1>1, <1>2, InvNext DEF JobInv, TypeOK, ListInv, EntryInv, MapEmptyOutsideRun, Recorded, lists

LEMMA StartInv ==
  ASSUME JobInv, StartBegin \/ StartEnd \/ \E j \in Jobs : StartNext(j)
  PROVE  JobInv'
<1>. USE DEF JobInv, TypeOK
<1>1. CASE StartBegin
  <2>1. busy = none /\ state = "INITIALISED"
    BY <1>1, TableFacts DEF StartBegin, Takes
  <2>2. \A k \in Keys : processMap[k] = none
    BY <2>1 DEF MapEmptyOutsideRun, Recorded
  <2>3. /\ toStart' = conf /\ busy' = "START"
        /\ UNCHANGED <<state, conf, toKill, processMap, proc>>
    BY <1>1 DEF StartBegin
  <2>4. Tracks(processMap', proc', toStart')
    BY <2>2, <2>3, FailedIsNoPid DEF StillTracked, RunsOnce, Tracks
  <2>. QED
    BY <2>1, <2>3, <2>4, InvNext DEF ListInv, MapEmptyOutsideRun
<1>2. CASE StartEnd
  <2>1. state' = "RUNNING"
    <3>1. Accepts(Table, "INITIALISED", "START")
      BY DEF Accepts, Table, Transition
    <3>. QED  BY <1>2, <3>1, TableFacts DEF StartEnd, ListInv, Moves
  <2>2. Tracks(processMap', proc', toStart')
    BY <1>2, TracksNow DEF StartEnd
  <2>. QED
    BY <1>2, <2>1, <2>2, InvNext DEF StartEnd, ListInv, MapEmptyOutsideRun
<1>3. ASSUME NEW j \in Jobs, StartNext(j) PROVE JobInv'
  <2>1. /\ j \in toStart /\ busy = "START" /\ toStart' = toStart \ {j}
        /\ Forks(j, proc, processMap) /\ UNCHANGED <<state, conf, toKill, busy>>
    BY <1>3 DEF StartNext
  <2>2. (\A k \in Keys : processMap[k] # j) /\ \A p \in Pids : proc[p] # j
    BY <2>1, FailedIsNoPid DEF EntryInv, HostInv
  <2>3. Tracks(processMap', proc', toStart')
    BY <2>1, <2>2, TracksNow, ForkKeeps
  <2>. QED
    BY <2>1, <2>3, InvNext DEF ListInv, MapEmptyOutsideRun
<1>. QED  BY <1>1, <1>2, <1>3

LEMMA KillInv ==
  ASSUME JobInv, KillBegin \/ KillNext \/ KillEnd PROVE JobInv'
<1>. USE DEF JobInv, TypeOK
<1>1. CASE KillBegin
  <2>1. busy = none /\ state = "RUNNING"
    BY <1>1, TableFacts DEF KillBegin, Takes
  <2>2. Tracks(processMap', proc', toStart')
    BY <1>1, TracksNow DEF KillBegin
  <2>. QED
    BY <1>1, <2>1, <2>2, InvNext DEF KillBegin, ListInv, MapEmptyOutsideRun, Recorded
<1>2. CASE KillNext
  <2>1. PICK k \in toKill : Kills(k, "KILL") /\ toKill' = toKill \ {k}
    BY <1>2 DEF KillNext
  <2>2. k \in Keys /\ processMap[k] # none
    BY <1>2, <2>1 DEF KillNext, ListInv, Recorded
  <2>3. processMap' = [processMap EXCEPT ![k] = none] /\ proc' \in After(k, "KILL")
    BY <2>1, <2>2 DEF Kills
  <2>4. Tracks(processMap', proc', toStart')
    BY <1>2, <2>2, <2>3, TracksNow, KillKeeps DEF KillNext
  <2>5. Recorded' = Recorded \ {k}
    BY <2>3 DEF Recorded
  <2>. QED
    BY <1>2, <2>1, <2>4, <2>5, InvNext DEF KillNext, ListInv, MapEmptyOutsideRun
<1>3. CASE KillEnd
  <2>1. state' = "INITIALISED"
    <3>1. Accepts(Table, "RUNNING", "KILL")
      BY DEF Accepts, Table, Transition
    <3>. QED  BY <1>3, <3>1, TableFacts DEF KillEnd, ListInv, Moves
  <2>2. Recorded' = {}
    BY <1>3 DEF KillEnd, ListInv, Recorded
  <2>3. Tracks(processMap', proc', toStart')
    BY <1>3, TracksNow DEF KillEnd
  <2>. QED
    BY <1>3, <2>1, <2>2, <2>3, InvNext DEF KillEnd, ListInv, MapEmptyOutsideRun
<1>. QED  BY <1>1, <1>2, <1>3

\* The commands that kill.
LEMMA KillCommandInv ==
  ASSUME JobInv, NEW k \in Keys, busy = none, Kills(k, "KILL"), UNCHANGED <<state, conf, lists>>
  PROVE  JobInv'
<1>. USE DEF JobInv, TypeOK
<1>1. processMap' = [processMap EXCEPT ![k] = none] /\ toStart' = toStart
  BY DEF Kills, lists
<1>2. Tracks(processMap', proc', toStart')
  <2>1. CASE processMap[k] # none
    <3>1. proc' \in After(k, "KILL")
      BY <2>1 DEF Kills
    <3>. QED  BY <1>1, <2>1, <3>1, TracksNow, KillKeeps
  <2>2. CASE processMap[k] = none
    <3>1. processMap' = processMap /\ proc' = proc
      BY <1>1, <2>2 DEF Kills
    <3>. QED  BY <1>1, <3>1, TracksNow
  <2>. QED  BY <2>1, <2>2
<1>. QED
  BY <1>1, <1>2, InvNext DEF ListInv, MapEmptyOutsideRun, Recorded, lists

LEMMA RestartInv ==
  ASSUME JobInv, NEW name, NEW pid, RestartJob(name, pid, "KILL")
  PROVE  JobInv'
<1>. USE DEF JobInv, TypeOK
<1>0. PICK k \in Picked(name, pid) :
        \E r \in After(k, "KILL") : Forks(processMap[k], r, [processMap EXCEPT ![k] = none])
  BY DEF RestartJob
<1>1. PICK r \in After(k, "KILL") : Forks(processMap[k], r, [processMap EXCEPT ![k] = none])
  BY <1>0
<1>2. k \in Keys /\ processMap[k] # none /\ processMap[k] \in Jobs
  BY DEF Picked, Recorded
<1>. DEFINE m == [processMap EXCEPT ![k] = none]
<1>3. /\ Tracks(m, r, toStart) /\ (\A l \in Keys : m[l] # processMap[k])
      /\ \A p \in Pids : r[p] # processMap[k]
  BY <1>2, TracksNow, KillKeeps
<1>4. busy = none /\ state = "RUNNING" /\ UNCHANGED <<state, conf, lists>>
  <2>1. busy = none /\ Recorded # {} /\ UNCHANGED <<state, conf, lists>>
    BY <1>2 DEF RestartJob, Recorded
  <2>. QED  BY <2>1 DEF MapEmptyOutsideRun
<1>5. toStart = {} /\ toStart' = {}
  BY <1>4 DEF ListInv, lists
<1>6. Tracks(processMap', proc', toStart \ {processMap[k]})
  BY <1>1, <1>2, <1>3, ForkKeeps
<1>7. Tracks(processMap', proc', toStart')
  BY <1>5, <1>6 DEF Tracks
<1>. QED
  BY <1>4, <1>7, InvNext DEF ListInv, MapEmptyOutsideRun, lists

\* The rest of the host.
LEMMA HostStepInv ==
  ASSUME JobInv, OtherStarts \/ \E p \in Pids : Dies(p) PROVE JobInv'
<1>. USE DEF JobInv, TypeOK
<1>1. UNCHANGED <<state, conf, lists, processMap, toStart>>
  BY DEF OtherStarts, Dies, lists
<1>2. Tracks(processMap', proc', toStart')
  <2>1. Tracks(processMap, proc, toStart)
    BY TracksNow
  <2>2. CASE OtherStarts
    BY <1>1, <2>1, <2>2, FailedIsNoPid DEF OtherStarts, Free, Tracks
  <2>3. ASSUME NEW p \in Pids, Dies(p) PROVE Tracks(processMap', proc', toStart')
    BY <1>1, <2>1, <2>3, FailedIsNoPid DEF Dies, Tracks
  <2>. QED  BY <2>2, <2>3
<1>. QED
  BY <1>1, <1>2, InvNext DEF ListInv, MapEmptyOutsideRun, Recorded, lists

LEMMA InvStep ==
  ASSUME Nominal PROVE JobInv /\ [Next]_vars => JobInv'
<1>. SUFFICES ASSUME JobInv, [Next]_vars PROVE JobInv'
  OBVIOUS
<1>1. \A signal \in Signals : signal = "KILL"
  BY DEF Nominal
<1>2. CASE JobTransition
  BY <1>2, InitialiseInv, ConfigurationInv, StartInv, KillInv DEF JobTransition
<1>3. CASE JobCommand
  <2>1. CASE RegisterFile
    BY <2>1, InitialiseInv
  <2>2. ASSUME NEW signal \in Signals, NEW pid \in Keys, KillPid(pid, signal) PROVE JobInv'
    BY <1>1, <2>2, KillCommandInv, FailedIsNoPid DEF KillPid
  <2>3. ASSUME NEW signal \in Signals, NEW name, KillName(name, signal) PROVE JobInv'
    <3>1. PICK k \in Recorded : Kills(k, signal)
      BY <2>3 DEF KillName
    <3>. QED  BY <1>1, <2>3, <3>1, KillCommandInv DEF KillName, Recorded
  <2>4. ASSUME NEW signal \in Signals, NEW name, NEW pid, RestartJob(name, pid, signal)
        PROVE  JobInv'
    BY <1>1, <2>4, RestartInv
  <2>. QED  BY <1>3, <2>1, <2>2, <2>3, <2>4 DEF JobCommand
<1>4. CASE OtherStarts \/ \E p \in Pids : Dies(p)
  BY <1>1, <1>4, HostStepInv
<1>5. CASE UNCHANGED vars
  BY <1>5 DEF vars, lists, JobInv, TypeOK, ListInv, HostInv, EntryInv, MapEmptyOutsideRun, StillTracked, RunsOnce, Recorded
<1>. QED  BY <1>2, <1>3, <1>4, <1>5 DEF Next

-----------------------------------------------------------------------------
(***************************************************************************)
(* The theorems.                                                           *)
(***************************************************************************)

\* The invariant of the job control (fsmjob.cc: m_processMap and the host).
THEOREM JobInvariant ==
  ASSUME Nominal PROVE Spec => []JobInv
<1>1. Init => JobInv
  BY InvInit
<1>2. JobInv /\ [Next]_vars => JobInv'
  BY InvStep
<1>. QED  BY <1>1, <1>2, PTL DEF Spec

\* Outside a run the map that INITIALISE, REGISTERFILE and START clear or take
\* for empty is empty.
THEOREM MapEmptyHolds ==
  ASSUME Nominal PROVE Spec => []MapEmptyOutsideRun
<1>1. JobInv => MapEmptyOutsideRun
  BY DEF JobInv
<1>. QED  BY <1>1, JobInvariant, PTL

\* KILL will find every process that START or RESTARTJOB has forked, although
\* the ids of dead ones are given out again.
THEOREM StillTrackedHolds ==
  ASSUME Nominal PROVE Spec => []StillTracked
<1>1. JobInv => StillTracked
  BY DEF JobInv
<1>. QED  BY <1>1, JobInvariant, PTL

\* No job runs twice.
THEOREM RunsOnceHolds ==
  ASSUME Nominal PROVE Spec => []RunsOnce
<1>1. JobInv => RunsOnce
  BY DEF JobInv
<1>. QED  BY <1>1, JobInvariant, PTL

-----------------------------------------------------------------------------
(***************************************************************************)
(* Strangers.                                                              *)
(***************************************************************************)

\* What a stranger has to fear: that it has the id of a job that has died.
InPlaceOfTheDead(p) == processMap[p] # none /\ \A q \in Pids : proc[q] # processMap[p]

\* A kill of an entry that is not the failed fork's.
LEMMA KillSpares ==
  ASSUME JobInv, Failed \notin Recorded, NEW k \in Keys, NEW r,
         r \in (IF processMap[k] = none THEN {proc} ELSE After(k, "KILL")),
         NEW p \in Pids, proc[p] = Other, ~InPlaceOfTheDead(p)
  PROVE  r[p] = Other
<1>. USE DEF JobInv, TypeOK
<1>1. CASE processMap[k] = none
  BY <1>1
<1>2. CASE processMap[k] # none
  <2>1. k # Failed /\ k \in Pids /\ processMap[k] \in Jobs
    BY <1>2 DEF Recorded, Keys
  <2>2. k # p
    <3>. SUFFICES ASSUME k = p PROVE FALSE
      OBVIOUS
    <3>1. PICK q \in Pids : proc[q] = processMap[k]
      BY <1>2 DEF InPlaceOfTheDead
    <3>2. processMap[q] = processMap[k] /\ q \in Keys
      BY <2>1, <3>1, FailedIsNoPid DEF HostInv
    <3>3. q = k
      BY <1>2, <3>2 DEF EntryInv
    <3>. QED  BY <2>1, <3>1, <3>3
  <2>. QED  BY <1>2, <2>1, <2>2 DEF After
<1>. QED  BY <1>1, <1>2

LEMMA ForkSpares ==
  ASSUME NEW j, NEW r \in [Pids -> Jobs \cup {none, Other}], NEW m, Forks(j, r, m),
         NEW p \in Pids, r[p] = Other
  PROVE  proc'[p] = Other
BY DEF Forks, Free

LEMMA StrangersStep ==
  ASSUME Nominal, JobInv, [Next]_vars, NEW p \in Pids, proc[p] = Other,
         Failed \notin Recorded, ~InPlaceOfTheDead(p)
  PROVE  proc'[p] = Other
<1>. USE DEF JobInv, TypeOK
<1>1. \A signal \in Signals : signal = "KILL"
  BY DEF Nominal
<1>2. ASSUME NEW k \in Keys, Kills(k, "KILL") PROVE proc'[p] = Other
  BY <1>2, KillSpares DEF Kills
<1>3. CASE JobTransition
  <2>1. CASE KillNext
    BY <1>2, <2>1 DEF KillNext
  <2>2. ASSUME NEW j \in Jobs, StartNext(j) PROVE proc'[p] = Other
    BY <2>2, ForkSpares DEF StartNext
  <2>3. CASE \/ Initialise \/ Registration \/ EndRegistration \/ Destroy
             \/ StartBegin \/ StartEnd \/ KillBegin \/ KillEnd
             \/ \E j \in Jobs : RegisterJob(j)
    BY <2>3 DEF Initialise, Registration, EndRegistration, Destroy, StartBegin,
       StartEnd, KillBegin, KillEnd, RegisterJob
  <2>. QED  BY <1>3, <2>1, <2>2, <2>3 DEF JobTransition
<1>4. CASE JobCommand
  <2>1. CASE RegisterFile
    BY <2>1 DEF RegisterFile
  <2>2. ASSUME NEW signal \in Signals, NEW pid \in Keys, KillPid(pid, signal) PROVE proc'[p] = Other
    BY <1>1, <1>2, <2>2 DEF KillPid
  <2>3. ASSUME NEW signal \in Signals, NEW name, KillName(name, signal) PROVE proc'[p] = Other
    BY <1>1, <1>2, <2>3 DEF KillName, Recorded
  <2>4. ASSUME NEW signal \in Signals, NEW name, NEW pid, RestartJob(name, pid, signal)
        PROVE  proc'[p] = Other
    <3>0. PICK k \in Picked(name, pid) :
            \E r \in After(k, "KILL") : Forks(processMap[k], r, [processMap EXCEPT ![k] = none])
      BY <1>1, <2>4 DEF RestartJob
    <3>1. PICK r \in After(k, "KILL") : Forks(processMap[k], r, [processMap EXCEPT ![k] = none])
      BY <3>0
    <3>2. k \in Keys /\ processMap[k] # none
      BY DEF Picked, Recorded
    <3>3. r \in [Pids -> Jobs \cup {none, Other}]
      BY <3>2, TracksNow, KillKeeps DEF Tracks
    <3>4. r[p] = Other
      BY <3>2, KillSpares
    <3>. QED  BY <3>1, <3>3, <3>4, ForkSpares
  <2>. QED  BY <1>4, <2>1, <2>2, <2>3, <2>4 DEF JobCommand
<1>5. CASE OtherStarts
  BY <1>5 DEF OtherStarts
<1>6. ASSUME NEW q \in Pids, Dies(q) PROVE proc'[p] = Other
  BY <1>6 DEF Dies
<1>7. CASE UNCHANGED vars
  BY <1>7 DEF vars
<1>. QED  BY <1>3, <1>4, <1>5, <1>6, <1>7 DEF Next

\* Unless a fork has failed the job control kills a process of somebody else
\* only in place of a job that has died, although its map keeps the ids of the
\* dead and the kernel gives them out again (fsmjob.cc:390, 515).
THEOREM OnlyInPlaceOfTheDeadHolds ==
  ASSUME Nominal PROVE Spec => OnlyInPlaceOfTheDead
<1>1. JobInv /\ [Next]_vars =>
        [\A p \in Pids : proc[p] = Other /\ proc'[p] # Other =>
           \/ Failed \in Recorded
           \/ processMap[p] # none /\ \A q \in Pids : proc[q] # processMap[p]]_vars
  BY StrangersStep DEF InPlaceOfTheDead
<1>. QED  BY <1>1, JobInvariant, PTL DEF Spec, OnlyInPlaceOfTheDead
=============================================================================
