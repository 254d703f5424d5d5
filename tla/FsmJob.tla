-------------------------------- MODULE FsmJob --------------------------------
(***************************************************************************)
(* The job control of one host (src/fsmjob.cc): it forks the processes of  *)
(* the configuration, remembers them by process id and kills or restarts   *)
(* them.  One web thread runs its transitions and commands; processes die  *)
(* and are born while a START or a KILL works through its list.            *)
(*                                                                         *)
(* Children are reaped by the kernel (SIGCHLD is ignored), so the id of a  *)
(* dead one is free at once, while the map keeps it.                       *)
(***************************************************************************)
EXTENDS Fsm, Integers, FiniteSets

CONSTANTS
  Jobs,          (* entries of the configuration for this host               *)
  NameOf,        (* their NAME, several may have the same                    *)
  Pids,          (* bound: the process ids there are                         *)
  Signals,       (* "KILL", and "TERM" which a process may survive           *)
  ForkFails      (* fork may fail                                            *)

none == "none"
Other == "other"               \* a process the job control did not start
Failed == -1                   \* what fork returns when it fails
Keys == Pids \cup {Failed}

ASSUME FsmJobAssumption ==
  /\ Pids \subseteq Nat \ {0}
  /\ none \notin Jobs /\ Other \notin Jobs
  /\ Signals \subseteq {"KILL", "TERM"}
  /\ ForkFails \in BOOLEAN

VARIABLES
  state,         \* state of the job control's fsm
  conf,          \* fsmjob::m_jconf
  toStart,       \* jobs the START under way has still to fork
  toKill,        \* ids the KILL under way has still to kill
  busy,          \* the transition under way, "none" if none
  processMap,    \* fsmjob::m_processMap, by process id
  proc           \* what every process id belongs to now

vars == <<state, conf, toStart, toKill, busy, processMap, proc>>
lists == <<toStart, toKill, busy>>

TypeOK ==
  /\ state \in {"CREATED", "REGISTERING", "INITIALISED", "RUNNING"}
  /\ conf \subseteq Jobs /\ toStart \subseteq Jobs /\ toKill \subseteq Keys
  /\ busy \in {none, "START", "KILL"}
  /\ processMap \in [Keys -> Jobs \cup {none}]
  /\ proc \in [Pids -> Jobs \cup {none, Other}]

Empty == [k \in Keys |-> none]

Init ==
  /\ state = "CREATED" /\ conf = {}
  /\ toStart = {} /\ toKill = {} /\ busy = none
  /\ processMap = Empty
  /\ proc = [p \in Pids |-> none]

Table ==
  { Transition("INITIALISE", "CREATED", "INITIALISED"),
    Transition("REGISTRATION", "CREATED", "REGISTERING"),
    Transition("REGISTERJOB", "REGISTERING", "REGISTERING"),
    Transition("ENDREGISTRATION", "REGISTERING", "INITIALISED"),
    Transition("START", "INITIALISED", "RUNNING"),
    Transition("KILL", "RUNNING", "INITIALISED"),
    Transition("DESTROY", "INITIALISED", "CREATED") }

\* The transition is accepted now, and where it goes.
Takes(command) ==
  /\ busy = none /\ Accepts(Table, state, command)

Moves(command) == state' = Target(Table, state, command)

Recorded == {k \in Keys : processMap[k] # none}

\* A loop over the map, in the order of the ids, meets k first among K.
First(k, K) == \A l \in K : k <= l

-----------------------------------------------------------------------------
(***************************************************************************)
(* fork and kill.                                                          *)
(***************************************************************************)

\* The ids fork may return, given what runs: also those of dead children.
Free(running) == {p \in Pids : running[p] = none}

\* map::insert: an id that is in the map already keeps its entry.
Recording(m, k, j) == IF m[k] = none THEN [m EXCEPT ![k] = j] ELSE m

\* startProcess of job j, after running and m; the child may die at once.
Forks(j, running, m) ==
  \/ \E p \in Free(running) :
       /\ proc' = [running EXCEPT ![p] = j]
       /\ processMap' = Recording(m, p, j)
  \/ /\ ForkFails
     /\ proc' = running
     /\ processMap' = Recording(m, Failed, j)

\* What may run after kill(k, signal): a process may survive "TERM", and
\* kill(-1, ...) is for every process.
After(k, signal) ==
  IF k = Failed
    THEN {[p \in Pids |-> none]} \cup (IF signal = "KILL" THEN {} ELSE {proc})
    ELSE {[proc EXCEPT ![k] = none]} \cup (IF signal = "KILL" THEN {} ELSE {proc})

\* (variant) sends the signal without looking for the id in the map
KillsAnyone(k, signal) ==
  /\ proc' \in After(k, signal)
  /\ processMap' = [processMap EXCEPT ![k] = none]

\* killProcess: whoever has the id now, if it is in the map.
Kills(k, signal) ==
  /\ proc' \in IF processMap[k] = none THEN {proc} ELSE After(k, signal)
  /\ processMap' = [processMap EXCEPT ![k] = none]

-----------------------------------------------------------------------------
(***************************************************************************)
(* The transitions.                                                        *)
(***************************************************************************)

\* The configuration is read, or cannot be.
Initialise ==
  /\ Takes("INITIALISE") /\ Moves("INITIALISE")
  /\ conf' \in {{}, Jobs}
  /\ processMap' = Empty
  /\ UNCHANGED <<lists, proc>>

Registration ==
  /\ Takes("REGISTRATION") /\ Moves("REGISTRATION")
  /\ conf' = {}
  /\ UNCHANGED <<lists, processMap, proc>>

\* A job whose name is registered already is ignored.
RegisterJob(j) ==
  /\ Takes("REGISTERJOB") /\ Moves("REGISTERJOB")
  /\ conf' = IF \E i \in conf : NameOf[i] = NameOf[j] THEN conf ELSE conf \cup {j}
  /\ UNCHANGED <<lists, processMap, proc>>

EndRegistration ==
  /\ Takes("ENDREGISTRATION") /\ Moves("ENDREGISTRATION")
  /\ UNCHANGED <<conf, lists, processMap, proc>>

Destroy ==
  /\ Takes("DESTROY") /\ Moves("DESTROY")
  /\ conf' = {}
  /\ UNCHANGED <<lists, processMap, proc>>

StartBegin ==
  /\ Takes("START")
  /\ busy' = "START" /\ toStart' = conf
  /\ UNCHANGED <<state, conf, toKill, processMap, proc>>

StartNext(j) ==
  /\ busy = "START" /\ j \in toStart
  /\ toStart' = toStart \ {j}
  /\ Forks(j, proc, processMap)
  /\ UNCHANGED <<state, conf, toKill, busy>>

StartEnd ==
  /\ busy = "START" /\ toStart = {}
  /\ busy' = none /\ Moves("START")
  /\ UNCHANGED <<conf, toStart, toKill, processMap, proc>>

\* KILL lists the ids in the map.  The id of a failed fork comes first and is
\* no unsigned integer: reading it throws, and the fsm does not move.
KillBegin ==
  /\ Takes("KILL") /\ Failed \notin Recorded
  /\ busy' = "KILL" /\ toKill' = Recorded
  /\ UNCHANGED <<state, conf, toStart, processMap, proc>>

KillNext ==
  /\ busy = "KILL"
  /\ \E k \in toKill : First(k, toKill) /\ Kills(k, "KILL") /\ toKill' = toKill \ {k}
  /\ UNCHANGED <<state, conf, toStart, busy>>

KillEnd ==
  /\ busy = "KILL" /\ toKill = {}
  /\ busy' = none /\ Moves("KILL")
  /\ UNCHANGED <<conf, toStart, toKill, processMap, proc>>

-----------------------------------------------------------------------------
(***************************************************************************)
(* The commands, accepted in every state.                                  *)
(***************************************************************************)
Names == {NameOf[j] : j \in Jobs}

\* REGISTERFILE
RegisterFile ==
  /\ busy = none /\ state = "INITIALISED"
  /\ conf' \in {{}, Jobs}
  /\ processMap' = Empty
  /\ UNCHANGED <<state, lists, proc>>

\* KILLJOB with a process id, read as an unsigned integer: 4294967295 is the -1
\* of a failed fork.
KillPid(pid, signal) ==
  /\ busy = none
  /\ Kills(pid, signal)
  /\ UNCHANGED <<state, conf, lists>>

\* KILLJOB with a name: the first process that has it
KillName(name, signal) ==
  LET found == {k \in Recorded : NameOf[processMap[k]] = name} IN
  /\ busy = none
  /\ \E k \in found : First(k, found) /\ Kills(k, signal)
  /\ UNCHANGED <<state, conf, lists>>

\* RESTARTJOB picks the first process that has the name or the id (a name may
\* be missing, and the id may be 0 for none).
Picked(name, pid) ==
  {k \in Recorded : NameOf[processMap[k]] = name \/ k = pid}

\* (variant) starts the new process without killing the old one
RestartJobKeeps(name, pid, signal) ==
  /\ busy = none
  /\ \E k \in Picked(name, pid) :
       First(k, Picked(name, pid)) /\ Forks(processMap[k], proc, processMap)
  /\ UNCHANGED <<state, conf, lists>>

\* (variant) does not record the new process
RestartJobForgets(name, pid, signal) ==
  /\ busy = none
  /\ \E k \in Picked(name, pid) :
       /\ First(k, Picked(name, pid))
       /\ \E running \in After(k, signal), p \in Free(proc) :
         /\ proc' = [running EXCEPT ![p] = processMap[k]]
         /\ processMap' = [processMap EXCEPT ![k] = none]
  /\ UNCHANGED <<state, conf, lists>>

\* RESTARTJOB: kills it, and forks its job again.
RestartJob(name, pid, signal) ==
  /\ busy = none
  /\ \E k \in Picked(name, pid) :
       /\ First(k, Picked(name, pid))
       /\ \E running \in After(k, signal) :
            Forks(processMap[k], running, [processMap EXCEPT ![k] = none])
  /\ UNCHANGED <<state, conf, lists>>

-----------------------------------------------------------------------------
(***************************************************************************)
(* The processes of the host.                                              *)
(***************************************************************************)
Dies(p) ==
  /\ proc[p] \in Jobs
  /\ proc' = [proc EXCEPT ![p] = none]
  /\ UNCHANGED <<state, conf, lists, processMap>>

\* Some other process is started on the host.
OtherStarts ==
  /\ \E p \in Free(proc) : proc' = [proc EXCEPT ![p] = Other]
  /\ UNCHANGED <<state, conf, lists, processMap>>

-----------------------------------------------------------------------------
JobTransition ==
  \/ Initialise \/ Registration \/ EndRegistration \/ Destroy
  \/ StartBegin \/ StartEnd \/ KillBegin \/ KillNext \/ KillEnd
  \/ \E j \in Jobs : RegisterJob(j) \/ StartNext(j)

JobCommand ==
  \/ RegisterFile
  \/ \E signal \in Signals :
       \/ \E pid \in Keys : KillPid(pid, signal)
       \/ \E name \in Names : KillName(name, signal)
       \/ \E name \in Names \cup {none}, pid \in Keys \cup {0} : RestartJob(name, pid, signal)

Next ==
  \/ JobTransition \/ JobCommand \/ OtherStarts
  \/ \E p \in Pids : Dies(p)

Spec == Init /\ [][Next]_vars

-----------------------------------------------------------------------------
(***************************************************************************)
(* Properties.  They hold for signals that kill (Nominal).                 *)
(***************************************************************************)
Nominal == Signals \subseteq {"KILL"}

\* Outside a run the map is empty, so that INITIALISE, REGISTERFILE and
\* START, which clear it or take it for empty, lose sight of no process.
MapEmptyOutsideRun ==
  busy = none /\ state # "RUNNING" => Recorded = {}

\* The id of every process the job control has started and that still runs is
\* in the map: KILL will find it, although the entry may be that of a dead
\* process which had the id before.
StillTracked == \A p \in Pids : proc[p] \in Jobs => processMap[p] # none

\* However often it is killed, restarted or dies, no job runs twice, although a
\* job may be restarted under the entry of another.
RunsOnce == \A p, q \in Pids : proc[p] \in Jobs /\ proc[p] = proc[q] => p = q

\* Unless a fork has failed, a command kills a process the job control has not
\* started only in place of a job that has died, whose id it has now.
OnlyInPlaceOfTheDead ==
  [][\A p \in Pids : proc[p] = Other /\ proc'[p] # Other =>
       \/ Failed \in Recorded
       \/ processMap[p] # none /\ \A q \in Pids : proc[q] # processMap[p]]_vars

\* The lists of START and KILL, while they work through them.
ListInv ==
  /\ IF busy = "START" THEN state = "INITIALISED" ELSE toStart = {}
  /\ IF busy = "KILL" THEN state = "RUNNING" /\ toKill = Recorded /\ Failed \notin Recorded
                     ELSE toKill = {}

\* No job has two entries, nor an entry before START has come to it.
EntryInv ==
  /\ \A k, l \in Keys : processMap[k] # none /\ processMap[k] = processMap[l] => k = l
  /\ \A k \in Keys : processMap[k] \notin toStart

\* A job that runs has its entry where it runs, or, when it has been given the
\* id of a dead one that is in the map, none at all: then nothing starts it again.
HostInv ==
  \A p \in Pids : proc[p] \in Jobs =>
    \/ processMap[p] = proc[p]
    \/ proc[p] \notin toStart /\ \A k \in Keys : processMap[k] # proc[p]

\* The inductive invariant of the job control: its types, and why KILL finds
\* what START has forked (FsmJobProofs).
JobInv ==
  /\ TypeOK
  /\ ListInv
  /\ HostInv
  /\ EntryInv
  /\ MapEmptyOutsideRun
  /\ StillTracked
  /\ RunsOnce

\* What does not hold: an entry is that of the process which has its id.
EntriesAreTrue == \A p \in Pids : proc[p] \in Jobs => processMap[p] = proc[p]

\* runcontrol.py:585, "Kill and restart one process", with the process id as a
\* parameter: RESTARTJOB kills no other job than the one with the id it is given.
RestartsThisProcess ==
  [][\A name \in Names, pid \in Recorded \cap Pids, signal \in Signals :
       RestartJob(name, pid, signal) /\ NameOf[processMap[pid]] = name
         => \A p \in Pids \ {pid} : proc[p] \in Jobs => proc'[p] = proc[p]]_vars
=============================================================================
