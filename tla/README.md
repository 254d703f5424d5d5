# zdaq in TLA+

zdaq is a distributed data acquisition: a trigger, data source servers, event
builders, a run control that drives them, and a job control on every host that
starts their processes. The processes talk through ZeroMQ (data, triggers,
monitoring) and through small web servers (transitions and commands). This
directory holds TLA+ models of that system, the TLC configurations that check
them and TLAPS proofs about each component: every invariant and every action
property that a run checks is also a theorem, for any number of processes,
messages and runs. Some theorems hold under conditions on the constants, which
section 5 gives with each (`Nominal`, `~NtrgAnytime`, `KeysFit`, `Small`); where
the code itself does not guarantee such a condition section 6 shows what happens
without it.
Paths below are relative to the repository root.

## 1. Inventory

| component | source | state it keeps | what it does |
|---|---|---|---|
| event merger | `src/zmMerger.cc` | event map by trigger number, number of fragments per event, last event, purge and run header flags | gathers one fragment per source, builds, purges, calls the plugins |
| message puller | `src/zmPuller.cc` | bound sockets, `_running`, count of registrations | the polling loop the merger inherits |
| event builder applications | `builder/src/localCollector.cc`, `example/src/exBuilder.cxx` | fsm, the merger | CONFIGURE, START, STOP, HALT; PURGE, SETHEADER; REGISTERDS of `exBuilder` |
| message sender | `src/zmSender.cc` | one connection per builder | registers a source, publishes its fragments |
| data source server | `example/src/exServer.cxx` | fsm, senders, subscriber, event and bx of the run | fills and publishes an event of each source per trigger |
| subscriber, publisher | `src/zSubscriber.cc`, `src/zPublisher.cc` | connected streams, last message of each; `_running` | PUB/SUB of triggers and of monitoring data |
| software trigger | `example/src/softTrigger.cxx` | event, bx, ntrg, paused, publisher | posts a burst of triggers per period, throttled by the servers' STATUS |
| state machine | `src/fsm.cc`, `src/fsmmessage.cc` | state, table of transitions | accepts or refuses a command, runs its handler, moves |
| base application | `src/baseApplication.cc` | configuration, parameters | CREATE from VOID, SETPARAM, GETPARAM |
| web service, web caller | `src/fsmweb.cc`, `src/fsmwebCaller.cc` | command table; url of an application, found or not | one request at a time; a call whose failure nobody sees |
| run control | `example/src/exRunControl.cxx` | fsm, lists of callers | takes all the applications through the same transitions, in stages |
| job control | `src/fsmjob.cc`, `src/utils/ljc.cxx` | configuration of the host, map of processes by id | forks, kills and restarts the processes of one host |
| writer plugins | `src/pluggins/*.cc` | file, sizes, event number | what the merger hands events to |
| data buffer | `include/zmBuffer.hh` | header words, payload | layout and gzip of a fragment |
| monitoring applications | `include/monitorApplication.hh`, `monitoring/` | a monitoring thread, plugins, stores | read hardware status periodically and publish it |
| older transports | `src/zmRouter.cc`, `src/zmPusher.cc`, `src/zmPublisher.cc`, `src/mpub*.cpp` | sockets | used by manual test programs only |
| log file tail | `src/fileTailer.cc` | a ring of characters and pointers into it, for one call | the last lines of a log file, for JOBLOG of the job control |
| logging, main programs, scripts | `include/zdaqLogger.hh`, `*/src/*.cc`, `scripts/`, `example/scripts/` | none | command-line clients, start scripts |

How they interact:

```
 runcontrol.py ──web──> run control ──web (fsmwebCaller)──> builders, servers, trigger
                        job control ──fork/kill──> all of them
 trigger ──PUB/SUB bursts──> server ──PUSH/PULL "DS" and "ID" messages──> builder ──calls──> plugins
 trigger ──web STATUS──> server
```

What is hard here:

* **threads**: every application has a web thread that runs transitions and
  commands and one worker thread (polling, publishing, monitoring); they share
  plain variables without locks and meet in `join_all`;
* **order between processes**: a builder counts the sources that register with
  it and takes their number as the size of an event; it works only if all
  registrations come before data and all START and STOP arrive in one order;
* **loss and leftovers**: triggers travel on PUB/SUB and may be lost, events
  stay incomplete, messages of one run are read in the next;
* **answers nobody looks at**: the run control moves on whatever its
  applications answer, and a process that dies is noticed by nobody;
* **process ids**: the job control keeps the ids of children that are gone;
* **integers**: unsigned differences and a signed trigger number.

What makes each component correct is stated by the properties of section 4.

## 2. Modules

| module | models | extends |
|---|---|---|
| `TriggerAssembly` | abstract: what an event builder promises | |
| `Merger` | event builder process: merger, puller, collector application; around it the senders | |
| `MergerInv` | its inductive invariant | `Merger` |
| `MergerProofs` | theorems and proofs about it | `MergerInv` |
| `Fsm` | the state machine: tables, acceptance, target | |
| `RunOrder` | abstract: the order the run control promises | |
| `RunControl` | run control, web calls, and the applications as far as the run control can tell; crashes and restarts | `Fsm` |
| `RunControlProofs` | theorems and proofs about it | `RunControl` |
| `TriggerWire`, `SoftTrigger`, `DataServer` | what trigger and servers share; the trigger; the servers | |
| `TriggerChain` | the two together, over several runs | `SoftTrigger`, `DataServer` |
| `TriggerChainProofs` | theorems and proofs about it | `TriggerChain` |
| `SourceServer` | one server with all its threads and sources, both modes, its senders towards several builders; implements `DataServer` | instance of `DataServer` |
| `SourceServerProofs` | theorems and proofs about it | `SourceServer` |
| `FsmJob` | the job control of one host | `Fsm` |
| `FsmJobProofs` | theorems and proofs about it | `FsmJob` |
| `Monitor` | the three monitoring applications and their thread | `Fsm` |
| `MonitorProofs` | theorems and proofs about it | `Monitor` |
| `Buffer` | the compression bit of a fragment's buffer | |
| `Writer` | the writer plugin, its files, and a fragment's way to them | `Buffer` |
| `WriterProofs` | theorems and proofs about it | `Writer` |
| `FileTail` | the ring buffer behind JOBLOG, with its inductive invariant | |
| `FileTailProofs` | theorems and proofs about it | `FileTail` |
| `MC*` | the same with the constants of the runs | |

The modules meet at their interfaces. `Merger` assumes, when `Orderly` holds,
that commands come in the order of `exRunControl`; `RunControl` implements
`RunOrder`, which is that order. `Merger` lets every source publish increasing
trigger numbers while it is serving; `FeedsInOrder` of `TriggerChain` is that
assumption. `TriggerChain` assumes START and STOP in the order of `RunOrder`.
`DataServer` fills the sources of a server in one step; `SourceServer`, which has
the loops, the threads and the senders, implements it (`ActsAsDataServer`), and
may assume that the builders read because `RunOrder` stops them last.
`Writer` takes events between START and STOP only, with increasing keys:
`EventsOnlyWhileStarted` and `BuiltInOrder` of `Merger`.

### Merger

| in the module | in the code |
|---|---|
| `thread` | `none`, `created` (START has called `create_thread`), `loop` (at `while (_running)`), `recv` (in `zmq::poll`) |
| `ctl` | the handler of the web thread that waits in `join_all` |
| `eventMap[k]` | buffers of event k, in order of arrival, each reduced to the source it came from; `<<>>` for no entry |
| `pipe[s]` | one FIFO per source: trigger numbers, and `ID` for a registration |
| `ReceiveData` | `processData` entirely: the choice of the number of fragments, insertion, both loops over complete events, `processEvent`, both purges |
| `StopBegin`, `StopEnd`, `Halt` | `stop()` before and after `join_all`, `halt` |
| `RegisterDS` | `exBuilder::registerds`, which writes `_nDifs` from the web thread at any moment |
| `delivered`, `headerAt`, `asked` | history variables |

A message, which the code sends as two parts, is one step. A collector reads one
message per test of `_running`; an `exBuilder`, which binds a socket per stream,
one of each socket that is ready: `Receive` may stay in `recv`. The text of the
headers and payloads are left out, and so are the byte counters. `lastgtc` is
kept with its sign: `HalfRange` stands for 2^31. `Settled` is what the
`sleep(1)` of `exRunControl::start` is there for: the poll thread runs and has
read all the registrations; `Orderly` runs rely on it, `MCMergerStopRace` and
the departures of section 6 show why. In an `Orderly` run REGISTERDS comes before
the first START, if at all: the run control does not know that command. HALT makes
the merger forget its plugins, which nothing can show: with the port bound no
CONFIGURE succeeds any more, and without it nothing is received.

### RunControl

A handler of the run control is a list of *stages*, a transition and the
applications it is for. `singlestart` and its like send a transition to all
servers in a thread group and join it: any order, one call at a time, and
the next stage when all have returned. A call has five outcomes: the process is
down or its url was never found, the fsm refuses, the handler runs, the handler
throws and the fsm stays (`CallInVain`, `Executes`), or the call never returns:
`curlQuery` sets no timeout, and a STOP, or a HALT in a run, may wait in `join_all`
for ever (`NeverReturns`). The handler of the run control then waits too, until
the process is killed. `Complete` has the processes with a right configuration.
Handlers that give up for lack of a parameter still move their fsm, as
`fsm.cc:76` does; a server whose configuration has a wrong INSTANCE of a builder
throws. A process that uses a pointer it should not may die or not
(`ExecutesOrDies`, `PostNowhere`). `Crash` and `Respawn` happen at any moment, that of the run
control included, and the process starts again in VOID.

### TriggerChain

The publishing thread is modelled statement by statement where other threads
can come between: the questions to each client, the test, the post, the
advance. The stage that stops a run may be a HALT, and HALT may come between two
runs: it sets the bunch crossing back to 0 (`softTrigger.cxx:272`) and deletes the
publisher but not its pointer, so that later posts go through a deleted object
(`Post`, `PostDies`: they may work, be lost or kill the process). `MaxHalted`
bounds the triggers after a HALT. A burst is three numbers. The `STATUS` calls of the trigger read
`stat[s]`, the event number of the source at that moment. `WordSize` stands for
2^32 in the unsigned difference of `softTrigger.cxx:200`. All the sources of a
server are filled in one step, and the hardware is the trigger's own ("hardware"
`DUMMYTRIGGER`). The server passes (event, bx) to `publish(bx, gtc)`: the
builder's key is the bunch crossing cut to the 32 bits of `gtc` (`Key`), which
grows over the runs until the trigger is halted, where the event number restarts
at every START. `FeedsInOrder` and `SameEvents` hold because of
that exchange; `KeyIsEventNumber`, what the parameter names promise, does not.

### SourceServer

| in the module | in the code |
|---|---|
| `web`, `BeginStop`, `EndStop`, `EndHalt` | the web thread, alone or waiting in `join_all`; `stop()` up to the join and after it, `halt` |
| `at[p]`, `task[p]` | a poll thread of a `zSubscriber`: at `while (_running)`, in `zmq::poll`, about to call `fillEvent` for source `src`, in `send`; what is left of its burst |
| `stream[s]`, `lastEvt[s]`, `copy[s]` | a `streamdata` thread and its locals; `store` is between the reads of `_event++` and `_bx++` and their writes |
| `"dangling"` | a thread whose sender has been deleted under it: what comes of it is left open |
| `layout`, `Discovers`, `Connected`, `Target` | the BUILDER processes of the configuration with their INSTANCE numbers; `autoDiscover`; the builder of an event, `gtc % _vSender.size()` |
| `queued[s][b]`, `Room` | a ZeroMQ connection and its limit (`ZMQ_SNDHWM`, 128) |
| `switched`, `sent` | history: the mode was changed in a run; what each source has sent until then |

`CONFIGURE` makes a new `zSubscriber` and never deletes the old one, so threads
carry the number of theirs. `SetParameter` changes the mode. `complete` says that
no parameter is missing: as long as one is, CONFIGURE deletes the senders, returns
half way and still leads to CONFIGURED (`GiveUp`); START and STOP in trigger mode
then use a `_triggerSubscriber` that nothing has been assigned to, and the process
may die of it (`Dereference`). `SupplyParameters` is the SETPARAM or CONFIGURE that
brings what is missing. `Gtc` cuts the bunch crossing to 32 bits. The two parts of a
message are one step; a connection that is full makes the step wait. Of the
queued fragments only the number is kept: what the builders make of them is
`Merger`. Instances that are not numbered from 0 make `connect` throw on an empty
address, with the senders deleted and the fsm where it was; no builder at all
makes `publish` divide by zero, and the process dies.

### FileTail

One state machine of `fileTail`: `GetC` is one turn of its loop. The conditions
at its top (`Begins`, `Wraps`) are expressions that `NoRoom`, `Store` and
`StoreNewline` use. A character of the buffer is its place in the file, so that
a string in the buffer says which piece of the file it is; `Uninit` is what a
buffer on the stack has before. Nobody looks at the result of `fopen` nor at the
number of lines asked for: `getc(NULL)`, and `shift()` of an array of 0 lines, are
undefined behaviour, which `Init` leaves open as the status `"undefined"`; nothing
more is said of such a call. `Counts` has the other numbers of lines.

### FsmJob

START and KILL work through a list, an entry per step, while processes die or
are born. Children are reaped by the kernel (`SIGCHLD` is ignored), the map is
not told, and the id of a dead child may be given out again at once, to a new job
or to a stranger (`Free`). `fork` may fail: -1 is then recorded as a process id, as
in the code, and a KILLJOB of 4294967295 finds it. A `kill` may be survived when
the signal is not KILL. Two jobs may have the same
name. Between `fork` and `execve`, the environment, arguments and log files are
left out.

### Monitor

`monitorApplication`, `zmonSupervisor` and `lsc` repeat the same START, STOP and
`monitor()`; `app` says which one it is, and the differences (fsm table, plugins
or the application's own hardware, where the port is bound, an uninitialised
`_publisher` in `lsc`) are guards on it. START, STOP, HALT and STATUS are split
where the other thread can come between: creation of the thread and `_running`,
`_running` and `join_all`, one plugin and the next. The monitoring thread is at
`while (_running)`, in its walk through the plugins, in one plugin's `status()`,
or asleep. `port` is the TCP port, which binds once in the life of a process. A
send through the wild pointer of `lsc` may end the process or not (`Dies`).
The stores are written where the status is published and have no action of
their own.

### Writer

| in the module | in the code |
|---|---|
| `Opens`, `OpenFailed` | `start()` and what it does when `open` fails |
| `file`, `pos` | the file opened last, a record per event or header, and the position of the descriptor |
| `disk` | the keys in the files before it |
| `Rollover` | the end of `processEvent`, where the size is above the limit |
| `ticked` | whether the second in which the file was opened is over: the name of a file is the second and the run |
| `Published`, `Received`, `Event` | `compress` at the source, `uncompress` at the merger, `compress` at the writer |
| `Wrote`, `Lost` | the writes of an event, whose results the code ignores: they succeed or fail, as a whole, and the event is counted either way |
| `failed` | history: an open, or the writing of an event, has failed |

The file is opened without `O_TRUNC` and `O_EXCL`, so a name that comes back
within a second is the same file written from its beginning, record over
record. `Fits` says that a disk takes less than a file's limit (1.9 GB) within a
second (`Speed <= MaxSize`). `carried` remembers that a START has found a size
of an earlier run, since `start()` does not reset `_totalSize`. `RunHeader` comes
before an event, as `Merger` has it. `dummy` runs write no fragments, which are
the only thing that counts for the size. `Buffer` keeps the bit and the number
of times the payload is wrapped; -1 stands for a payload that was uncompressed
without having been compressed.

## 3. Runs

All of them end in less than two minutes with two workers.

| run | configuration | what it shows |
|---|---|---|
| `merger_nominal` | 2 sources, triggers 0..3, 2 runs, purge window 1, at most 3 events in the map, a right REGISTERDS or none | the safety of the data path, the inductive invariant and the refinement of `TriggerAssembly`, with triggers missed by a source, data left over by STOP, HALT between runs |
| `merger_live` | 2 sources, triggers 0..3, 1 run | what all sources have sent is built, STOP and HALT come back |
| `merger_commands` | 2 sources, 2 plugins, commands in any order and at any moment, a SETHEADER, REGISTERDS with 0 or 1, 2 runs | threads and plugins, run header |
| `merger_stop_race` | commands in any order | finding: STOP that never returns |
| `rc_faults` | 2 builders, 2 servers, one of them with a wrong configuration, every command, 2 mishaps (deaths, calls that never return, FORCESTATEs) | agreement of the states, order of `RunOrder`, resources match states, handlers end unless a call hangs |
| `trigger_runs` | trigger and 2 servers, 4 triggers in bursts of 1 or 2, 2 runs, 1 burst that misses a server, HALT and 1 trigger after it | keys, order, backlog |
| `trigger_live` | the same, 1 run, bursts of 1, nothing lost | the trigger goes on, the STOPs come back |
| `server` | 2 sources, 2 CONFIGUREs, bursts of 1 or 2 triggers, 2 builders, none, or wrong INSTANCEs, parameters missing at first or not, connections that hold 1 fragment, 1 change of the mode at any moment | threads against commands, whole events, STOP comes back, refinement of `DataServer` |
| `tail` | files of up to 14 characters, buffers of 3 to 9, 1 to 3 lines, or no file | the ring never comes round over what the pointers lead to, and has the last lines at the end of the file |
| `job` | 3 jobs, 2 of one name, 5 process ids that are used again, failing forks | the map reaches every process, no job runs twice, whom a KILL may hit |
| `monitor` | 2 plugins, each kind of application, with a port or without | one thread, no plugin read that HALT has dropped, STOP comes back, every plugin is read again and again |
| `writer` | 4 events, 2 runs, sizes 1 and 2 against a limit of 2, opens and writes that may fail | every event is in a file unless one has failed, readable, and not written over |

Why the bounds are enough. Two sources are what it takes for an event to be
incomplete, and for one source to be ahead of the other; four triggers give a
purged event, one younger and one older than the last one built, and event 0,
which is never built. Two runs are needed for everything that one run leaves to
the next (map, connections, `_nDifs`, sockets, keys); a third would start from
a state a second can start from. `ForcePurge` 3 makes both purges happen
within these triggers, and the window purge also while the map is below the limit,
which is the case that `OnlyHopelessPurged` is about (`merger_live` sets it out of reach because its property
is about events that are not purged). Two builders and two servers make "some
of them" different from all and none. Five process ids allow two restarts of
three jobs, and a stranger with an id that was one of the jobs' or never was. Two plugins
make "the next one" different from "the first one". A limit of 2 against sizes
1 and 2 gives a file with one event, one with two, and a run that begins just
below the limit; four events in two runs cross it in each. In `server` two
CONFIGUREs give an old subscriber beside a new one, one place per connection
makes every `send` wait now and then, a burst of two puts STOP before, between
and after its triggers, and a change of the mode can come before, in and after a run; one
poll thread at a time is enough because a second one takes a changed mode. A
buffer of 9 holds three lines and less, 14 characters go around one of 7 twice.
Deadlock is checked in every run but two: no model can stop, since commands, or
restarts, always remain possible. `server` stops when its process has died or its
SETPARAMs and CONFIGUREs are spent, `tail` at the end of the file.

The proofs of section 5 do not have these bounds.

## 4. Properties

*Merger.* `BuiltComplete`: every event has one fragment of each source.
`BuiltInOrder`: built once, never after a later one, over all runs.
`OnlyHopelessPurged`: the window purge drops only what had already lost a
fragment. `MapBounded`: with the purge on, a message leaves at most
`ForcePurge` events. `BuiltWhenComplete`, `SentIsBuilt`: no complete event waits in
the map, in the first run and in every later one unless nothing has told the
builder how many sources there are; what all have sent is built unless the run is stopped. `StartFindsNoThread`,
`EventsOnlyWhileStarted`, `StopReturns`: the two threads. `HeaderWhereAsked`:
run headers only with events that were asked for, though a request outlives runs and events. `RefinesAssembly`: all this
as an implementation of `TriggerAssembly`.

*RunControl.* `StatesAgree`: between commands every application is where the
run control believes it to be, although nobody looks at answers. `RunIsReal`:
in a run the ports, senders and publisher that the states stand for exist.
`KeepsOrder`: the steps of the handlers implement `RunOrder`.
`ResourcesMatchStates`: senders and ports against states under any command.
`HandlerEnds`: a handler ends, whoever of its clients is dead, has died or
refuses, unless a STOP or HALT that never returns holds it; when that process is
killed it goes on.

*TriggerChain.* `FeedsInOrder`, `SameEvents`: what the builder relies on: keys
that increase at each server, and one trigger per key, until the trigger is halted. `PostsToRunning`: no
burst after the trigger's STOP. `BacklogBounded`, `TriggerResumes`: the throttle
bounds the backlog and lets go again. `StopsReturn`.

*SourceServer.* `QuietUnlessRunning`: no thread is left when the server does not
run, and threads of two kinds or two subscribers are never alive together;
`Survives`: nobody uses a sender that CONFIGURE or HALT has deleted, so that the
process dies only of a configuration without builders, or in trigger mode of a
START or STOP that no complete CONFIGURE came before. Both hold
until a SETPARAM has changed the mode in a run. `WholeEvents`: what one source has
sent all have, whenever STOP came. `StopReturns`: STOP and HALT come back though
the thread they wait for may be waiting for a builder. `ActsAsDataServer`: in
trigger mode and from the first complete CONFIGURE on every step of the server is, for each of its sources, a step of
`DataServer` or changes nothing that STATUS, the trigger or the builders can see.

*FileTail.* `LinesIntact`: what a line's pointers lead to is one piece of one line
from its beginning on. `LastLines`: at the end of the file the pointers have its
last lines, in order and whole.

*FsmJob.* `MapEmptyOutsideRun`: where the code clears the map or takes it for
empty, no process is lost. `StillTracked`: the id of a process that was started
and still runs is in the map, so that KILL reaches it, although the entry may be
that of a dead job which had the id before (`EntriesAreTrue`, which would say
otherwise, does not hold: section 6). Both are parts of `JobInv`. `RunsOnce`: no
job runs twice, whatever dies and is restarted, even under another job's entry.
`OnlyInPlaceOfTheDead`: the job control does kill strangers, since ids are used
again; but, unless a fork has failed, only a stranger that has the id of an entry
whose own job is dead. All of them are for signals that kill.

*Monitor.* `MonitorInv`: where the thread is against where the application is.
From it follow `OneThread`, START never finds the thread of an earlier run, and
`ReadsLoadedPlugins`, HALT empties the list of plugins when the thread has left
it. `StopReturns`: STOP and HALT come back from `join_all`. `KeepsMonitoring`: a
thread that has got past its first look at `_running` reads every plugin until a
STOP. (That START may create a thread that does not get so far is in section 6.)

*Writer.* `AllRecorded`: the events given to the writer are those in its files,
unless an open or a write has failed or a run has begun with the size of an
earlier one. `KeptUnlessCarried`: nothing recorded is written over, but in such a run.
`ReadsBack`: source, merger and writer
leave the compression bit as the next of them expects it. `WriterInv`, of
which `OpenInRun` is a part: no file is open between runs.

**Fairness.** `Merger`: weak fairness of the poll thread and of the handler that
waits in `join_all`: the kernel runs both; `zmq::poll` has a time limit of 2 s.
`RunControl`: weak fairness of the end of a handler, and of the calls as long as
none of them hangs: a process that is down refuses the connection and one that is
up answers. curl has no timeout, so a call that waits for a handler which never
ends does not return either, and nothing is demanded while there is one
(`Hanging`); nobody has to kill that process. `TriggerChain`: weak fairness of the threads
and of the handlers in `join_all`. Commands, restarts, triggers of a source and
deaths are never fair: nobody has to do them. `Monitor`: weak fairness of the
monitoring thread and of a handler under way; `sleep` and the plugins' `status()`
come back. `SourceServer`: weak fairness of each thread and of the handler in
`join_all`, and of the builders' reading: they run until every server has stopped
(`RunOrder`), and without that `StopReturns` does not hold (section 6).
`FsmJob`, `Writer` and `FileTail` have none.

## 5. Proofs

`MergerProofs` proves with TLAPS, for any finite non-empty set of sources, any
number of triggers, runs, SETHEADERs, window and limit of the map:

| theorem | from |
|---|---|
| `TypeCorrect`: `Spec => []TypeOK` | `MergerAssumption` |
| `StartFindsNoThreadHolds`, `EventsOnlyWhileStartedHolds`, `HeaderWhereAskedHolds` | the same: commands in any order |
| `MapBoundedHolds` | the same |
| `Invariant`: `Spec => []IInv` | and `Nominal` |
| `BuiltCompleteHolds`, `BuiltInOrderHolds`, `OnlyHopelessPurgedHolds`, `BuiltWhenCompleteHolds` | the same |
| `Refinement`: `Spec => RefinesAssembly` | the same |

`Nominal` says: commands in the run control's order, each source registers
once, "dsnumber" is absent or right, REGISTERDS is not sent or sent before the
first START with the right number, and trigger numbers stay below 2^31. The code
guarantees none of this by itself; section 6 names the configuration that shows
what happens without each.

`BuiltComplete` is not inductive: that a vector of the right length has a buffer
of *each* source needs that no source is twice in an event (`MapInv`), which
needs that what is left in a connection is younger than what was read from it
(`PipeInv`), and that the length is right needs that the number of fragments is
the number of sources whenever an event can reach it (`SizeInv`): true because
registrations are counted before data is sent, in the first run, and because
`_nDifs` keeps the value in the next ones (`RegistrationInv`), which holds
because of where the threads are (`ThreadInv`). `IInv` is their conjunction,
checked by TLC as an invariant of `merger_nominal` and proved with one step per
action. `BuiltWhenComplete` needs to know of the first run that it reads all the
registrations before any data, whichever connection is read first (`FirstRunInv`). `BuiltInOrder` and `OnlyHopelessPurged` follow from `Passed`, the part of
`MapInv` that says that nothing of an event is still to come from a source that
has given its fragment; the refinement follows from both.

`FsmJobProofs`, for any jobs, names and process ids:

| theorem | from |
|---|---|
| `JobInvariant`: `Spec => []JobInv` | `FsmJobAssumption`, `Nominal` |
| `MapEmptyHolds`, `StillTrackedHolds`, `RunsOnceHolds`, `OnlyInPlaceOfTheDeadHolds` | the same |

`Nominal` says that signals kill: a process that survives a TERM is forgotten by
the map. Ids are given out again whenever they are free. `JobInv` adds to the
types: what KILL and START have still to do (`ListInv`), that no job has two
entries, nor one before START has come to it (`EntryInv`), that a job which runs
has its entry where it runs or, when it was given the id of a dead one, none at
all, and is not about to be started (`HostInv`), and the two properties about the
map. `RunsOnce` follows: only a job with an entry is restarted; if it runs
somewhere it runs there, and the restart kills it first. So does
`OnlyInPlaceOfTheDead`: a stranger's id is in the map only under a job that, by
the same argument, runs nowhere.

`MonitorProofs`, for any applications and plugins, commands in any order:
`MonitorInvariant`, `OneThreadHolds`, `ReadsLoadedPluginsHolds`, from
`MonitorAssumption`. The thread exists only in RUNNING or during START
(`ThreadInv`), and a thread that exists between handlers means `_running`
(`HandlerInv`): that is why HALT, which joins only when `_running` is set, never
clears the plugins under it, even after a START that lost its race.

`WriterProofs`, for any numbers of events and runs, sizes and limits, from
`WriterAssumption` (`Speed <= MaxSize`), opens and writes that fail or not:
`WriterInvariant`, `AllRecordedHolds`,
`ReadsBackHolds`, `OpenInRunHolds`, `KeptUnlessCarriedHolds`. The argument: in the
second in which a file was opened its size is at most what the disk takes
(`SizeInv`), so the limit is passed only when the second is over and the next
file has another name; STOP sleeps for a second, so START finds it over; the
position is the end of the file (`FileInv`), so a record is never written over.

`SourceServerProofs`, for any number of sources, any configurations, bursts,
CONFIGUREs and SETPARAMs, and builders that may never read, from
`SourceServerAssumption`: `ServerInvariant`, `QuietUnlessRunningHolds`,
`SurvivesHolds`, `WholeEventsHolds`. As long as the mode is that of the last START,
the threads alive are those that STOP joins (`ThreadInv`), so that there are none
between runs and nothing deletes a sender under one. The `streamdata` threads
stay at their test, since `_event` is what their `last_evt` is and only they could
change it (`AloneInv`): without it a stand-alone run would break `WholeEvents`.
`BurstInv` says where the poll thread is in its two loops: the sources before its
own have sent the trigger at hand, the others have not. `ServerInv` is their
conjunction (TLC checks it with the constants of `MCSourceServer.cfg`).

Two more things about the server: `SeenInvariant` and `ActsAsDataServerHolds`,
for fewer than 2^32 triggers (`KeysFit`), since `gtc` has 32 bits. The refinement has a `DataServer` per source: a burst is read there
when the poll thread takes it, and published when its last trigger has been sent
by that source, so that most of the server's steps change nothing there, and one
step of the loop over the sources is a `PollThread` of exactly one of them.
`SeenInv` adds what that needs: which subscriber's `_running` is set
(`PollingInv`), that a server with a subscriber has discovered its builders and
one without has no threads (`DiscoverInv`), and that keys only grow (`KeyInv`), without which what a source
has published would not be new for `DataServer`.

`RunControlProofs`, for any builders, servers, deaths and commands:

| theorem | from |
|---|---|
| `StagesHold`: `Spec => [](TypeOK /\ StageInv)`, `TypeCorrect` | `RunControlAssumption` |
| `ResourceInvariant`, `ResourcesMatchStatesHolds` | the same: any command, FORCESTATE, wrong configurations, calls that hang |
| `PlaceInvariant`, `StatesAgreeHolds`, `RunIsRealHolds`, `KeepsOrderHolds` | and a right configuration of the run control itself (`RunCtrl \in Complete`) |

`StatesAgree` says nothing of the middle of a handler. `PlaceInv` does: an
application that the handler still has to call is where the run control believes
it to be, any other one where it will be when the handler has ended. For that the
calls still to be made must be those of the handler, in its order and with nobody
left out, which is `StageInv`: each stage calls applications of one rank, the
ranks grow, and who has a higher rank than somebody still to be called is still
to be called. `ResourceInv` holds whatever is commanded. With the three of them
`KeepsOrderHolds` follows call by call: a call of `RunOrder`'s step is allowed
because `StageInv` says who has been called before. A run control without a
right configuration discovers nobody in CREATE and moves on. A call that hangs
changes no state but its own and that of the handler it holds.

`TriggerChainProofs`, for any servers, clients, bursts, runs, losses and HALTs:

| theorem | from |
|---|---|
| `TypeCorrect`, `PostsToRunningHolds` | the assumptions of the modules |
| `ChainInvariant`, `SameEventsHolds`, `FeedsInOrderHolds` | and NTRG between two runs only (`~NtrgAnytime`), fewer than 2^32 triggers (`KeysFit`) |
| `BacklogBoundedHolds` | and NTRG between two runs only, three bursts below 2^32 (`Small`) |

`OrderInv` puts the bursts that a server still has to read behind the last key
it has published, one after the other, and before what the trigger sends next;
`KnownInv` says of all the triggers anywhere on their way what `SameEvents` says
of those published. For `BacklogBounded` the unread bursts of a clean run join on
to one another up to the trigger's event number (`StreamInv`), so that their sum,
a recursive function in `Unread`, telescopes to a difference (`PendingTelescopes`);
the test of the trigger bounds that difference, an unsigned one, because what it
reads of STATUS is never ahead (`LagInv`). NTRG in a run breaks `FeedsInOrder`
(`MCTriggerChainNtrg`, section 6). What is said of keys ends with the first HALT of
the trigger, which starts them again from 0.

`FileTailProofs`, for any number of lines, any size of the buffer above 2 and any
file, from `FileTailAssumption`: `TailInvariant`, `LinesIntactHolds`,
`LastLinesHolds`. Nothing in the code remembers where the ring may be written but
the pointer of the oldest line; `TailInv` says why that is enough. The lines lie
behind one another: a line and all those after it are within the places written
since its beginning (`Zone`, `RingInv`), so that room behind the oldest is room
behind all of them (`RoomForAll`). A turn of the loop first drops the oldest line
or closes the first half of one that wraps, then stores: `Ready` describes the
state in between, and each of the two halves is proved apart. `HeadInv` says that
the lines found are the last ones of the file, in its order, and with `LineInv`,
about the line at hand, `LastLines` follows: the lines found are as many as the
`nlines` last beginnings (`AsManyHeads`), and put one behind the other they are
the rest of the file. TLC checks `TailInv` with the constants of `FileTail.cfg`.

The argument for `HeaderWhereAskedHolds` of `MergerProofs`: a header is pending only for an event somebody asked for,
and `writeHeader` is set only while a plugin has had fewer than were asked for
(`HeaderInv`).

What a recursive function computes (`Unread`, `FlattenSeq`) is proved by taking
the least number at which the claim fails (`WFMin`): the library's induction
theorems take an operator as a parameter, which no prover installed can
instantiate, but a set will do.

Only model-checked: everything about liveness, which TLAPS does not prove under
fairness (`SentIsBuilt`, the three `StopReturns`, `HandlerEnds`, `TriggerResumes`,
`StopsReturn`, `KeepsMonitoring`). The departures of section 6 are counterexamples
of TLC and need no proof.

## 6. Where the code departs from what it says

A finding, with its run:

* `merger_stop_race` — `enablePolling` is called by the new thread
  (`zmMerger.cc:201`): a `stop()` that comes before it is undone, and waits in
  `join_all` for ever.

Configurations that are not in the list of runs, kept to show that an assumption
is needed or a comment not true; TLC finds each property violated (those named
`Refuted` have several: run them with `-continue`):

| configuration | property | shows |
|---|---|---|
| `MCMergerHeaderAll` | `HeaderToAll` | only the first plugin gets the run header, `zmMerger.hh:169` says all: the flag is cleared inside the loop |
| `MCMergerNominal` with `RegisterDs = {1}` | `BuiltComplete` | a REGISTERDS with a wrong number, even before the first run: `nregistered` is 0 in the second, and events are built with that many fragments |
| `MCMergerUnsettled` | `BuiltComplete` | without the run control's order events are built from part of the sources |
| `MCMergerReconfigured` | `CompleteNotHeld` | a second CONFIGURE of a server registers it twice, and no event is complete any more |
| `MCMergerSign` | `OnlyOldPurged` | `int32_t lastgtc` against a `uint64_t` key (`zmMerger.cc:295`): after trigger 2^31 every event of the map is purged when one is built, `zmMerger.hh:198` says old ones |
| `MCMergerEmptyRun` | `CompleteNotHeld` | after a run without data the registrations are forgotten and the next run builds nothing, unless "dsnumber" or REGISTERDS has given their number |
| `MCRunControlRefuted` | `BuildersStarted` | the collecting port is never closed: CONFIGURE after HALT throws in the builder, which is then missing from the run (`exRunControl.cxx:346` says "Start the builder") |
| `MCRunControlRefuted` | `PublisherCreated` | after HALT the trigger's publisher is deleted and never created again |
| `MCRunControlRefuted` | `HaltGoesBackToCreated` | the servers go back to INITIALISED, `exServer.cxx:291` says CREATED |
| `MCFsmJobRefuted` | `RestartsThisProcess` | RESTARTJOB with a name and an id takes the first with either |
| `MCFsmJobRefuted` | `EntriesAreTrue` | a new job that is given the id of a dead one is not recorded: `map::insert` keeps the old entry, and a RESTARTJOB of that entry kills the new job and starts the old one |
| `MCMonitorRefuted` | `Monitors` | the thread looks at `_running` before START has set it, and ends: RUNNING, and nothing is monitored |
| `MCMonitorRefuted` | `PortFree` | the port of the first run is bound for the life of the process; the second START (CONFIGURE after HALT) throws |
| `MCMonitorRefuted` | `StatusOneAtATime` | STATUS and the monitoring thread in the same plugin's `status()`; `theSync_` is never locked |
| `MCWriterRefuted` | `Kept` | a run that begins with the size of an earlier one reaches the limit at once, opens its file a second time and writes over its first event |
| `MCTriggerChainRuns` with `WordSize = 2` | `SameEvents`, `FeedsInOrder` | the bunch crossing is cut to 32 bits (`exServer.cxx:168`): past 2^32 triggers the keys begin again |
| `MCTriggerChainRuns` without `publisher = "live" =>` in the property | `FeedsInOrder` | HALT of the trigger sets its bunch crossing back to 0, and servers that were not halted get keys they have published already |
| `MCTriggerChainStall` | `PeriodicallyPublished` | bursts left over from a run put a server ahead of the trigger in the next one, whose event number starts at 0 again; the `uint32_t` difference of `softTrigger.cxx:200` wraps around and the trigger waits for ever (`softTrigger.cxx:163` says it publishes periodically) |
| `MCTriggerChainNtrg` | `FeedsInOrder` | an NTRG between the post of a burst and the two additions that follow it (`softTrigger.cxx:219`): the counters advance by another number than was sent, and a smaller one makes the next burst begin with keys that the servers have published already |
| `MCSourceServerAlone` | `StandAlonePublishes` | the stand-alone mode publishes nothing (`exServer.cxx:210` says continuously): `_event` and `last_evt` both start at 0 |
| `MCSourceServerRefuted` | `AlwaysQuiet` | after a SETPARAM in a run STOP joins the other mode's threads, and the poll thread is left |
| `MCSourceServerRefuted` | `EveryBuilderConnected` | of two builders with one INSTANCE the second is never connected: `map::insert` keeps the first |
| `MCSourceServerUnread` | `StopReturns` | with builders that do not read, STOP waits for a thread that waits in `send` |
| `FileTailRefuted` | `PrintsLines` | `tail()` prints the first half of a wrapped line twice (`fileTailer.cc:159`), never the second |
| `FileTailRefuted` | `FindsLastLines` | when the lines do not fit the loop breaks, and the answer is what was found up to there (`fileTailer.cc:167` says the last lines of the input) |
| `MCWriterRefuted` | `TakenIsRecorded` | after a failed open `_started` stays as it was and events are dropped |

## 7. What is not modelled

Payloads, sizes, texts of answers, logs, the HTML pages, the reading of
configuration files. The run header's contents, which SETHEADER rewrites while
the poll thread may read them; nor the moment between the two members SETHEADER
writes: it is one step, as the handling of an event is. A run control that is
killed in the middle of a call whose handler the application finishes later (the
call ends with it or hangs). A subscriber with several streams, whose handlers
would see the last message of every stream after each poll (`zSubscriber.cc:179`):
no application of the repository has one. SETPARAM's other values, and INITIALISE
of the server. What a JOBLOG does whose file cannot be opened, or that asks for 0
lines (undefined behaviour). The sockets that a deleted `zmSender` leaves open (it has no
destructor), and what they still send. `exRunControl` asks the servers for
`zmPushers` where they answer `zmSenders`: its status answer is text.
Records of which only a part is written, by a write that comes back short or
fails among others, and what a
plugin after the writer finds in a buffer the writer has compressed in place. The
lifetime of the strings the monitoring hands to ZeroMQ without a copy. The older transports,
main programs, scripts and vendored archives keep no state worth a model;
`PROJECT.json` lists each with its reason. ZeroMQ, the web server, curl and the
kernel are external and appear as the connections, calls and process ids of the
modules.

## 8. Plan

Done, in this order: the event builder with its abstract specification, its
invariant and its proofs (the component whose failure loses data); the run
control, whose order the builder needs; the trigger chain, which feeds it; the
job control with its proofs; the monitoring applications and the writer, with
theirs; the data source server with all its threads, its senders, its proofs and
the refinement of `DataServer`; the log file tail; the proofs about the run
control, the trigger chain, the log file tail and that refinement, so that no
safety property of a run is without a theorem, under the conditions section 5
gives.

Next:

1. Proofs that need what two modules say of each other: that the keys which
   `FeedsInOrder` gives are what `Merger` takes, and that `RunOrder` is `Orderly`.
2. `Writer` below `Merger` in one module: the poll thread, the plugins and STOP.
3. Several builders below `SourceServer`, each a `Merger`.
