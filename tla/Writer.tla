------------------------------- MODULE Writer -------------------------------
(***************************************************************************)
(* The writer plugin of the event builder (src/pluggins/binarywriter.cc)   *)
(* and the files it leaves, with the way of a fragment to it: the buffer   *)
(* of the source (zmSender::publish), the copy the merger uncompresses,    *)
(* the one the writer compresses again.                                    *)
(*                                                                         *)
(* The merger calls the plugin between its START and its STOP with keys    *)
(* that increase (EventsOnlyWhileStarted and BuiltInOrder of Merger).      *)
(*                                                                         *)
(* A file is named after the second and the run in which it is opened, and *)
(* is neither created anew nor truncated if there is one of that name: a   *)
(* file opened again in its second is written over from its beginning.     *)
(***************************************************************************)
EXTENDS Buffer, Sequences, FiniteSets

CONSTANTS
  MaxKey,        (* bound: keys of the events                                *)
  MaxRuns,       (* bound: STARTs                                            *)
  MaxSize,       (* total size above which the next file is opened           *)
  Sizes,         (* sizes an event or a header may have                      *)
  Speed,         (* what can be written within a second                      *)
  OpenFails,     (* open may fail                                            *)
  WriteFails     (* so may the writes of an event or a header                *)

ASSUME WriterAssumption ==
  /\ {MaxKey, MaxRuns, MaxSize, Speed} \subseteq Nat
  /\ Sizes \subseteq Nat \ {0}
  /\ Speed <= MaxSize
  /\ OpenFails \in BOOLEAN /\ WriteFails \in BOOLEAN

VARIABLES
  inRun,         \* the builder is between START and STOP
  run,           \* _run
  started,       \* _started
  fd,            \* _fdOut is open, on the last file
  totalSize,     \* _totalSize
  event,         \* _event
  file,          \* records of the file opened last
  pos,           \* records before the position in it
  disk,          \* keys of the events in earlier files
  ticked,        \* the second in which the last file was opened is over
  spent,         \* what has been written in this second
  source,        \* the source's buffer
  compressing,   \* the source's _compress
  dummy,         \* _dummy: the writer leaves the fragments out
  runs,          \* STARTs so far
  handed,        \* history: keys given to the writer
  failed,        \* history: an open, or the writing of an event, has failed
  carried        \* history: a START has found a size of an earlier run

vars == <<inRun, run, started, fd, totalSize, event, file, pos, disk, ticked, spent,
          source, compressing, dummy, runs, handed, failed, carried>>
parameters == <<compressing, dummy>>
chain == <<source, handed>>

Keys == 1..MaxKey
Header == -1                   \* in place of an event number

Records == [no : Nat \cup {Header}, key : Keys \cup {0}, data : Buffers]

TypeOK ==
  /\ inRun \in BOOLEAN /\ started \in BOOLEAN /\ fd \in BOOLEAN /\ ticked \in BOOLEAN
  /\ compressing \in BOOLEAN /\ dummy \in BOOLEAN
  /\ failed \in BOOLEAN /\ carried \in BOOLEAN
  /\ run \in 0..MaxRuns /\ runs \in 0..MaxRuns
  /\ totalSize \in Nat /\ event \in Nat /\ spent \in Nat
  /\ file \in Seq(Records) /\ pos \in 0..Len(file)
  /\ disk \subseteq Keys /\ handed \subseteq Keys
  /\ source \in Buffers

Init ==
  /\ inRun = FALSE /\ run = 0 /\ started = FALSE /\ fd = FALSE
  /\ totalSize = 0 /\ event = 0
  /\ file = <<>> /\ pos = 0 /\ disk = {} /\ ticked = TRUE /\ spent = 0
  /\ source = Empty
  /\ compressing \in BOOLEAN /\ dummy \in BOOLEAN
  /\ runs = 0 /\ handed = {} /\ failed = FALSE /\ carried = FALSE

KeysOf(records) == {records[i].key : i \in DOMAIN records} \ {0}

-----------------------------------------------------------------------------
(***************************************************************************)
(* open, write.                                                            *)
(***************************************************************************)

\* What the plugin has written and counted.
Now == [file |-> file, pos |-> pos, size |-> totalSize, event |-> event, failed |-> failed]

Leaves(w) == file' = w.file /\ pos' = w.pos /\ event' = w.event

\* start() of run r after w: a name that was used in this very second is that
\* of the last file.
Opens(r, w) ==
  /\ IF ~ticked /\ r = run THEN file' = w.file /\ UNCHANGED disk
                           ELSE file' = <<>> /\ disk' = disk \cup KeysOf(w.file)
  /\ pos' = 0 /\ event' = 0
  /\ fd' = TRUE /\ started' = TRUE /\ ticked' = FALSE /\ failed' = w.failed

\* Nothing but the descriptor tells.
OpenFailed(w) ==
  /\ OpenFails
  /\ Leaves(w)
  /\ fd' = FALSE /\ failed' = TRUE /\ UNCHANGED <<started, disk, ticked>>

\* A record at the position, over what may be there.
Written(record) ==
  [i \in 1..(IF pos = Len(file) THEN pos + 1 ELSE Len(file)) |->
     IF i = pos + 1 THEN record ELSE file[i]]

Record(no, key, b) == [no |-> no, key |-> key, data |-> b]

\* The disk is no faster than this (bound).
Fits(size) == spent + size <= Speed

-----------------------------------------------------------------------------
(***************************************************************************)
(* The way of a fragment.                                                  *)
(***************************************************************************)
\* zmSender::publish keeps its buffer, and compresses in it.
Published == IF compressing THEN Compress(Fill(source)) ELSE Fill(source)

\* The merger uncompresses the copy it has received.
Received == Uncompress(Published)

-----------------------------------------------------------------------------
(***************************************************************************)
(* The plugin's operations.                                                *)
(***************************************************************************)
Start(r) ==
  /\ ~inRun /\ runs < MaxRuns
  /\ inRun' = TRUE /\ run' = r /\ runs' = runs + 1
  /\ carried' = (carried \/ totalSize > 0)
  /\ Opens(r, Now) \/ OpenFailed(Now)
  /\ UNCHANGED <<totalSize, spent, chain, parameters>>

\* (variant) goes on without the second's sleep
StopAtOnce ==
  /\ inRun
  /\ inRun' = FALSE /\ started' = FALSE /\ fd' = FALSE
  /\ UNCHANGED <<run, totalSize, event, file, pos, disk, ticked, spent, chain, parameters,
                 runs, failed, carried>>

\* stop() sleeps for a second and closes the file.
Stop ==
  /\ inRun
  /\ inRun' = FALSE /\ started' = FALSE /\ fd' = FALSE
  /\ ticked' = TRUE /\ spent' = 0
  /\ UNCHANGED <<run, totalSize, event, file, pos, disk, chain, parameters, runs, failed,
                 carried>>

\* processRunHeader; the merger gives a header with an event, just before it,
\* and no event leaves a size above the limit.
RunHeader(size) ==
  /\ inRun /\ fd /\ Fits(size)
  /\ totalSize <= MaxSize /\ (pos > 0 => file[pos].no # Header)
  /\ \/ file' = Written(Record(Header, 0, Compress(Empty))) /\ pos' = pos + 1
     \/ WriteFails /\ UNCHANGED <<file, pos>>
  /\ totalSize' = totalSize + size /\ spent' = spent + size
  /\ UNCHANGED <<inRun, run, started, fd, event, disk, ticked, chain, parameters, runs,
                 failed, carried>>

\* An event is counted, whether its writes have succeeded or not.
Counted(size) == [Now EXCEPT !.size = @ + size, !.event = @ + 1]

\* What processEvent writes: the number, and the fragments unless it is to
\* leave them out.
Event(key) == Record(event, key, IF dummy THEN Empty ELSE Compress(Received))

Wrote(key, size) == [Counted(size) EXCEPT !.file = Written(Event(key)), !.pos = @ + 1]

Lost(size) == [Counted(size) EXCEPT !.failed = TRUE]

\* What it may leave. No result of write is looked at.
Afterwards(key, size) ==
  IF ~fd THEN {Now}
         ELSE {Wrote(key, size)} \cup (IF WriteFails THEN {Lost(size)} ELSE {})

Continues(w) == Leaves(w) /\ failed' = w.failed /\ UNCHANGED <<fd, started, disk, ticked>>

\* (variant) the size is not set to zero
RolloverKeepsSize(w) ==
  /\ totalSize' = w.size
  /\ IF w.size > MaxSize THEN Opens(run, w) \/ OpenFailed(w) ELSE Continues(w)

\* (variant) the next file is not opened
RolloverCloses(w) ==
  /\ totalSize' = IF w.size > MaxSize THEN 0 ELSE w.size
  /\ Leaves(w) /\ fd' = (fd /\ w.size <= MaxSize) /\ failed' = w.failed
  /\ UNCHANGED <<started, disk, ticked>>

\* The end of processEvent: above the limit the file is closed and the next
\* one opened, with _started as it is.
Rollover(w) ==
  IF w.size > MaxSize THEN totalSize' = 0 /\ (Opens(run, w) \/ OpenFailed(w))
                      ELSE totalSize' = w.size /\ Continues(w)

\* An event is published, built and given to processEvent.
ProcessEvent(key, size) ==
  /\ inRun /\ key \notin handed /\ \A k \in handed : k < key
  /\ Fits(size) /\ (dummy <=> size = 0)
  /\ source' = Published /\ handed' = handed \cup {key}
  /\ IF started
       THEN (\E w \in Afterwards(key, size) : Rollover(w)) /\ spent' = spent + size
       ELSE UNCHANGED <<started, fd, totalSize, event, file, pos, disk, ticked, spent, failed>>
  /\ UNCHANGED <<inRun, run, parameters, runs, carried>>

\* A second has passed.
Tick ==
  /\ ticked' = TRUE /\ spent' = 0
  /\ UNCHANGED <<inRun, run, started, fd, totalSize, event, file, pos, disk, chain,
                 parameters, runs, failed, carried>>

Next ==
  \/ \E r \in 1..MaxRuns : Start(r)
  \/ Stop \/ Tick
  \/ \E size \in Sizes : RunHeader(size)
  \/ \E key \in Keys, size \in Sizes \cup {0} : ProcessEvent(key, size)

Spec == Init /\ [][Next]_vars

-----------------------------------------------------------------------------
(***************************************************************************)
(* Properties.                                                             *)
(***************************************************************************)
Recorded == disk \cup KeysOf(file)

\* Unless an open or a write has failed, or a run has begun with the size of
\* another one, every event given to the writer is in a file, across all the
\* files of all the runs.
AllRecorded == failed \/ carried \/ handed = Recorded

\* A record is written over only in a run that has begun with the size of
\* another one, and has so come to its limit within a second.
KeptUnlessCarried ==
  [][carried \/ Recorded \subseteq Recorded']_vars

\* What a reader gets from a file is what the source has filled in: each of
\* the three that compress or uncompress leaves the bit as the next expects it.
ReadsBack == \A i \in DOMAIN file : Readable(file[i].data)

\* No file stays open between the runs, nor is one open that takes no events.
OpenInRun == fd => inRun /\ started

\* The bit of the source's buffer is set only where the source compresses: a
\* payload that goes uncompressed is not uncompressed by the merger.
SourceInv == source.bit => compressing

\* Between runs the second of the last file is over, and there is a file in
\* every run as long as nothing has failed.
OpenInv == OpenInRun /\ (~inRun => ticked) /\ (inRun /\ ~failed => fd)

\* In the second in which it was opened a file has not come to its limit,
\* unless it began with the size of another run.
SizeInv == spent <= Speed /\ (~carried /\ ~ticked => totalSize <= spent)

\* The next record goes to the end.
FileInv == ~carried /\ fd => pos = Len(file)

\* The inductive invariant of the writer (WriterProofs).
WriterInv ==
  TypeOK /\ SourceInv /\ OpenInv /\ SizeInv /\ FileInv /\ AllRecorded /\ ReadsBack

-----------------------------------------------------------------------------
(***************************************************************************)
(* What does not hold.                                                     *)
(***************************************************************************)

\* binarywriter.hh:40, "It creates the file": what has been recorded is never
\* written over.
Kept == [][Recorded \subseteq Recorded']_vars

\* An event is recorded as long as the writer takes events.
TakenIsRecorded == [][\A k \in Keys : started /\ k \in handed' \ handed => k \in Recorded']_vars
=============================================================================
