---------------------------- MODULE WriterProofs ----------------------------
(***************************************************************************)
(* Theorems about Writer, for any number of events and runs, any sizes and *)
(* any disk slower than a file a second.                                   *)
(***************************************************************************)
EXTENDS Writer, TLAPS

USE WriterAssumption DEF WriterAssumption

-----------------------------------------------------------------------------
(***************************************************************************)
(* Buffers and records.                                                    *)
(***************************************************************************)

\* What the merger gets is uncompressed, and can be read back once the writer
\* has compressed it again.
LEMMA ReceivedIsPlain ==
  ASSUME TypeOK, SourceInv
  PROVE  /\ Published \in Buffers /\ (Published.bit => compressing)
         /\ Received = Empty
<1>1. source.bit \in BOOLEAN
  BY DEF TypeOK, Buffers
<1>2. CASE compressing
  <2>1. Published = [bit |-> TRUE, wraps |-> 0 + 1]
    BY <1>2 DEF Published, Fill, Compress
  <2>. QED  BY <1>2, <2>1 DEF Received, Buffers, Empty, Uncompress
<1>3. CASE ~compressing
  <2>1. Published = [bit |-> FALSE, wraps |-> 0]
    BY <1>1, <1>3 DEF Published, Fill, SourceInv
  <2>. QED  BY <1>3, <2>1 DEF Received, Buffers, Empty, Uncompress
<1>. QED  BY <1>2, <1>3

\* What the writer puts in a record can be read.
LEMMA DataReads ==
  /\ Empty \in Buffers /\ Readable(Empty)
  /\ Compress(Empty) \in Buffers /\ Readable(Compress(Empty))
BY DEF Buffers, Empty, Compress, Uncompress, Readable

\* A record at the position keeps the file a sequence of readable records; at
\* the end of the file it adds its key and loses none.
LEMMA WrittenFacts ==
  ASSUME TypeOK, ReadsBack, NEW r \in Records, Readable(r.data)
  PROVE  /\ Written(r) \in Seq(Records) /\ pos + 1 \in 0..Len(Written(r))
         /\ \A i \in DOMAIN Written(r) : Readable(Written(r)[i].data)
         /\ pos = Len(file) => /\ Len(Written(r)) = pos + 1
                               /\ KeysOf(Written(r)) = KeysOf(file) \cup ({r.key} \ {0})
<1>1. file \in Seq(Records) /\ Len(file) \in Nat /\ DOMAIN file = 1..Len(file)
      /\ pos \in 0..Len(file)
  BY DEF TypeOK
<1>. DEFINE n == IF pos = Len(file) THEN pos + 1 ELSE Len(file)
<1>2. n \in Nat /\ pos + 1 \in 1..n /\ \A i \in 1..n : i # pos + 1 => i \in 1..Len(file)
  <2>. DEFINE len == Len(file)
  <2>1. len \in Nat /\ pos \in Nat /\ pos <= len /\ n = IF pos = len THEN pos + 1 ELSE len
    BY <1>1
  <2>. HIDE DEF len, n
  <2>2. n \in Nat /\ pos + 1 \in 1..n /\ \A i \in 1..n : i # pos + 1 => i \in 1..len
    BY <2>1
  <2>. QED  BY <2>2 DEF len
<1>3. Written(r) = [i \in 1..n |-> IF i = pos + 1 THEN r ELSE file[i]]
  BY DEF Written
<1>. HIDE DEF n
<1>4. \A i \in 1..Len(file) : file[i] \in Records
  BY <1>1
<1>5. Written(r) \in [1..n -> Records]
  BY <1>2, <1>3, <1>4
<1>6. Written(r) \in Seq(Records) /\ Len(Written(r)) = n /\ DOMAIN Written(r) = 1..n
  BY <1>2, <1>5
<1>7. \A i \in 1..n : Written(r)[i] = IF i = pos + 1 THEN r ELSE file[i]
  BY <1>3
<1>8. \A i \in DOMAIN Written(r) : Readable(Written(r)[i].data)
  BY <1>1, <1>2, <1>6, <1>7 DEF ReadsBack
<1>9. ASSUME pos = Len(file)
      PROVE  /\ n = pos + 1
             /\ KeysOf(Written(r)) = KeysOf(file) \cup ({r.key} \ {0})
  <2>1. n = Len(file) + 1
    BY <1>9 DEF n
  <2>2. \A i \in 1..Len(file) : i \in 1..n /\ Written(r)[i] = file[i]
    BY <1>1, <1>7, <1>9, <2>1
  <2>3. n \in 1..n /\ Written(r)[n] = r
    BY <1>1, <1>7, <1>9, <2>1
  <2>4. \A i \in 1..n : i = n \/ i \in 1..Len(file)
    BY <1>1, <2>1
  <2>. QED  BY <1>1, <1>6, <1>9, <2>1, <2>2, <2>3, <2>4 DEF KeysOf
<1>. QED  BY <1>2, <1>6, <1>8, <1>9

-----------------------------------------------------------------------------
(***************************************************************************)
(* What start() and the end of processEvent leave.                         *)
(***************************************************************************)

\* What the plugin has written and counted, w, is in order, and disk holds
\* the keys of the events before it.
Sound(w, keys) ==
  /\ w.file \in Seq(Records) /\ w.pos \in 0..Len(w.file)
  /\ w.size \in Nat /\ w.event \in Nat
  /\ \A i \in DOMAIN w.file : Readable(w.file[i].data)
  /\ w.failed \in BOOLEAN /\ (failed => w.failed)
  /\ carried \/ w.failed \/ keys = disk \cup KeysOf(w.file)
  /\ ~carried /\ fd => w.pos = Len(w.file)

LEMMA NowIsSound == WriterInv => Sound(Now, handed)
BY DEF WriterInv, Sound, Now, TypeOK, ReadsBack, AllRecorded, Recorded, FileInv

\* A run is opened, or cannot be: start().
LEMMA OpensKeeps ==
  ASSUME TypeOK, NEW keys \in SUBSET Keys, NEW w, Sound(w, keys), NEW r,
         ~carried' => ~carried /\ (ticked \/ r # run),
         carried' \in BOOLEAN,
         Opens(r, w) \/ OpenFailed(w)
  PROVE  /\ file' \in Seq(Records) /\ pos' \in 0..Len(file')
         /\ event' \in Nat /\ fd' \in BOOLEAN /\ started' \in BOOLEAN /\ failed' \in BOOLEAN
         /\ ticked' \in BOOLEAN /\ disk' \subseteq Keys
         /\ \A i \in DOMAIN file' : Readable(file'[i].data)
         /\ carried' \/ failed' \/ keys = disk' \cup KeysOf(file')
         /\ ~carried' /\ fd' => pos' = Len(file')
         /\ fd' => started'
         /\ ~failed' => fd'
         /\ ticked \/ r # run => disk \cup KeysOf(w.file) = disk' \cup KeysOf(file')
<1>1. KeysOf(w.file) \subseteq Keys /\ Len(w.file) \in Nat
  <2>1. w.file \in Seq(Records)
    BY DEF Sound
  <2>2. \A i \in DOMAIN w.file : w.file[i] \in Records
    BY <2>1
  <2>3. \A i \in DOMAIN w.file : w.file[i].key \in Keys \cup {0}
    BY <2>2 DEF Records
  <2>. QED  BY <2>1, <2>3 DEF KeysOf
<1>2. /\ <<>> \in Seq(Records) /\ Len(<<>>) = 0 /\ DOMAIN <<>> = {} /\ KeysOf(<<>>) = {}
  BY DEF KeysOf
<1>3. CASE OpenFailed(w)
  BY <1>3 DEF OpenFailed, Leaves, TypeOK, Sound
<1>4. CASE Opens(r, w) /\ ~ticked /\ r = run
  <2>1. /\ file' = w.file /\ disk' = disk /\ pos' = 0 /\ event' = 0
        /\ fd' = TRUE /\ started' = TRUE /\ ticked' = FALSE /\ failed' = w.failed
    BY <1>4 DEF Opens
  <2>2. carried' = TRUE
    BY <1>4
  <2>3. pos' \in 0..Len(file')
    BY <1>1, <2>1
  <2>4. /\ w.file \in Seq(Records) /\ \A i \in DOMAIN w.file : Readable(w.file[i].data)
        /\ disk \subseteq Keys /\ w.failed \in BOOLEAN
    BY DEF Sound, TypeOK
  <2>. QED  BY <2>1, <2>2, <2>3, <2>4
<1>5. CASE Opens(r, w) /\ (ticked \/ r # run)
  <2>1. /\ file' = <<>> /\ disk' = disk \cup KeysOf(w.file) /\ pos' = 0 /\ event' = 0
        /\ fd' = TRUE /\ started' = TRUE /\ ticked' = FALSE /\ failed' = w.failed
    BY <1>5 DEF Opens
  <2>2. disk' \subseteq Keys /\ failed' \in BOOLEAN
    BY <1>1, <2>1 DEF TypeOK, Sound
  <2>3. carried' \/ failed' \/ keys = disk' \cup KeysOf(file')
    <3>1. carried \/ w.failed \/ keys = disk \cup KeysOf(w.file)
      BY DEF Sound
    <3>2. disk' \cup KeysOf(file') = disk \cup KeysOf(w.file)
      BY <1>2, <2>1
    <3>. QED  BY <2>1, <3>1, <3>2
  <2>4. pos' \in 0..Len(file') /\ pos' = Len(file')
    BY <1>2, <2>1
  <2>5. disk \cup KeysOf(w.file) = disk' \cup KeysOf(file')
    BY <1>2, <2>1
  <2>. QED  BY <1>2, <2>1, <2>2, <2>3, <2>4, <2>5
<1>. QED  BY <1>3, <1>4, <1>5

\* What processEvent has written of an event, if anything.
LEMMA AfterwardsIsSound ==
  ASSUME WriterInv, inRun, started, NEW key \in Keys, NEW size \in Nat,
         NEW w \in Afterwards(key, size)
  PROVE  /\ Sound(w, handed \cup {key})
         /\ w.size <= totalSize + size
         /\ ~carried => disk \cup KeysOf(file) \subseteq disk \cup KeysOf(w.file)
<1>1. TypeOK /\ SourceInv /\ OpenInv /\ FileInv /\ AllRecorded /\ ReadsBack
  BY DEF WriterInv
<1>. DEFINE rec == Event(key)
<1>2. CASE fd /\ w = Wrote(key, size)
  <2>1. rec \in Records /\ Readable(rec.data) /\ rec.key = key
    BY <1>1, ReceivedIsPlain, DataReads DEF Event, Record, Records, TypeOK
  <2>. HIDE DEF rec
  <2>2. /\ Written(rec) \in Seq(Records) /\ pos + 1 \in 0..Len(Written(rec))
        /\ \A i \in DOMAIN Written(rec) : Readable(Written(rec)[i].data)
        /\ pos = Len(file) => /\ Len(Written(rec)) = pos + 1
                              /\ KeysOf(Written(rec)) = KeysOf(file) \cup ({key} \ {0})
    BY <1>1, <2>1, WrittenFacts
  <2>3. /\ w.file = Written(rec) /\ w.pos = pos + 1 /\ w.failed = failed
        /\ w.size = totalSize + size /\ w.event = event + 1
    BY <1>2 DEF Wrote, Counted, Now, rec
  <2>4. key # 0
    BY DEF Keys
  <2>5. ~carried => pos = Len(file)
    BY <1>1, <1>2 DEF FileInv
  <2>6. carried \/ failed \/ handed \cup {key} = disk \cup KeysOf(Written(rec))
    BY <1>1, <2>2, <2>4, <2>5 DEF AllRecorded, Recorded
  <2>. QED  BY <1>1, <2>2, <2>3, <2>5, <2>6 DEF Sound, TypeOK
<1>3. CASE fd /\ w = Lost(size)
  <2>1. /\ w.file = file /\ w.pos = pos /\ w.failed = TRUE
        /\ w.size = totalSize + size /\ w.event = event + 1
    BY <1>3 DEF Lost, Counted, Now
  <2>2. w.file \in Seq(Records) /\ w.pos \in 0..Len(w.file)
    BY <1>1, <2>1 DEF TypeOK
  <2>3. /\ w.size \in Nat /\ w.event \in Nat /\ w.size <= totalSize + size
    BY <1>1, <2>1 DEF TypeOK
  <2>4. /\ \A i \in DOMAIN w.file : Readable(w.file[i].data)
        /\ ~carried /\ fd => w.pos = Len(w.file)
    BY <1>1, <2>1 DEF ReadsBack, FileInv
  <2>5. w.failed /\ w.failed \in BOOLEAN
    BY <2>1
  <2>. QED  BY <2>1, <2>2, <2>3, <2>4, <2>5 DEF Sound
<1>4. CASE ~fd
  <2>1. w = Now /\ failed
    BY <1>1, <1>4 DEF Afterwards, OpenInv
  <2>2. w.file = file /\ w.size = totalSize /\ w.failed
    BY <2>1 DEF Now
  <2>. QED  BY <1>1, <2>1, <2>2, NowIsSound DEF Sound, TypeOK
<1>. QED  BY <1>2, <1>3, <1>4 DEF Afterwards

-----------------------------------------------------------------------------
(***************************************************************************)
(* The inductive invariant.                                                *)
(***************************************************************************)
LEMMA InvInit == Init => WriterInv
<1>. SUFFICES ASSUME Init PROVE WriterInv
  OBVIOUS
<1>1. <<>> \in Seq(Records) /\ Len(<<>>) = 0 /\ DOMAIN <<>> = {} /\ KeysOf(<<>>) = {}
  BY DEF KeysOf
<1>2. Empty \in Buffers /\ ~Empty.bit
  BY DEF Empty, Buffers
<1>3. TypeOK
  <2>1. 0 \in 0..MaxRuns /\ 0 \in 0..0
    BY WriterAssumption
  <2>. QED  BY <1>1, <1>2, <2>1 DEF Init, TypeOK
<1>4. Recorded = {} /\ handed = {}
  BY <1>1 DEF Init, Recorded
<1>5. SourceInv /\ AllRecorded /\ FileInv
  BY <1>2, <1>4 DEF Init, SourceInv, AllRecorded, FileInv
<1>6. OpenInv /\ SizeInv
  BY DEF Init, OpenInv, OpenInRun, SizeInv
<1>7. ReadsBack
  BY <1>1 DEF Init, ReadsBack
<1>. QED  BY <1>3, <1>5, <1>6, <1>7 DEF WriterInv

\* START.
LEMMA StartKeepsInv ==
  ASSUME WriterInv, NEW r \in 1..MaxRuns, Start(r)
  PROVE  WriterInv' /\ Recorded \subseteq Recorded'
<1>1. TypeOK /\ SourceInv /\ OpenInv /\ SizeInv /\ FileInv /\ AllRecorded /\ ReadsBack
  BY DEF WriterInv
<1>2. Sound(Now, handed) /\ Now.file = file /\ handed \in SUBSET Keys
  BY <1>1, NowIsSound DEF Now, TypeOK
<1>3. /\ ~inRun /\ ticked /\ inRun' /\ run' = r /\ runs' = runs + 1 /\ runs < MaxRuns
      /\ carried' = (carried \/ totalSize > 0) /\ carried' \in BOOLEAN
      /\ UNCHANGED <<totalSize, spent, source, handed, compressing, dummy>>
      /\ Opens(r, Now) \/ OpenFailed(Now)
  BY <1>1 DEF Start, chain, parameters, OpenInv, TypeOK
<1>4. /\ file' \in Seq(Records) /\ pos' \in 0..Len(file')
      /\ event' \in Nat /\ fd' \in BOOLEAN /\ started' \in BOOLEAN /\ failed' \in BOOLEAN
      /\ ticked' \in BOOLEAN /\ disk' \subseteq Keys
      /\ \A i \in DOMAIN file' : Readable(file'[i].data)
      /\ carried' \/ failed' \/ handed = disk' \cup KeysOf(file')
      /\ ~carried' /\ fd' => pos' = Len(file')
      /\ fd' => started'
      /\ ~failed' => fd'
      /\ disk \cup KeysOf(file) = disk' \cup KeysOf(file')
  BY <1>1, <1>2, <1>3, OpensKeeps
<1>5. TypeOK' /\ SourceInv'
  BY <1>1, <1>3, <1>4 DEF TypeOK, SourceInv
<1>6. OpenInv' /\ FileInv' /\ AllRecorded' /\ ReadsBack'
  BY <1>1, <1>3, <1>4 DEF OpenInv, OpenInRun, FileInv, AllRecorded, Recorded, ReadsBack
<1>7. SizeInv'
  <2>1. ~carried' => ~(totalSize > 0)
    BY <1>3
  <2>. QED  BY <1>1, <1>3, <2>1 DEF SizeInv, TypeOK
<1>. QED  BY <1>4, <1>5, <1>6, <1>7 DEF WriterInv, Recorded

\* An event, and what becomes of the file behind it.
LEMMA ProcessEventKeepsInv ==
  ASSUME WriterInv, NEW key \in Keys, NEW size \in Sizes \cup {0}, ProcessEvent(key, size)
  PROVE  WriterInv' /\ (carried \/ Recorded \subseteq Recorded')
<1>1. TypeOK /\ SourceInv /\ OpenInv /\ SizeInv /\ FileInv /\ AllRecorded /\ ReadsBack
  BY DEF WriterInv
<1>2. /\ inRun /\ size \in Nat /\ spent + size <= Speed
      /\ source' = Published /\ handed' = handed \cup {key}
      /\ UNCHANGED <<inRun, run, compressing, dummy, runs, carried>>
  BY DEF ProcessEvent, Fits, parameters
<1>3. SourceInv' /\ source' \in Buffers /\ handed' \subseteq Keys
  BY <1>1, <1>2, ReceivedIsPlain DEF SourceInv, TypeOK
<1>4. CASE ~started
  <2>1. UNCHANGED <<started, fd, totalSize, event, file, pos, disk, ticked, spent, failed>>
    BY <1>4 DEF ProcessEvent
  <2>2. failed /\ ~fd
    BY <1>1, <1>2, <1>4 DEF OpenInv, OpenInRun
  <2>3. TypeOK' /\ OpenInv' /\ SizeInv' /\ FileInv' /\ AllRecorded' /\ ReadsBack'
    BY <1>1, <1>2, <1>3, <2>1, <2>2
       DEF TypeOK, OpenInv, OpenInRun, SizeInv, FileInv, AllRecorded, ReadsBack
  <2>. QED  BY <1>3, <2>1, <2>3 DEF WriterInv, Recorded
<1>5. CASE started
  <2>2. PICK w \in Afterwards(key, size) : Rollover(w) /\ spent' = spent + size
    BY <1>5 DEF ProcessEvent
  <2>1. Sound(w, handed') /\ w.size <= totalSize + size
    BY <1>2, <1>5, AfterwardsIsSound
  <2>3. ~carried => disk \cup KeysOf(file) \subseteq disk \cup KeysOf(w.file)
    BY <1>2, <1>5, AfterwardsIsSound
  <2>4. w.size \in Nat /\ handed' \in SUBSET Keys
    BY <1>3, <2>1 DEF Sound
  <2>5. CASE w.size > MaxSize
    <3>1. totalSize' = 0 /\ (Opens(run, w) \/ OpenFailed(w))
      BY <2>2, <2>5 DEF Rollover
    <3>2. ~carried => ticked
      BY SMTT(30), <1>1, <1>2, <2>1, <2>4, <2>5 DEF SizeInv, TypeOK
    <3>3. /\ file' \in Seq(Records) /\ pos' \in 0..Len(file')
          /\ event' \in Nat /\ fd' \in BOOLEAN /\ started' \in BOOLEAN /\ failed' \in BOOLEAN
          /\ ticked' \in BOOLEAN /\ disk' \subseteq Keys
          /\ \A i \in DOMAIN file' : Readable(file'[i].data)
          /\ carried' \/ failed' \/ handed' = disk' \cup KeysOf(file')
          /\ ~carried' /\ fd' => pos' = Len(file')
          /\ fd' => started'
          /\ ~failed' => fd'
          /\ ticked => disk \cup KeysOf(w.file) = disk' \cup KeysOf(file')
      <4>1. carried' = carried /\ carried' \in BOOLEAN
        BY <1>1, <1>2 DEF TypeOK
      <4>. QED  BY <1>1, <2>1, <2>4, <3>1, <3>2, <4>1, OpensKeeps
    <3>4. TypeOK' /\ OpenInv' /\ FileInv' /\ AllRecorded' /\ ReadsBack'
      BY SMTT(30), <1>1, <1>2, <1>3, <2>2, <3>1, <3>3
         DEF TypeOK, OpenInv, OpenInRun, FileInv, AllRecorded, Recorded, ReadsBack
    <3>5. SizeInv'
      BY <1>1, <1>2, <2>2, <3>1 DEF SizeInv, TypeOK
    <3>. QED  BY <1>2, <1>3, <2>3, <3>2, <3>3, <3>4, <3>5 DEF WriterInv, Recorded
  <2>6. CASE ~(w.size > MaxSize)
    <3>1. /\ totalSize' = w.size /\ file' = w.file /\ pos' = w.pos /\ event' = w.event
          /\ failed' = w.failed /\ UNCHANGED <<fd, started, disk, ticked>>
      BY <2>2, <2>6 DEF Rollover, Continues, Leaves
    <3>2. TypeOK' /\ OpenInv' /\ FileInv' /\ AllRecorded' /\ ReadsBack'
      BY SMTT(30), <1>1, <1>2, <1>3, <2>1, <2>2, <3>1
         DEF TypeOK, OpenInv, OpenInRun, FileInv, AllRecorded, Recorded, ReadsBack, Sound
    <3>3. SizeInv'
      BY <1>1, <1>2, <2>1, <2>2, <2>4, <3>1 DEF SizeInv, TypeOK
    <3>. QED  BY <1>2, <1>3, <2>3, <3>1, <3>2, <3>3 DEF WriterInv, Recorded
  <2>. QED  BY <2>5, <2>6
<1>. QED  BY <1>1, <1>4, <1>5 DEF TypeOK

\* STOP, a run header, a second.
LEMMA OthersKeepInv ==
  ASSUME WriterInv, Stop \/ Tick \/ (\E size \in Sizes : RunHeader(size))
  PROVE  WriterInv' /\ (carried \/ Recorded \subseteq Recorded')
<1>1. TypeOK /\ SourceInv /\ OpenInv /\ SizeInv /\ FileInv /\ AllRecorded /\ ReadsBack
  BY DEF WriterInv
<1>2. CASE Stop
  <2>1. TypeOK' /\ SourceInv' /\ OpenInv'
    BY <1>1, <1>2 DEF Stop, chain, parameters, TypeOK, SourceInv, OpenInv, OpenInRun
  <2>3. 0 <= Speed
    BY WriterAssumption
  <2>4. SizeInv'
    BY <1>2, <2>3 DEF Stop, SizeInv
  <2>2. FileInv' /\ AllRecorded' /\ ReadsBack' /\ Recorded' = Recorded
    BY <1>1, <1>2 DEF Stop, chain, FileInv, AllRecorded, Recorded, ReadsBack
  <2>. QED  BY <2>1, <2>2, <2>4 DEF WriterInv
<1>3. CASE Tick
  <2>1. TypeOK' /\ SourceInv' /\ OpenInv'
    BY <1>1, <1>3 DEF Tick, chain, parameters, TypeOK, SourceInv, OpenInv, OpenInRun
  <2>3. 0 <= Speed
    BY WriterAssumption
  <2>4. SizeInv'
    BY <1>3, <2>3 DEF Tick, SizeInv
  <2>2. FileInv' /\ AllRecorded' /\ ReadsBack' /\ Recorded' = Recorded
    BY <1>1, <1>3 DEF Tick, chain, FileInv, AllRecorded, Recorded, ReadsBack
  <2>. QED  BY <2>1, <2>2, <2>4 DEF WriterInv
<1>4. ASSUME NEW size \in Sizes, RunHeader(size)
      PROVE  WriterInv' /\ (carried \/ Recorded \subseteq Recorded')
  <2>. DEFINE rec == Record(Header, 0, Compress(Empty))
  <2>1. rec \in Records /\ Readable(rec.data) /\ rec.key = 0
    BY DataReads DEF Record, Records
  <2>. HIDE DEF rec
  <2>2. /\ Written(rec) \in Seq(Records) /\ pos + 1 \in 0..Len(Written(rec))
        /\ \A i \in DOMAIN Written(rec) : Readable(Written(rec)[i].data)
        /\ pos = Len(file) => /\ Len(Written(rec)) = pos + 1
                              /\ KeysOf(Written(rec)) = KeysOf(file)
    BY <1>1, <2>1, WrittenFacts
  <2>3. /\ inRun /\ fd /\ spent + size <= Speed /\ size \in Nat
        /\ \/ file' = Written(rec) /\ pos' = pos + 1
           \/ file' = file /\ pos' = pos
        /\ totalSize' = totalSize + size /\ spent' = spent + size
        /\ UNCHANGED <<inRun, run, started, fd, event, disk, ticked, source, handed,
                       compressing, dummy, runs, failed, carried>>
    BY <1>4 DEF RunHeader, Fits, chain, parameters, rec
  <2>6. /\ file' \in Seq(Records) /\ pos' \in 0..Len(file')
        /\ \A i \in DOMAIN file' : Readable(file'[i].data)
        /\ ~carried => pos' = Len(file') /\ KeysOf(file') = KeysOf(file)
    BY <1>1, <2>2, <2>3 DEF FileInv, ReadsBack, TypeOK
  <2>4. TypeOK' /\ SourceInv' /\ OpenInv'
    BY <1>1, <2>3, <2>6 DEF TypeOK, SourceInv, OpenInv, OpenInRun
  <2>5. SizeInv'
    BY <1>1, <2>3 DEF SizeInv, TypeOK
  <2>7. FileInv' /\ ReadsBack'
    BY <2>3, <2>6 DEF FileInv, ReadsBack
  <2>8. AllRecorded' /\ (carried \/ Recorded' = Recorded)
    BY <1>1, <2>3, <2>6 DEF AllRecorded, Recorded
  <2>. QED  BY <2>3, <2>4, <2>5, <2>7, <2>8 DEF WriterInv
<1>. QED  BY <1>2, <1>3, <1>4

\* Every step keeps the invariant, and what has been recorded unless a run has
\* begun with the size of another.
LEMMA NextKeepsInv ==
  WriterInv /\ [Next]_vars => WriterInv' /\ (carried \/ Recorded \subseteq Recorded')
<1>. SUFFICES ASSUME WriterInv, [Next]_vars
              PROVE  WriterInv' /\ (carried \/ Recorded \subseteq Recorded')
  OBVIOUS
<1>1. CASE \E r \in 1..MaxRuns : Start(r)
  BY <1>1, StartKeepsInv
<1>2. CASE \E key \in Keys, size \in Sizes \cup {0} : ProcessEvent(key, size)
  BY <1>2, ProcessEventKeepsInv
<1>3. CASE Stop \/ Tick \/ (\E size \in Sizes : RunHeader(size))
  BY <1>3, OthersKeepInv
<1>4. CASE UNCHANGED vars
  <2>1. WriterInv'
    BY <1>4 DEF vars, WriterInv, TypeOK, SourceInv, OpenInv, OpenInRun, SizeInv, FileInv,
                AllRecorded, Recorded, ReadsBack
  <2>. QED  BY <1>4, <2>1 DEF vars, Recorded
<1>. QED  BY <1>1, <1>2, <1>3, <1>4 DEF Next

\* The invariant holds of every behaviour of the writer.
THEOREM WriterInvariant == Spec => []WriterInv
BY InvInit, NextKeepsInv, PTL DEF Spec

-----------------------------------------------------------------------------
(***************************************************************************)
(* What follows.                                                           *)
(***************************************************************************)

\* Every event that was given to the writer is in one of its files, unless an
\* open or a write has failed or a run has begun with the size of an earlier one.
THEOREM AllRecordedHolds == Spec => []AllRecorded
<1>1. WriterInv => AllRecorded
  BY DEF WriterInv
<1>. QED  BY <1>1, WriterInvariant, PTL

\* Whatever was recorded can be read back as its source has filled it in,
\* whether the sources compress or not.
THEOREM ReadsBackHolds == Spec => []ReadsBack
<1>1. WriterInv => ReadsBack
  BY DEF WriterInv
<1>. QED  BY <1>1, WriterInvariant, PTL

\* No file is open between two runs.
THEOREM OpenInRunHolds == Spec => []OpenInRun
<1>1. WriterInv => OpenInRun
  BY DEF WriterInv, OpenInv
<1>. QED  BY <1>1, WriterInvariant, PTL

\* Nothing that was recorded is written over, but in a run that has begun with
\* the size of an earlier one.
THEOREM KeptUnlessCarriedHolds == Spec => KeptUnlessCarried
<1>1. WriterInv /\ [Next]_vars => [carried \/ Recorded \subseteq Recorded']_vars
  BY NextKeepsInv
<1>. QED  BY <1>1, WriterInvariant, PTL DEF Spec, KeptUnlessCarried
=============================================================================
