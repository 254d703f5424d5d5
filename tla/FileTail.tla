------------------------------- MODULE FileTail -------------------------------
(***************************************************************************)
(* fileTailer (src/fileTailer.cc), which JOBLOG of the job control uses to *)
(* answer with the last lines of a log file (src/fsmjob.cc): it reads the  *)
(* file once, character by character, into a buffer of fixed size that it  *)
(* uses as a ring, and keeps pointers to the last lines in it.             *)
(*                                                                         *)
(* A character of the buffer is the place it had in the file, so that what *)
(* a pointer leads to says which piece of the file it is.  The job may     *)
(* still write the file: it ends where getc meets its end.                 *)
(***************************************************************************)
EXTENDS Integers, Sequences, FiniteSets, SequencesExt

CONSTANTS
  Counts,        (* numbers of lines that may be asked for, 0 apart          *)
  Sizes,         (* sizes of the buffer (512 K in JOBLOG)                    *)
  MaxFile        (* bound: characters in the file                            *)

ASSUME FileTailAssumption ==
  /\ Counts \subseteq Nat \ {0}
  /\ Sizes \subseteq Nat \ {0, 1, 2}
  /\ MaxFile \in Nat

NULL == -1       \* no pointer
NUL == 0         \* the end of a string
Uninit == -2     \* buff is on the stack

VARIABLES
  nlines, maxbuff,  \* the parameters
  file,             \* history: what getc has returned
  buff,             \* buff[]
  lines,            \* lines[][2]
  buffp, linestart, \* pointers into buff
  wrap, nfound,
  status            \* "reading", "full" after the break, "done" after EOF,
                    \* "undefined"

parameters == <<nlines, maxbuff>>
vars == <<parameters, file, buff, lines, buffp, linestart, wrap, nfound, status>>

Places == 0..(maxbuff - 1)
Unset == [half \in 0..1 |-> NULL]

\* Neither what fopen returns is looked at, nor the number of lines asked for:
\* getc(NULL), and shift() of an array of no lines at the first character, may
\* do anything.
Init ==
  /\ nlines \in Counts /\ maxbuff \in Sizes
  /\ file = <<>>
  /\ buff = [place \in Places |-> Uninit]
  /\ lines = [i \in 1..nlines |-> Unset]
  /\ buffp = 0 /\ linestart = 0 /\ wrap = 0 /\ nfound = 0
  /\ status \in {"reading", "undefined"}

-----------------------------------------------------------------------------
Shift(ls) == [i \in 1..nlines |-> IF i < nlines THEN ls[i + 1] ELSE Unset]

\* (variant) looks at the place itself only
TestForRoomHere(ls, found, p) == p # ls[nlines - found + 1][0]

\* The oldest line does not start at p nor at the place after it.
TestForRoom(ls, found, p) == ls[nlines - found + 1][0] \notin {p, p + 1}

\* At the first character of a line the pointers make room for it ...
Begins == buffp = linestart /\ wrap = 0
Found == IF Begins /\ nfound < nlines THEN nfound + 1 ELSE nfound
Shifted == IF Begins THEN Shift(lines) ELSE lines

\* ... and a line that comes to the end of the buffer goes on at its beginning.
Wraps == buffp = maxbuff - 1
Place == IF Wraps THEN 0 ELSE buffp
Start == IF Wraps THEN 0 ELSE linestart
Half == IF Wraps THEN 1 ELSE wrap
Text == IF Wraps THEN [buff EXCEPT ![buffp] = NUL] ELSE buff
Pointers == IF Wraps THEN [Shifted EXCEPT ![nlines][0] = linestart] ELSE Shifted

\* A character for which there is no room ends the loop.
NoRoom(c) ==
  /\ ~TestForRoom(Pointers, Found, Place)
  /\ status' = "full"
  /\ buff' = Text /\ lines' = Pointers
  /\ buffp' = Place /\ linestart' = Start /\ wrap' = Half /\ nfound' = Found
  /\ file' = Append(file, c)

\* A character other than the newline ...
Store ==
  /\ TestForRoom(Pointers, Found, Place)
  /\ file' = Append(file, "char")
  /\ buff' = [Text EXCEPT ![Place] = Len(file) + 1]
  /\ lines' = Pointers
  /\ buffp' = Place + 1 /\ linestart' = Start /\ wrap' = Half /\ nfound' = Found
  /\ UNCHANGED status

\* ... and the newline, which ends the string and the line.
StoreNewline ==
  /\ TestForRoom(Pointers, Found, Place)
  /\ file' = Append(file, "newline")
  /\ buff' = [Text EXCEPT ![Place] = Len(file) + 1, ![Place + 1] = NUL]
  /\ lines' = [Pointers EXCEPT ![nlines][Half] = Start]
  /\ buffp' = IF Place + 2 >= maxbuff - 1 THEN 0 ELSE Place + 2
  /\ linestart' = buffp' /\ wrap' = 0 /\ nfound' = Found
  /\ UNCHANGED status

\* (variant) takes every file to end with a newline
EndOfFileOnly ==
  /\ status = "reading" /\ status' = "done"
  /\ UNCHANGED <<parameters, file, buff, lines, buffp, linestart, wrap, nfound>>

\* The file ends, perhaps without a newline.
EndOfFile ==
  /\ status = "reading" /\ status' = "done"
  /\ IF buffp # 0 /\ buff[buffp - 1] # NUL
       THEN /\ buff' = [buff EXCEPT ![buffp] = NUL]
            /\ lines' = [lines EXCEPT ![nlines][wrap] = linestart]
       ELSE UNCHANGED <<buff, lines>>
  /\ UNCHANGED <<parameters, file, buffp, linestart, wrap, nfound>>

\* (bound: MaxFile)
GetC ==
  /\ status = "reading" /\ Len(file) < MaxFile
  /\ NoRoom("char") \/ NoRoom("newline") \/ Store \/ StoreNewline
  /\ UNCHANGED parameters

Next == GetC \/ EndOfFile

Spec == Init /\ [][Next]_vars

-----------------------------------------------------------------------------
(***************************************************************************)
(* Properties.                                                             *)
(***************************************************************************)

\* The string at p.
String(p) ==
  IF p = NULL THEN <<>>
  ELSE LET end == Min({q \in p..(maxbuff - 1) : buff[q] = NUL})
       IN  [k \in 1..(end - p) |-> buff[p + k - 1]]

Line(i) == String(lines[i][0]) \o String(lines[i][1])

LineStarts ==
  {k \in DOMAIN file : k = 1 \/ file[k - 1] = "newline"}

\* The reference: where the last n lines of the file begin.
FirstOfLast(n) ==
  IF Cardinality(LineStarts) <= n
    THEN 1
    ELSE CHOOSE k \in LineStarts : Cardinality({l \in LineStarts : l >= k}) = n

\* What a line's pointers lead to is a piece of one line of the file, from its
\* beginning on: the ring has not come round over it, nor has an end of string
\* been put into it.
LinesIntact ==
  \A i \in 1..nlines : Line(i) # <<>> =>
    /\ Line(i)[1] \in LineStarts
    /\ \A k \in 2..Len(Line(i)) :
         Line(i)[k] = Line(i)[k - 1] + 1 /\ file[Line(i)[k - 1]] # "newline"

HaveLastLines ==
  FlattenSeq([i \in 1..nlines |-> Line(i)])
    = [k \in 1..(Len(file) - FirstOfLast(nlines) + 1) |-> FirstOfLast(nlines) + k - 1]

\* When the whole file has been read, the pointers have its last nlines lines,
\* one each, in order and to the end.
LastLines == status = "done" => HaveLastLines

-----------------------------------------------------------------------------
(***************************************************************************)
(* The inductive invariant (FileTailProofs).                               *)
(***************************************************************************)
TypeOK ==
  /\ nlines \in Counts /\ maxbuff \in Sizes
  /\ file \in Seq({"char", "newline"})
  /\ buff \in [Places -> Int]
  /\ lines \in [1..nlines -> [0..1 -> Places \cup {NULL}]]
  /\ buffp \in Places /\ linestart \in Places /\ wrap \in 0..1
  /\ nfound \in 0..nlines
  /\ status \in {"reading", "full", "done", "undefined"}

\* A line of file f begins with its character c, and the n characters from there
\* on are all of that line.
OneLine(f, c, n) ==
  /\ c \in DOMAIN f /\ (c = 1 \/ f[c - 1] = "newline")
  /\ n > 0 /\ c + n - 1 \in DOMAIN f
  /\ \A k \in c..(c + n - 2) : f[k] # "newline"

\* The places of buffer b from s up to, but not e have the characters from c on.
Copied(b, s, e, c) == s < e /\ \A q \in s..(e - 1) : b[q] = c + (q - s)

\* The pointers l lead to the n characters from c on, within the places zone.
Holds(b, l, c, n, zone) ==
  /\ l[0] \in DOMAIN b /\ l[0] + 1 \in DOMAIN b
  /\ \E e \in DOMAIN b :
       /\ Copied(b, l[0], e, c) /\ b[e] = NUL /\ l[0]..e \subseteq zone
       /\ \/ l[1] = NULL /\ n = e - l[0]
          \/ /\ l[1] = 0 /\ e + 1 \notin DOMAIN b
             /\ \E g \in DOMAIN b :
                  /\ Copied(b, 0, g, c + (e - l[0])) /\ b[g] = NUL /\ 0..g \subseteq zone
                  /\ n = (e - l[0]) + g

\* The places of a buffer written since the place start, when p is the next one.
Zone(start, p, size) == IF start < p THEN start..(p - 1) ELSE 0..(p - 1) \cup start..(size - 1)

\* The lines with a pointer: the last nfound, but not the one at hand before it
\* has come to the end of the buffer.
Pointed == {i \in 1..nlines : lines[i][0] # NULL}
AtHand == status = "reading" /\ ~Begins /\ wrap = 0

PointerInv ==
  /\ \A i \in 1..nlines : i \notin Pointed => lines[i] = Unset
  /\ status # "full" => Pointed = (nlines - nfound + 1)..(IF AtHand THEN nlines - 1 ELSE nlines)

First(i) == buff[lines[i][0]]

\* Where line i ends, or has come to: before the next one.
Until(i) ==
  IF i < nlines
    THEN IF i + 1 \in Pointed THEN First(i + 1) ELSE buff[linestart]
  ELSE IF status = "reading" /\ wrap = 1
    THEN First(i) + (maxbuff - 1 - lines[i][0])
  ELSE Len(file) + 1

\* The lines lie one behind the other in the ring, up to buffp: a line and those
\* after it are within what has been written since its beginning.
RingInv ==
  \A i \in Pointed, j \in Pointed : j >= i =>
    \E n \in 1..Len(file) :
      /\ OneLine(file, First(j), n)
      /\ Holds(buff, lines[j], First(j), n,
               IF status = "reading" THEN Zone(lines[i][0], buffp, maxbuff) ELSE Places)
      /\ status # "full" => n = Until(j) - First(j)

\* The line at hand: none, or what follows linestart, the end of the file so
\* far; its first half if it has come to the end of the buffer.
LineInv ==
  status = "reading" =>
    /\ linestart <= maxbuff - 2
    /\ Begins => /\ file = <<>> \/ file[Len(file)] = "newline"
                 /\ buffp = 0 \/ buff[buffp - 1] = NUL
    /\ ~Begins =>
         /\ nfound > 0 /\ file[Len(file)] # "newline"
         /\ Copied(buff, linestart, buffp, Len(file) + 1 - (buffp - linestart))
         /\ \A i \in Pointed : /\ linestart..(buffp - 1) \subseteq Zone(lines[i][0], buffp, maxbuff)
                               /\ lines[i][0] # buffp
         /\ wrap = 0 => OneLine(file, buff[linestart], buffp - linestart)
         /\ wrap = 1 =>
              /\ linestart = 0 /\ lines[nlines][0] > 0 /\ lines[nlines][1] = NULL
              /\ buff[0] = Until(nlines)
              /\ OneLine(file, First(nlines), Len(file) + 1 - First(nlines))

\* Where the lines begin that have been found and not been dropped.
Heads == {First(i) : i \in Pointed} \cup (IF AtHand THEN {buff[linestart]} ELSE {})

\* They are in the order of the file, and the last ones of it; all of them as
\* long as there are fewer than nlines.
HeadInv ==
  status # "full" =>
    /\ \A i \in Pointed : /\ \A j \in Pointed : i < j => First(i) < First(j)
                          /\ AtHand => First(i) < buff[linestart]
    /\ \A k \in LineStarts : k \in Heads \/ (nfound = nlines /\ \A head \in Heads : k < head)

TailInv == TypeOK /\ PointerInv /\ RingInv /\ LineInv /\ HeadInv

-----------------------------------------------------------------------------
(***************************************************************************)
(* What does not hold.                                                     *)
(***************************************************************************)

\* What tail() prints (of a line in two halves, the first one twice).
Printed(i) ==
  String(lines[i][0]) \o (IF lines[i][1] = NULL THEN <<>> ELSE String(lines[i][0]))

\* fileTailer.cc:21, "[1] for storing second half of a wrapped line": tail()
\* prints the lines that have been found.
PrintsLines == status = "done" => \A i \in 1..nlines : Printed(i) = Line(i)

\* fileTailer.cc:167, "findTail finds the last n lines from the input": not
\* when it has run out of room.
FindsLastLines == status # "reading" => HaveLastLines
=============================================================================
