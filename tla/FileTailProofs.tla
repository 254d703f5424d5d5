---------------------------- MODULE FileTailProofs ----------------------------
EXTENDS FileTail, FiniteSetTheorems, SequenceTheorems, WellFoundedInduction, TLAPS

(***************************************************************************)
(* Proofs about FileTail.                                                  *)
(*                                                                         *)
(* TailInv is inductive for any number of lines, any size of the buffer    *)
(* and any file.  A turn of the loop first makes room for a line that      *)
(* begins, or goes on at the beginning of the buffer, and then stores the  *)
(* character or gives up: Ready says what is true in between.  What keeps  *)
(* the ring from coming round over a line is the test of the oldest one    *)
(* alone, because the lines lie behind one another (RoomForAll).           *)
(***************************************************************************)
Characters == {"char", "newline"}
Slots == [0..1 -> Places \cup {NULL}]

(***************************************************************************)
(* Buffers, zones and pieces of a file.                                    *)
(***************************************************************************)
\* The file f2 is f and one more character ch.
Longer(f, f2, ch) ==
  /\ f \in Seq(Characters) /\ f2 \in Seq(Characters) /\ Len(f) \in Nat /\ Len(f2) = Len(f) + 1
  /\ DOMAIN f = 1..Len(f) /\ DOMAIN f2 = 1..(Len(f) + 1)
  /\ f2[Len(f) + 1] = ch /\ \A q \in 1..Len(f) : f2[q] = f[q]

LEMMA AppendIsLonger ==
  ASSUME NEW f \in Seq(Characters), NEW ch \in Characters
  PROVE  Longer(f, Append(f, ch), ch)
BY DEF Longer

LEMMA OneLineKept ==
  ASSUME NEW f, NEW f2, NEW ch, Longer(f, f2, ch), NEW c, NEW n \in Int, OneLine(f, c, n)
  PROVE  OneLine(f2, c, n)
<1>1. /\ DOMAIN f = 1..Len(f) /\ Len(f) \in Nat /\ DOMAIN f2 = 1..(Len(f) + 1)
      /\ \A k \in 1..Len(f) : f2[k] = f[k]
  BY DEF Longer
<1>2. c \in 1..Len(f) /\ c + n - 1 \in 1..Len(f)
  BY <1>1 DEF OneLine
<1>3. ASSUME NEW k \in c..(c + n - 2)
      PROVE  f2[k] # "newline"
  <2>1. k \in 1..Len(f) /\ f[k] # "newline"
    BY <1>1, <1>2 DEF OneLine
  <2> QED BY <1>1, <2>1
<1>4. c = 1 \/ f2[c - 1] = "newline"
  <2>1. CASE c # 1
    <3>1. c - 1 \in 1..Len(f)
      BY <1>1, <1>2, <2>1
    <3> QED BY <1>1, <2>1, <3>1 DEF OneLine
  <2> QED BY <2>1
<1>5. c \in DOMAIN f2 /\ c + n - 1 \in DOMAIN f2
  BY <1>1, <1>2
<1> QED BY <1>3, <1>4, <1>5 DEF OneLine

LEMMA OneLineIn ==
  ASSUME NEW f \in Seq(Characters), NEW c, NEW n \in Int, OneLine(f, c, n)
  PROVE  c \in Nat /\ c > 0 /\ c <= Len(f) /\ c + n - 1 <= Len(f) /\ n > 0 /\ n \in 1..Len(f)
BY DEF OneLine

LEMMA CopiedKept ==
  ASSUME NEW b, NEW b2, NEW s \in Int, NEW e \in Int, NEW c, Copied(b, s, e, c),
         \A q \in s..e : b2[q] = b[q]
  PROVE  Copied(b2, s, e, c)
BY DEF Copied

LEMMA HoldsKept ==
  ASSUME NEW size \in Nat, NEW b \in [0..(size - 1) -> Int], NEW b2 \in [0..(size - 1) -> Int],
         NEW l, NEW c, NEW n, NEW zone, NEW zone2,
         Holds(b, l, c, n, zone), zone \subseteq zone2, \A q \in zone : b2[q] = b[q]
  PROVE  Holds(b2, l, c, n, zone2)
<1>1. DOMAIN b = 0..(size - 1) /\ DOMAIN b2 = 0..(size - 1)
  OBVIOUS
<1>2. l[0] \in Int /\ l[0] \in DOMAIN b2 /\ l[0] + 1 \in DOMAIN b2
  BY <1>1 DEF Holds
<1>3. PICK e \in DOMAIN b :
       /\ Copied(b, l[0], e, c) /\ b[e] = NUL /\ l[0]..e \subseteq zone
       /\ \/ l[1] = NULL /\ n = e - l[0]
          \/ /\ l[1] = 0 /\ e + 1 \notin DOMAIN b
             /\ \E g \in DOMAIN b :
                  /\ Copied(b, 0, g, c + (e - l[0])) /\ b[g] = NUL /\ 0..g \subseteq zone
                  /\ n = (e - l[0]) + g
  BY DEF Holds
<1>4. e \in Int /\ e \in l[0]..e
  BY <1>1, <1>2, <1>3 DEF Copied
<1>5. Copied(b2, l[0], e, c) /\ b2[e] = NUL /\ l[0]..e \subseteq zone2
  BY ZenonT(60), <1>2, <1>3, <1>4, CopiedKept
<1>6. CASE l[1] = NULL /\ n = e - l[0]
  BY <1>1, <1>2, <1>3, <1>5, <1>6 DEF Holds
<1>7. CASE l[1] = 0 /\ e + 1 \notin DOMAIN b /\ ~(l[1] = NULL)
  <2>1. PICK g \in DOMAIN b : /\ Copied(b, 0, g, c + (e - l[0])) /\ b[g] = NUL /\ 0..g \subseteq zone
                              /\ n = (e - l[0]) + g
    BY <1>3, <1>7
  <2>2. g \in Int /\ g \in 0..g
    BY <1>1
  <2>3. \A q \in 0..g : b2[q] = b[q]
    BY <2>1
  <2>4. Copied(b2, 0, g, c + (e - l[0]))
    BY <2>1, <2>2, <2>3 DEF Copied
  <2>5. b2[g] = NUL /\ 0..g \subseteq zone2
    BY <2>1, <2>2
  <2> QED BY <1>1, <1>2, <1>3, <1>5, <1>7, <2>1, <2>4, <2>5 DEF Holds
<1> QED BY <1>3, <1>6, <1>7 DEF NULL

\* The first place of a line is in its zone, and has its first character.
LEMMA HoldsFirst ==
  ASSUME NEW size \in Nat, NEW b \in [0..(size - 1) -> Int], NEW l, NEW c \in Int, NEW n, NEW zone,
         Holds(b, l, c, n, zone)
  PROVE  l[0] \in zone /\ l[0] \in 0..(size - 2) /\ b[l[0]] = c
<1>1. l[0] \in 0..(size - 2)
  BY DEF Holds
<1>2. PICK e \in 0..(size - 1) : Copied(b, l[0], e, c) /\ l[0]..e \subseteq zone
  BY DEF Holds
<1>3. l[0] \in l[0]..(e - 1) /\ l[0] \in l[0]..e
  BY <1>1, <1>2 DEF Copied
<1>4. b[l[0]] = c + (l[0] - l[0])
  BY <1>2, <1>3 DEF Copied
<1> QED BY <1>1, <1>2, <1>3, <1>4

\* The characters of a line whose second pointer is not set end within the zone.
LEMMA HoldsInOnePiece ==
  ASSUME NEW size \in Nat, NEW b \in [0..(size - 1) -> Int], NEW l, NEW c, NEW n, NEW zone,
         Holds(b, l, c, n, zone), l[1] = NULL
  PROVE  \E e \in 0..(size - 1) : l[0]..e \subseteq zone /\ n = e - l[0]
BY DEF Holds, NULL

LEMMA OneMore ==
  ASSUME NEW a \in Int, NEW b \in Int, a <= b
  PROVE  a..b = a..(b - 1) \cup {b}
OBVIOUS

LEMMA MovedBy ==
  ASSUME NEW p \in Int, NEW m \in Int, NEW o \in Int, NEW H \in Int, NEW e \in Int,
         p + (m - 1 - o) = e + 1 - H
  PROVE  e + 2 - (p + 1) = H + (m - 1 - o)
OBVIOUS

\* What the next place adds to a zone whose start it is not.
LEMMA ZoneGrows ==
  ASSUME NEW size \in Nat, NEW o \in 0..(size - 2), NEW p \in 0..(size - 2), o # p
  PROVE  /\ Zone(o, p, size) \subseteq Zone(o, p + 1, size)
         /\ p \in Zone(o, p + 1, size) /\ p \notin Zone(o, p, size)
         /\ Zone(o, p, size) \subseteq 0..(size - 1)
BY DEF Zone

LEMMA ZoneGrowsByTwo ==
  ASSUME NEW size \in Nat, NEW o \in 0..(size - 2), NEW p \in 0..(size - 2), o # p, o # p + 1,
         NEW r, r = IF p + 2 >= size - 1 THEN 0 ELSE p + 2
  PROVE  /\ Zone(o, p, size) \subseteq Zone(o, r, size)
         /\ p \in Zone(o, r, size) /\ p + 1 \in Zone(o, r, size)
         /\ p \notin Zone(o, p, size) /\ p + 1 \notin Zone(o, p, size)
BY DEF Zone

LEMMA ZoneWraps ==
  ASSUME NEW size \in Nat, NEW o \in 0..(size - 2)
  PROVE  /\ Zone(o, size - 1, size) \subseteq Zone(o, 0, size)
         /\ size - 1 \in Zone(o, 0, size) /\ size - 1 \notin Zone(o, size - 1, size)
         /\ Zone(o, 0, size) = o..(size - 1)
BY DEF Zone

LEMMA ZonesAreOfPlaces ==
  ASSUME NEW size \in Nat, NEW o \in 0..(size - 1), NEW p \in 0..(size - 1)
  PROVE  Zone(o, p, size) \subseteq 0..(size - 1)
BY DEF Zone

\* Room behind p for the line that starts at o is room for what starts in its zone.
LEMMA RoomBehind ==
  ASSUME NEW size \in Nat, NEW o \in 0..(size - 2), NEW p \in 0..(size - 2), o \notin {p, p + 1},
         NEW s \in Zone(o, p, size)
  PROVE  s \notin {p, p + 1}
BY DEF Zone

(***************************************************************************)
(* Between making room and storing: T and L are the buffer and the         *)
(* pointers, p, s, h and N are buffp, linestart, wrap and nfound, and a    *)
(* line begins at H of the file f, if only with the next character.        *)
(***************************************************************************)
Behind(h, N) == (nlines - N + 1)..(IF h = 1 THEN nlines ELSE nlines - 1)

NextHead(T, L, h, N, H, j) ==
  IF j < nlines
    THEN IF j + 1 \in Behind(h, N) THEN T[L[j + 1][0]] ELSE H
  ELSE H + (maxbuff - 1 - L[nlines][0])

ReadyTypes(f, T, L, p, s, h, N, H) ==
  /\ nlines \in Nat /\ nlines > 0 /\ maxbuff \in Nat /\ maxbuff > 2
  /\ f \in Seq(Characters) /\ T \in [Places -> Int] /\ L \in [1..nlines -> Slots]
  /\ p \in 0..(maxbuff - 2) /\ s \in 0..p /\ h \in 0..1 /\ N \in 1..nlines /\ H \in 1..(Len(f) + 1)

ReadyPointers(L, h, N) ==
  \A i \in 1..nlines : IF i \in Behind(h, N) THEN L[i][0] # NULL ELSE L[i] = Unset

ReadyLine(f, T, L, p, s, h, H) ==
  /\ H = 1 \/ f[H - 1] = "newline"
  /\ \A k \in H..Len(f) : f[k] # "newline"
  /\ \A q \in s..(p - 1) : T[q] = Len(f) + 1 - (p - q)
  /\ h = 0 => p - s = Len(f) + 1 - H
  /\ h = 1 => /\ s = 0 /\ L[nlines][1] = NULL /\ T[L[nlines][0]] = H
              /\ p > 0 => L[nlines][0] > 0
              /\ p + (maxbuff - 1 - L[nlines][0]) = Len(f) + 1 - H

ReadyRing(f, T, L, p, s, h, N, H) ==
  \A i \in Behind(h, N) :
    /\ s..(p - 1) \subseteq Zone(L[i][0], p, maxbuff)
    /\ \A j \in Behind(h, N) : j >= i =>
         LET n == NextHead(T, L, h, N, H, j) - T[L[j][0]]
         IN  n \in 1..Len(f) /\ OneLine(f, T[L[j][0]], n)
             /\ Holds(T, L[j], T[L[j][0]], n, Zone(L[i][0], p, maxbuff))

ReadyHeads(f, T, L, h, N, H) ==
  /\ \A i \in Behind(h, N) : /\ \A j \in Behind(h, N) : i < j => T[L[i][0]] < T[L[j][0]]
                             /\ h = 0 => T[L[i][0]] < H
  /\ \A k \in DOMAIN f : (k = 1 \/ f[k - 1] = "newline") =>
       \/ k = H \/ \E i \in Behind(h, N) : k = T[L[i][0]]
       \/ N = nlines /\ k < H /\ \A i \in Behind(h, N) : k < T[L[i][0]]

Ready(f, T, L, p, s, h, N, H) ==
  /\ ReadyTypes(f, T, L, p, s, h, N, H) /\ ReadyPointers(L, h, N)
  /\ ReadyLine(f, T, L, p, s, h, H) /\ ReadyRing(f, T, L, p, s, h, N, H)
  /\ ReadyHeads(f, T, L, h, N, H)

\* The line at hand is behind the others once it has come to the end of the buffer.
LEMMA BehindOne ==
  ASSUME nlines \in Nat, nlines > 0, NEW N \in 1..nlines
  PROVE  /\ Behind(0, N) \subseteq 1..nlines /\ nlines \notin Behind(0, N) /\ nlines \in 1..nlines
         /\ Behind(1, N) = Behind(0, N) \cup {nlines} /\ Behind(1, N) = (nlines - N + 1)..nlines
<1>1. Behind(0, N) = (nlines - N + 1)..(nlines - 1) /\ Behind(1, N) = (nlines - N + 1)..nlines
  BY DEF Behind
<1>2. (nlines - N + 1)..nlines = (nlines - N + 1)..(nlines - 1) \cup {nlines}
  <2>1. nlines - N + 1 \in Int /\ nlines \in Int /\ nlines - N + 1 <= nlines
    OBVIOUS
  <2> QED BY <2>1, OneMore
<1>3. nlines \notin (nlines - N + 1)..(nlines - 1) /\ (nlines - N + 1)..(nlines - 1) \subseteq 1..nlines
  OBVIOUS
<1> QED BY <1>1, <1>2, <1>3

LEMMA BehindNext ==
  ASSUME nlines \in Nat, nlines > 0, NEW N \in 1..nlines
  PROVE  \A j \in Behind(0, N) : j < nlines /\ j + 1 \in Behind(0, N) \cup {nlines}
BY DEF Behind

LEMMA BehindAndLast ==
  ASSUME nlines \in Nat, nlines > 0, NEW N \in 1..nlines, NEW h \in 0..1
  PROVE  /\ nlines \in 1..nlines /\ Behind(h, N) \subseteq 1..nlines
         /\ \A i \in Behind(h, N) : i # nlines \/ h = 1
         /\ \A i \in 1..nlines : i = nlines \/ i \in Behind(h, N) \/ i \notin (nlines - N + 1)..nlines
         /\ Behind(h, N) \cup {nlines} = (nlines - N + 1)..nlines
         /\ \A j \in Behind(h, N) : j < nlines /\ j + 1 \notin Behind(h, N) => h = 0 /\ j + 1 = nlines
         /\ \A j \in Behind(h, N) : j < nlines => j + 1 \in Behind(h, N) \cup {nlines}
         /\ h = 1 => nlines \in Behind(h, N)
<1>1. /\ Behind(0, N) \subseteq 1..nlines /\ nlines \notin Behind(0, N) /\ nlines \in 1..nlines
      /\ Behind(1, N) = Behind(0, N) \cup {nlines} /\ Behind(1, N) = (nlines - N + 1)..nlines
  BY BehindOne
<1>2. \A j \in Behind(0, N) : j < nlines /\ j + 1 \in Behind(0, N) \cup {nlines}
  BY BehindNext
<1>3. CASE h = 0
  BY <1>1, <1>2, <1>3
<1>4. CASE h = 1
  BY <1>1, <1>2, <1>4
<1> QED BY <1>3, <1>4

\* What a line that is behind has, as one list of facts.
LEMMA BehindHas ==
  ASSUME NEW f, NEW T, NEW L, NEW p, NEW s, NEW h, NEW N, NEW H, Ready(f, T, L, p, s, h, N, H),
         NEW i \in Behind(h, N)
  PROVE  /\ i \in 1..nlines /\ L[i] \in Slots /\ L[i][0] \in 0..(maxbuff - 2) /\ T[L[i][0]] \in 1..Len(f)
         /\ \A j \in Behind(h, N) : j >= i => L[j][0] \in Zone(L[i][0], p, maxbuff)
<1>1. /\ nlines \in Nat /\ maxbuff \in Nat /\ T \in [0..(maxbuff - 1) -> Int] /\ h \in 0..1
      /\ N \in 1..nlines /\ L \in [1..nlines -> Slots] /\ f \in Seq(Characters) /\ H \in Int
  BY DEF Ready, ReadyTypes, Places
<1>2. Behind(h, N) \subseteq 1..nlines
  BY <1>1 DEF Behind
<1>3. ASSUME NEW j \in Behind(h, N), j >= i
      PROVE  /\ L[j][0] \in Zone(L[i][0], p, maxbuff) /\ L[j][0] \in 0..(maxbuff - 2)
             /\ T[L[j][0]] \in 1..Len(f)
  <2>1. j \in 1..nlines /\ L[j] \in Slots /\ L[j][0] # NULL
    BY <1>1, <1>2 DEF Ready, ReadyPointers
  <2>2. L[j][0] \in Places /\ T[L[j][0]] \in Int
    BY <1>1, <2>1 DEF Slots, Places
  <2>3. PICK n \in 1..Len(f) : /\ OneLine(f, T[L[j][0]], n)
                             /\ Holds(T, L[j], T[L[j][0]], n, Zone(L[i][0], p, maxbuff))
    BY <1>3 DEF Ready, ReadyRing
  <2>4. T[L[j][0]] \in 1..Len(f)
    BY <1>1, <2>3, OneLineIn
  <2>5. L[j][0] \in Zone(L[i][0], p, maxbuff) /\ L[j][0] \in 0..(maxbuff - 2)
    <3>1. Holds(T, L[j], T[L[j][0]], n, Zone(L[i][0], p, maxbuff))
      BY <2>3
    <3> QED BY SMTT(30), <1>1, <2>2, <3>1, HoldsFirst
  <2> QED BY <2>4, <2>5
<1>4. i >= i
  BY <1>1, <1>2
<1> QED BY <1>1, <1>2, <1>3, <1>4

\* Room behind p for the oldest line is room for every line.
LEMMA RoomForAll ==
  ASSUME NEW f, NEW T, NEW L, NEW p, NEW s, NEW h, NEW N, NEW H, Ready(f, T, L, p, s, h, N, H),
         TestForRoom(L, N, p), NEW i \in Behind(h, N)
  PROVE  L[i][0] \notin {p, p + 1}
<1> DEFINE oldest == nlines - N + 1
<1>1. nlines \in Nat /\ N \in 1..nlines /\ h \in 0..1 /\ maxbuff \in Nat /\ p \in 0..(maxbuff - 2)
  BY DEF Ready, ReadyTypes
<1>2. oldest \in Behind(h, N) /\ i >= oldest
  BY <1>1 DEF Behind
<1>3. /\ L[oldest][0] \in 0..(maxbuff - 2)
      /\ L[i][0] \in Zone(L[oldest][0], p, maxbuff)
  BY <1>2, BehindHas
<1> QED BY <1>1, <1>3, RoomBehind DEF TestForRoom

\* The ring, without its LET.
LEMMA RingHas ==
  ASSUME NEW f, NEW T, NEW L, NEW p, NEW s, NEW h, NEW N, NEW H, Ready(f, T, L, p, s, h, N, H),
         NEW i \in Behind(h, N), NEW j \in Behind(h, N), j >= i,
         NEW n, n = NextHead(T, L, h, N, H, j) - T[L[j][0]]
  PROVE  /\ n \in 1..Len(f) /\ OneLine(f, T[L[j][0]], n)
         /\ Holds(T, L[j], T[L[j][0]], n, Zone(L[i][0], p, maxbuff))
         /\ L[j][0] \in Zone(L[i][0], p, maxbuff)
BY BehindHas DEF Ready, ReadyRing

(***************************************************************************)
(* The three things the loop does with the character.                      *)
(***************************************************************************)
LEMMA NoRoomKeeps ==
  ASSUME NEW T, NEW L, NEW p, NEW s, NEW h, NEW N, NEW H, Ready(file, T, L, p, s, h, N, H),
         nlines \in Counts, maxbuff \in Sizes, UNCHANGED parameters, NEW ch, Longer(file, file', ch),
         status' = "full", buff' = T, lines' = L, buffp' = p, linestart' = s, wrap' = h,
         nfound' = N
  PROVE  TailInv'
<1>1. /\ nlines \in Nat /\ nlines > 0 /\ maxbuff \in Nat /\ maxbuff > 2 /\ file \in Seq(Characters)
      /\ T \in [Places -> Int] /\ L \in [1..nlines -> Slots] /\ p \in 0..(maxbuff - 2) /\ s \in 0..p
      /\ h \in 0..1 /\ N \in 1..nlines
  BY DEF Ready, ReadyTypes
<1>2. nlines' = nlines /\ maxbuff' = maxbuff /\ Places' = Places /\ Slots = [0..1 -> Places \cup {NULL}]
  BY DEF parameters, Places, Slots
<1>3. TypeOK'
  BY <1>1, <1>2 DEF TypeOK, Characters, Places, Longer
<1>4. PointerInv' /\ Pointed' = Behind(h, N)
  <2>1. \A i \in 1..nlines : IF i \in Behind(h, N) THEN L[i][0] # NULL ELSE L[i] = Unset
    BY DEF Ready, ReadyPointers
  <2>2. Behind(h, N) \subseteq 1..nlines
    BY <1>1 DEF Behind
  <2>3. Unset[0] = NULL
    BY DEF Unset
  <2>4. Pointed' = Behind(h, N)
    BY <1>2, <2>1, <2>2, <2>3 DEF Pointed
  <2> QED BY <1>2, <2>1, <2>4 DEF PointerInv, Unset
<1>5. RingInv'
  <2> SUFFICES ASSUME NEW i \in Behind(h, N), NEW j \in Behind(h, N), j >= i
               PROVE  \E n \in 1..Len(file') :
                        OneLine(file', T[L[j][0]], n) /\ Holds(T, L[j], T[L[j][0]], n, Places)
    BY <1>2, <1>4 DEF RingInv, First
  <2>1. Zone(L[i][0], p, maxbuff) \subseteq Places
    <3>1. L[i][0] \in 0..(maxbuff - 1) /\ p \in 0..(maxbuff - 1)
      BY <1>1, BehindHas
    <3> QED BY <1>1, <3>1, ZonesAreOfPlaces DEF Places
  <2> DEFINE n == NextHead(T, L, h, N, H, j) - T[L[j][0]]
  <2>2. n \in 1..Len(file') /\ OneLine(file', T[L[j][0]], n) /\ Holds(T, L[j], T[L[j][0]], n, Places)
    <3>1. n = NextHead(T, L, h, N, H, j) - T[L[j][0]]
      OBVIOUS
    <3> HIDE DEF n
    <3>2. /\ n \in 1..Len(file) /\ OneLine(file, T[L[j][0]], n)
          /\ Holds(T, L[j], T[L[j][0]], n, Zone(L[i][0], p, maxbuff))
      BY <3>1, RingHas
    <3>3. n \in 1..Len(file') /\ OneLine(file', T[L[j][0]], n)
      <4>1. n \in Int /\ Len(file') = Len(file) + 1 /\ Len(file) \in Nat
        BY <3>2 DEF Longer
      <4>2. OneLine(file', T[L[j][0]], n)
        BY <3>2, <4>1, OneLineKept
      <4> QED BY <3>2, <4>1, <4>2
    <3>4. Holds(T, L[j], T[L[j][0]], n, Places)
      BY <1>1, <2>1, <3>2, HoldsKept DEF Places
    <3> QED BY <3>3, <3>4
  <2> HIDE DEF n
  <2> QED BY <2>2
<1>6. LineInv' /\ HeadInv'
  BY DEF LineInv, HeadInv
<1> QED BY <1>3, <1>4, <1>5, <1>6 DEF TailInv

\* A step of the heads: the character at Len(f) + 1 begins a line only at H.
LEMMA HeadsKept ==
  ASSUME NEW f, NEW T, NEW L, NEW p, NEW s, NEW h, NEW N, NEW H, Ready(f, T, L, p, s, h, N, H),
         NEW f2, NEW ch, Longer(f, f2, ch), NEW k \in DOMAIN f2, k = 1 \/ f2[k - 1] = "newline"
  PROVE  \/ k = H \/ \E i \in Behind(h, N) : k = T[L[i][0]]
         \/ N = nlines /\ k < H /\ \A i \in Behind(h, N) : k < T[L[i][0]]
<1>1. /\ f \in Seq(Characters) /\ Len(f) \in Nat /\ H \in 1..(Len(f) + 1)
      /\ DOMAIN f2 = 1..(Len(f) + 1) /\ DOMAIN f = 1..Len(f)
      /\ \A q \in 1..Len(f) : f2[q] = f[q]
  BY DEF Ready, ReadyTypes, Longer
<1>2. CASE k = Len(f) + 1
  <2> SUFFICES k = H
    OBVIOUS
  <2>1. CASE k = 1
    BY <1>1, <1>2, <2>1
  <2>2. CASE k # 1
    <3>1. f[Len(f)] = "newline" /\ Len(f) > 0
      <4>1. k - 1 = Len(f) /\ Len(f) \in 1..Len(f)
        BY <1>1, <1>2, <2>2
      <4> QED BY <1>1, <2>2, <4>1
    <3>2. ~(Len(f) \in H..Len(f))
      BY <3>1 DEF Ready, ReadyLine
    <3> QED BY <1>1, <1>2, <3>2
  <2> QED BY <2>1, <2>2
<1>3. CASE k \in DOMAIN f
  <2>1. k = 1 \/ f[k - 1] = "newline"
    BY <1>1, <1>3
  <2> QED BY <1>3, <2>1 DEF Ready, ReadyHeads
<1> QED BY <1>1, <1>2, <1>3

LEMMA StoreKeeps ==
  ASSUME NEW T, NEW L, NEW p, NEW s, NEW h, NEW N, NEW H, Ready(file, T, L, p, s, h, N, H),
         nlines \in Counts, maxbuff \in Sizes, UNCHANGED parameters, TestForRoom(L, N, p),
         status = "reading", status' = "reading", NEW T2 \in [Places -> Int],
         T2[p] = Len(file) + 1, \A q \in Places : q # p => T2[q] = T[q], buff' = T2, lines' = L,
         buffp' = p + 1, linestart' = s, wrap' = h, nfound' = N,
         Longer(file, file', "char")
  PROVE  TailInv'
<1>1. /\ nlines \in Nat /\ nlines > 0 /\ maxbuff \in Nat /\ maxbuff > 2 /\ file \in Seq(Characters)
      /\ T \in [Places -> Int] /\ L \in [1..nlines -> Slots] /\ p \in 0..(maxbuff - 2) /\ s \in 0..p
      /\ h \in 0..1 /\ N \in 1..nlines /\ H \in 1..(Len(file) + 1) /\ Len(file) \in Nat
  BY DEF Ready, ReadyTypes
<1>0. p \in Int /\ s \in Int /\ H \in Int /\ Len(file) \in Int /\ maxbuff \in Int
  BY <1>1
<1>2. nlines' = nlines /\ maxbuff' = maxbuff /\ Places' = Places /\ Slots = [0..1 -> Places \cup {NULL}]
  BY DEF parameters, Places, Slots
<1>3. /\ T2 \in [Places -> Int] /\ T2[p] = Len(file) + 1 /\ \A q \in Places : q # p => T2[q] = T[q]
  BY <1>1 DEF Places
<1>4. /\ Len(file') = Len(file) + 1 /\ file'[Len(file) + 1] = "char" /\ file' \in Seq(Characters)
      /\ \A q \in 1..Len(file) : file'[q] = file[q]
      /\ DOMAIN file' = 1..(Len(file) + 1) /\ DOMAIN file = 1..Len(file)
  BY DEF Longer
<1>5. buff' = T2
  OBVIOUS
<1>6. TypeOK'
  <2>1. p + 1 \in Places /\ s \in Places /\ N \in 0..nlines
    BY <1>1 DEF Places
  <2>2. file' \in Seq({"char", "newline"})
    BY <1>4 DEF Characters
  <2>3. lines' \in [1..nlines -> [0..1 -> Places \cup {NULL}]] /\ buff' \in [Places -> Int]
    BY <1>1, <1>2, <1>3, <1>5
  <2>4. buffp' \in Places /\ linestart' \in Places /\ wrap' \in 0..1 /\ nfound' \in 0..nlines
    BY <1>1, <2>1
  <2>5. nlines' \in Counts /\ maxbuff' \in Sizes /\ status' \in {"reading", "full", "done", "undefined"}
    BY <1>2
  <2> QED BY <1>2, <2>2, <2>3, <2>4, <2>5 DEF TypeOK
<1>7. ~Begins' /\ (AtHand' <=> h = 0) /\ Behind(h, N) = (nlines - N + 1)..(IF AtHand' THEN nlines - 1 ELSE nlines)
  BY <1>1 DEF Begins, AtHand, Behind
<1>8. PointerInv' /\ Pointed' = Behind(h, N)
  <2>1. \A i \in 1..nlines : IF i \in Behind(h, N) THEN L[i][0] # NULL ELSE L[i] = Unset
    BY DEF Ready, ReadyPointers
  <2>2. Behind(h, N) \subseteq 1..nlines
    BY <1>1 DEF Behind
  <2>3. Unset[0] = NULL
    BY DEF Unset
  <2>4. Pointed' = Behind(h, N)
    BY <1>2, <2>1, <2>2, <2>3 DEF Pointed
  <2> QED BY <1>2, <1>7, <2>1, <2>4 DEF PointerInv, Unset
<1>9. ASSUME NEW i \in Behind(h, N)
      PROVE  /\ i \in 1..nlines /\ L[i] \in Slots /\ L[i][0] \in 0..(maxbuff - 2) /\ L[i][0] \notin {p, p + 1}
             /\ T[L[i][0]] \in 1..Len(file) /\ T2[L[i][0]] = T[L[i][0]]
             /\ Zone(L[i][0], p, maxbuff) \subseteq Zone(L[i][0], p + 1, maxbuff)
             /\ p \in Zone(L[i][0], p + 1, maxbuff)
             /\ \A q \in Zone(L[i][0], p, maxbuff) : T2[q] = T[q]
  <2>1. /\ i \in 1..nlines /\ L[i] \in Slots /\ L[i][0] \in 0..(maxbuff - 2) /\ L[i][0] \notin {p, p + 1}
        /\ T[L[i][0]] \in 1..Len(file)
    BY BehindHas, RoomForAll
  <2>2. T2[L[i][0]] = T[L[i][0]]
    <3>1. L[i][0] \in Places /\ L[i][0] # p
      <4>1. \A x \in 0..(maxbuff - 2) : x \in Places
        BY <1>0 DEF Places
      <4> QED BY <2>1, <4>1
    <3> QED BY <1>3, <3>1
  <2>3. /\ Zone(L[i][0], p, maxbuff) \subseteq Zone(L[i][0], p + 1, maxbuff)
        /\ p \in Zone(L[i][0], p + 1, maxbuff) /\ p \notin Zone(L[i][0], p, maxbuff)
        /\ Zone(L[i][0], p, maxbuff) \subseteq Places
    BY <1>1, <2>1, ZoneGrows DEF Places
  <2> QED BY <1>3, <2>1, <2>2, <2>3
<1>10. /\ H = 1 \/ file[H - 1] = "newline"
       /\ \A k \in H..Len(file) : file[k] # "newline"
       /\ \A q \in s..(p - 1) : T[q] = Len(file) + 1 - (p - q)
       /\ h = 0 => p - s = Len(file) + 1 - H
       /\ h = 1 => /\ s = 0 /\ L[nlines][1] = NULL /\ T[L[nlines][0]] = H
                   /\ p > 0 => L[nlines][0] > 0
                   /\ p + (maxbuff - 1 - L[nlines][0]) = Len(file) + 1 - H
  BY DEF Ready, ReadyLine
<1>11. \A q \in s..p : T2[q] = Len(file) + 2 - (p + 1 - q)
  <2> TAKE q \in s..p
  <2>1. CASE q = p
    BY <1>1, <1>3, <2>1
  <2>2. CASE q # p
    <3>1. q \in s..(p - 1) /\ q \in Places
      BY <1>1, <2>2 DEF Places
    <3>2. T2[q] = Len(file) + 1 - (p - q)
      BY <1>3, <1>10, <2>2, <3>1
    <3> QED BY <1>1, <3>1, <3>2
  <2> QED BY <2>1, <2>2
<1>12. h = 0 => T2[s] = H
  <2> SUFFICES ASSUME h = 0
               PROVE  T2[s] = H
    OBVIOUS
  <2>1. p - s = Len(file) + 1 - H
    BY <1>10
  <2>2. T2[s] = Len(file) + 2 - (p + 1 - s)
    BY <1>1, <1>11
  <2>3. Len(file) + 2 - (p + 1 - s) = H
    BY <1>0, <2>1
  <2> QED BY <2>2, <2>3
<1>13. h = 1 => nlines \in Behind(h, N)
  BY <1>1 DEF Behind
<1>14. RingInv'
  <2> SUFFICES ASSUME NEW i \in Pointed', NEW j \in Pointed', j >= i
               PROVE  \E n \in 1..Len(file') :
                        /\ OneLine(file', First(j)', n)
                        /\ Holds(buff', lines'[j], First(j)', n, Zone(lines'[i][0], buffp', maxbuff'))
                        /\ n = Until(j)' - First(j)'
    BY DEF RingInv
  <2>0. i \in Behind(h, N) /\ j \in Behind(h, N) /\ First(j)' = T2[L[j][0]]
    BY <1>5, <1>8 DEF First
  <2> DEFINE n == NextHead(T, L, h, N, H, j) - T[L[j][0]]
  <2>1. /\ n \in 1..Len(file') /\ OneLine(file', T[L[j][0]], n)
        /\ Holds(T2, L[j], T[L[j][0]], n, Zone(L[i][0], p + 1, maxbuff))
        /\ T2[L[j][0]] = T[L[j][0]]
    <3>1. /\ Zone(L[i][0], p, maxbuff) \subseteq Zone(L[i][0], p + 1, maxbuff)
          /\ \A q \in Zone(L[i][0], p, maxbuff) : T2[q] = T[q]
      BY <1>9, <2>0
    <3>2. n = NextHead(T, L, h, N, H, j) - T[L[j][0]]
      OBVIOUS
    <3> HIDE DEF n
    <3>3. /\ n \in 1..Len(file) /\ OneLine(file, T[L[j][0]], n)
          /\ Holds(T, L[j], T[L[j][0]], n, Zone(L[i][0], p, maxbuff))
      BY <2>0, <3>2, RingHas
    <3>4. n \in 1..Len(file') /\ OneLine(file', T[L[j][0]], n)
      BY <1>4, <3>3, OneLineKept
    <3>5. Holds(T2, L[j], T[L[j][0]], n, Zone(L[i][0], p + 1, maxbuff))
      BY <1>1, <1>3, <3>1, <3>3, HoldsKept DEF Places
    <3> QED BY <1>9, <2>0, <3>4, <3>5
  <2>2. NextHead(T, L, h, N, H, j) = Until(j)'
    <3>1. CASE j < nlines /\ j + 1 \in Behind(h, N)
      BY <1>2, <1>5, <1>8, <1>9, <2>0, <3>1 DEF NextHead, Until, First
    <3>2. CASE j < nlines /\ j + 1 \notin Behind(h, N)
      <4>1. h = 0
        BY <1>1, <1>9, <2>0, <3>2 DEF Behind
      <4> QED BY <1>2, <1>5, <1>8, <1>12, <3>2, <4>1 DEF NextHead, Until
    <3>3. CASE ~(j < nlines)
      <4>1. h = 1 /\ j = nlines
        BY <1>1, <1>9, <2>0, <3>3 DEF Behind
      <4>2. First(j)' = H
        <5>1. T[L[nlines][0]] = H /\ T2[L[nlines][0]] = T[L[nlines][0]]
          BY <1>9, <1>10, <1>13, <4>1
        <5> QED BY <2>0, <4>1, <5>1
      <4> QED BY <1>2, <3>3, <4>1, <4>2 DEF NextHead, Until
    <3> QED BY <3>1, <3>2, <3>3
  <2>3. n = Until(j)' - T2[L[j][0]]
    BY <2>1, <2>2
  <2>4. /\ OneLine(file', T2[L[j][0]], n)
        /\ Holds(buff', lines'[j], T2[L[j][0]], n, Zone(lines'[i][0], buffp', maxbuff'))
    BY <1>2, <1>5, <2>1
  <2> HIDE DEF n
  <2> QED BY <2>0, <2>1, <2>3, <2>4
<1>15. LineInv'
  <2>1. file'[Len(file')] # "newline" /\ N > 0 /\ s <= maxbuff - 2
    BY <1>1, <1>4
  <2>3. ASSUME NEW i \in Behind(h, N)
        PROVE  s..p \subseteq Zone(L[i][0], p + 1, maxbuff) /\ L[i][0] # p + 1
    <3>1. s..(p - 1) \subseteq Zone(L[i][0], p, maxbuff)
      BY DEF Ready, ReadyRing
    <3>2. s..p = s..(p - 1) \cup {p}
      BY <1>1
    <3> QED BY <1>9, <3>1, <3>2
  <2>4. OneLine(file', H, Len(file) + 2 - H)
    <3>1. \A k \in H..(Len(file) + 1) : file'[k] # "newline"
      <4> TAKE k \in H..(Len(file) + 1)
      <4>1. CASE k = Len(file) + 1
        BY <1>4, <4>1
      <4>2. CASE k # Len(file) + 1
        <5>1. k \in H..Len(file) /\ k \in 1..Len(file)
          BY <1>1, <4>2
        <5> QED BY <1>4, <1>10, <5>1
      <4> QED BY <4>1, <4>2
    <3>2. H = 1 \/ file'[H - 1] = "newline"
      <4>1. H # 1 => H - 1 \in 1..Len(file)
        BY <1>1
      <4> QED BY <1>4, <1>10, <4>1
    <3> QED BY <1>1, <1>4, <3>1, <3>2 DEF OneLine
  <2>5. h = 0 => OneLine(file', T2[s], (p + 1) - s)
    <3> SUFFICES ASSUME h = 0
                 PROVE  OneLine(file', T2[s], (p + 1) - s)
      OBVIOUS
    <3>0. p - s = Len(file) + 1 - H
      BY <1>10
    <3>1. (p + 1) - s = Len(file) + 2 - H
      BY <1>0, <3>0
    <3> QED BY <1>12, <2>4, <3>1
  <2>6. h = 1 => /\ s = 0 /\ L[nlines][0] > 0 /\ L[nlines][1] = NULL
                 /\ T2[0] = Until(nlines)' /\ OneLine(file', First(nlines)', Len(file') + 1 - First(nlines)')
    <3> SUFFICES ASSUME h = 1
                 PROVE  /\ s = 0 /\ L[nlines][0] > 0 /\ L[nlines][1] = NULL
                        /\ T2[0] = Until(nlines)'
                        /\ OneLine(file', First(nlines)', Len(file') + 1 - First(nlines)')
      OBVIOUS
    <3>1. First(nlines)' = H
      BY <1>2, <1>5, <1>9, <1>10, <1>13 DEF First
    <3>2. L[nlines][0] > 0
      BY <1>1, <1>9, <1>10, <1>13
    <3>3. T2[0] = H + (maxbuff - 1 - L[nlines][0])
      <4>1. s = 0 /\ p + (maxbuff - 1 - L[nlines][0]) = Len(file) + 1 - H /\ L[nlines][0] \in Int
        BY <1>9, <1>10, <1>13
      <4>2. T2[0] = Len(file) + 2 - (p + 1)
        BY <1>1, <1>11, <4>1
      <4>3. Len(file) + 2 - (p + 1) = H + (maxbuff - 1 - L[nlines][0])
          BY SMTT(30), <1>0, <4>1, MovedBy
      <4> QED BY <4>2, <4>3
    <3>4. Until(nlines)' = H + (maxbuff - 1 - L[nlines][0])
      BY <1>1, <1>2, <3>1 DEF Until
    <3>5. Len(file') + 1 - H = Len(file) + 2 - H
      BY <1>1, <1>4
    <3> QED BY <1>10, <2>4, <3>1, <3>2, <3>3, <3>4, <3>5
  <2>7. (p + 1) - 1 = p
    BY <1>1
  <2>8. linestart' <= maxbuff' - 2 /\ nfound' > 0 /\ file'[Len(file')] # "newline"
    BY <1>2, <2>1
  <2>9. Copied(buff', linestart', buffp', Len(file') + 1 - (buffp' - linestart'))
    <3>1. linestart' = s /\ buffp' = p + 1 /\ buff' = T2
      BY <1>5
    <3>2. \A q \in linestart'..(buffp' - 1) : buff'[q] = Len(file') + 1 - (buffp' - linestart') + (q - linestart')
      <4> TAKE q \in linestart'..(buffp' - 1)
      <4>1. q \in s..p /\ q \in Int
        BY <1>0, <3>1
      <4>2. T2[q] = Len(file) + 2 - (p + 1 - q)
        BY <1>11, <4>1
      <4> QED BY <1>0, <1>4, <3>1, <4>1, <4>2
    <3>3. linestart' < buffp'
      BY <1>1, <3>1
    <3> QED BY <3>2, <3>3 DEF Copied
  <2>10. \A i \in Pointed' : /\ linestart'..(buffp' - 1) \subseteq Zone(lines'[i][0], buffp', maxbuff')
                             /\ lines'[i][0] # buffp'
    BY <1>2, <1>8, <2>3, <2>7
  <2>11. wrap' = 0 => OneLine(file', buff'[linestart'], buffp' - linestart')
    BY <1>5, <2>5
  <2>12. wrap' = 1 =>
           /\ linestart' = 0 /\ lines'[nlines'][0] > 0 /\ lines'[nlines'][1] = NULL
           /\ buff'[0] = Until(nlines)' /\ OneLine(file', First(nlines)', Len(file') + 1 - First(nlines)')
    BY <1>2, <1>5, <2>6
  <2> QED BY <1>7, <2>8, <2>9, <2>10, <2>11, <2>12 DEF LineInv
<1>16. HeadInv'
  <2>1. ASSUME NEW i \in Behind(h, N)
        PROVE  /\ \A j \in Behind(h, N) : i < j => First(i)' < First(j)'
               /\ AtHand' => First(i)' < buff'[linestart']
    <3>1. First(i)' = T[L[i][0]] /\ \A j \in Behind(h, N) : First(j)' = T[L[j][0]]
      BY <1>5, <1>9 DEF First
    <3>2. /\ \A j \in Behind(h, N) : i < j => T[L[i][0]] < T[L[j][0]]
          /\ h = 0 => T[L[i][0]] < H
      BY DEF Ready, ReadyHeads
    <3> QED BY <1>5, <1>7, <1>12, <3>1, <3>2
  <2>2. Heads' = {T[L[i][0]] : i \in Behind(h, N)} \cup {H}
    <3>1. {First(i)' : i \in Behind(h, N)} = {T[L[i][0]] : i \in Behind(h, N)}
      BY <1>5, <1>9 DEF First
    <3>2. CASE h = 0
      BY <1>2, <1>5, <1>7, <1>8, <1>12, <3>1, <3>2 DEF Heads
    <3>3. CASE h = 1
      <4>1. H \in {T[L[i][0]] : i \in Behind(h, N)}
        BY <1>10, <1>13, <3>3
      <4>2. ~AtHand'
        BY <1>7, <3>3
      <4>3. Heads' = {First(i)' : i \in Pointed'} \cup {}
        BY <4>2 DEF Heads
      <4> QED BY <1>8, <3>1, <4>1, <4>3
    <3> QED BY <1>1, <3>2, <3>3
  <2>3. ASSUME NEW k \in LineStarts'
        PROVE  k \in Heads' \/ (N = nlines /\ \A head \in Heads' : k < head)
    <3>1. \/ k = H \/ \E i \in Behind(h, N) : k = T[L[i][0]]
          \/ N = nlines /\ k < H /\ \A i \in Behind(h, N) : k < T[L[i][0]]
      BY SMTT(30), <2>3, HeadsKept DEF LineStarts
    <3> QED BY <2>2, <3>1
  <2> QED BY <1>2, <1>8, <2>1, <2>3 DEF HeadInv
<1> QED BY <1>6, <1>8, <1>14, <1>15, <1>16 DEF TailInv

\* What StoreNewline assigns.
Newline(T, L, p, s, h, N) ==
  /\ status = "reading" /\ status' = "reading" /\ buff' \in [Places -> Int]
  /\ buff'[p] = Len(file) + 1 /\ buff'[p + 1] = NUL
  /\ \A q \in Places : q \notin {p, p + 1} => buff'[q] = T[q]
  /\ lines' \in [1..nlines -> Slots] /\ \A i \in 1..nlines : i # nlines => lines'[i] = L[i]
  /\ lines'[nlines][h] = s /\ lines'[nlines][1 - h] = L[nlines][1 - h]
  /\ buffp' = (IF p + 2 >= maxbuff - 1 THEN 0 ELSE p + 2) /\ linestart' = buffp' /\ wrap' = 0
  /\ nfound' = N

LEMMA NewlineKeeps ==
  ASSUME NEW T, NEW L, NEW p, NEW s, NEW h, NEW N, NEW H, Ready(file, T, L, p, s, h, N, H),
         nlines \in Counts, maxbuff \in Sizes, UNCHANGED parameters, TestForRoom(L, N, p),
         Newline(T, L, p, s, h, N), Longer(file, file', "newline")
  PROVE  TailInv'
<1> SUFFICES ASSUME status = "reading", status' = "reading", buff' \in [Places -> Int],
                    buff'[p] = Len(file) + 1, buff'[p + 1] = NUL,
                    \A q \in Places : q \notin {p, p + 1} => buff'[q] = T[q],
                    lines' \in [1..nlines -> Slots], \A i \in 1..nlines : i # nlines => lines'[i] = L[i],
                    lines'[nlines][h] = s, lines'[nlines][1 - h] = L[nlines][1 - h],
                    buffp' = (IF p + 2 >= maxbuff - 1 THEN 0 ELSE p + 2), linestart' = buffp', wrap' = 0,
                    nfound' = N
             PROVE  TailInv'
  BY DEF Newline
<1> PICK T2 : T2 = buff'
  OBVIOUS
<1> PICK L2 : L2 = lines'
  OBVIOUS
<1> PICK r : r = buffp'
  OBVIOUS
<1>1. /\ nlines \in Nat /\ nlines > 0 /\ maxbuff \in Nat /\ maxbuff > 2 /\ file \in Seq(Characters)
      /\ T \in [Places -> Int] /\ L \in [1..nlines -> Slots] /\ p \in 0..(maxbuff - 2) /\ s \in 0..p
      /\ h \in 0..1 /\ N \in 1..nlines /\ H \in 1..(Len(file) + 1) /\ Len(file) \in Nat
  BY DEF Ready, ReadyTypes
<1>0. p \in Int /\ s \in Int /\ H \in Int /\ Len(file) \in Int /\ maxbuff \in Int
  BY <1>1
<1>2. nlines' = nlines /\ maxbuff' = maxbuff /\ Places' = Places /\ Slots = [0..1 -> Places \cup {NULL}]
  BY DEF parameters, Places, Slots
<1>3. r \in 0..(maxbuff - 2)
  BY <1>1
<1>4. /\ Len(file') = Len(file) + 1 /\ file'[Len(file) + 1] = "newline" /\ file' \in Seq(Characters)
      /\ \A q \in 1..Len(file) : file'[q] = file[q]
      /\ DOMAIN file' = 1..(Len(file) + 1) /\ DOMAIN file = 1..Len(file)
  BY DEF Longer
<1>5. TypeOK'
  <2>1. r \in Places /\ 0 \in 0..1 /\ N \in 0..nlines
    BY <1>1, <1>3 DEF Places
  <2>2. file' \in Seq({"char", "newline"})
    BY <1>4 DEF Characters
  <2> QED BY <1>2, <2>1, <2>2 DEF TypeOK
<1>6. Begins' /\ ~AtHand'
  BY DEF Begins, AtHand
<1>7. /\ nlines \in 1..nlines /\ Behind(h, N) \subseteq 1..nlines
      /\ \A i \in Behind(h, N) : i # nlines \/ h = 1
      /\ \A i \in 1..nlines : i = nlines \/ i \in Behind(h, N) \/ i \notin (nlines - N + 1)..nlines
      /\ Behind(h, N) \cup {nlines} = (nlines - N + 1)..nlines
      /\ \A j \in Behind(h, N) : j < nlines /\ j + 1 \notin Behind(h, N) => h = 0 /\ j + 1 = nlines
      /\ \A j \in Behind(h, N) : j < nlines => j + 1 \in Behind(h, N) \cup {nlines}
      /\ h = 1 => nlines \in Behind(h, N)
  <2>1. nlines \in Nat /\ nlines > 0 /\ N \in 1..nlines /\ h \in 0..1
    BY <1>1
  <2> QED BY <2>1, BehindAndLast
<1>8. \A i \in 1..nlines : IF i \in Behind(h, N) THEN L[i][0] # NULL ELSE L[i] = Unset
  BY DEF Ready, ReadyPointers
<1>9. /\ L2[nlines][0] \in Places
      /\ h = 0 => L2[nlines][0] = s /\ L2[nlines][1] = NULL
      /\ h = 1 => L2[nlines][0] = L[nlines][0] /\ L2[nlines][1] = 0
  <2>1. CASE h = 0
    <3>1. L[nlines] = Unset /\ s \in Places
      BY <1>1, <1>7, <1>8, <2>1 DEF Places
    <3> QED BY <2>1, <3>1 DEF Unset
  <2>2. CASE h = 1
    <3>1. s = 0
      BY <2>2 DEF Ready, ReadyLine
    <3>2. L[nlines][0] \in Places
      <4>1. L[nlines][0] \in 0..(maxbuff - 2)
        BY <1>7, <2>2, BehindHas
      <4> QED BY <1>0, <4>1 DEF Places
    <3> QED BY <2>2, <3>1, <3>2
  <2> QED BY <1>1, <2>1, <2>2
<1>10. PointerInv' /\ Pointed' = (nlines - N + 1)..nlines
  <2>1. NULL \notin Places
    BY DEF NULL, Places
  <2>2. Unset[0] = NULL
    BY DEF Unset
  <2>3. \A i \in 1..nlines : IF i \in (nlines - N + 1)..nlines THEN L2[i][0] # NULL ELSE L2[i] = Unset
    BY <1>7, <1>8, <1>9, <2>1
  <2>4. (nlines - N + 1)..nlines \subseteq 1..nlines
    BY <1>1
  <2>5. Pointed' = (nlines - N + 1)..nlines
    BY <1>2, <2>2, <2>3, <2>4 DEF Pointed
  <2> QED BY <1>2, <1>6, <2>3, <2>5 DEF PointerInv, Unset
<1>11. ASSUME NEW i \in Behind(h, N)
       PROVE  /\ i \in 1..nlines /\ L[i] \in Slots /\ L[i][0] \in 0..(maxbuff - 2) /\ L[i][0] \notin {p, p + 1}
              /\ T[L[i][0]] \in 1..Len(file) /\ T2[L[i][0]] = T[L[i][0]] /\ L2[i][0] = L[i][0]
              /\ Zone(L[i][0], p, maxbuff) \subseteq Zone(L[i][0], r, maxbuff)
              /\ p \in Zone(L[i][0], r, maxbuff) /\ p + 1 \in Zone(L[i][0], r, maxbuff)
              /\ \A q \in Zone(L[i][0], p, maxbuff) : T2[q] = T[q]
  <2>1. /\ i \in 1..nlines /\ L[i] \in Slots /\ L[i][0] \in 0..(maxbuff - 2) /\ L[i][0] \notin {p, p + 1}
        /\ T[L[i][0]] \in 1..Len(file)
    BY BehindHas, RoomForAll
  <2>2. T2[L[i][0]] = T[L[i][0]]
    <3>1. L[i][0] \in Places /\ L[i][0] \notin {p, p + 1}
      <4>1. \A x \in 0..(maxbuff - 2) : x \in Places
        BY <1>0 DEF Places
      <4> QED BY <2>1, <4>1
    <3> QED BY <3>1
  <2>3. L2[i][0] = L[i][0]
    BY <1>7, <1>9, <2>1
  <2>4. /\ Zone(L[i][0], p, maxbuff) \subseteq Zone(L[i][0], r, maxbuff)
        /\ p \in Zone(L[i][0], r, maxbuff) /\ p + 1 \in Zone(L[i][0], r, maxbuff)
        /\ p \notin Zone(L[i][0], p, maxbuff) /\ p + 1 \notin Zone(L[i][0], p, maxbuff)
        /\ Zone(L[i][0], p, maxbuff) \subseteq Places
    <3>1. L[i][0] # p /\ L[i][0] # p + 1
      BY <2>1
    <3>2. /\ Zone(L[i][0], p, maxbuff) \subseteq Zone(L[i][0], r, maxbuff)
          /\ p \in Zone(L[i][0], r, maxbuff) /\ p + 1 \in Zone(L[i][0], r, maxbuff)
          /\ p \notin Zone(L[i][0], p, maxbuff) /\ p + 1 \notin Zone(L[i][0], p, maxbuff)
      <4> DEFINE o == L[i][0]
      <4>1. maxbuff \in Nat /\ o \in 0..(maxbuff - 2) /\ p \in 0..(maxbuff - 2) /\ o # p /\ o # p + 1
        BY <1>1, <2>1, <3>1
      <4> HIDE DEF o
      <4>2. /\ Zone(o, p, maxbuff) \subseteq Zone(o, r, maxbuff)
            /\ p \in Zone(o, r, maxbuff) /\ p + 1 \in Zone(o, r, maxbuff)
            /\ p \notin Zone(o, p, maxbuff) /\ p + 1 \notin Zone(o, p, maxbuff)
        BY <4>1, ZoneGrowsByTwo
      <4> QED BY <4>2 DEF o
    <3>3. Zone(L[i][0], p, maxbuff) \subseteq Places
      BY <1>1, <2>1, <3>1, ZoneGrows DEF Places
    <3> QED BY <3>2, <3>3
  <2> QED BY <2>1, <2>2, <2>3, <2>4
<1>12. /\ H = 1 \/ file[H - 1] = "newline"
       /\ \A k \in H..Len(file) : file[k] # "newline"
       /\ \A q \in s..(p - 1) : T[q] = Len(file) + 1 - (p - q)
       /\ h = 0 => p - s = Len(file) + 1 - H
       /\ h = 1 => /\ s = 0 /\ L[nlines][1] = NULL /\ T[L[nlines][0]] = H
                   /\ p > 0 => L[nlines][0] > 0
                   /\ p + (maxbuff - 1 - L[nlines][0]) = Len(file) + 1 - H
  BY DEF Ready, ReadyLine
<1>13. \A q \in s..p : T2[q] = Len(file) + 1 - (p - q)
  <2> TAKE q \in s..p
  <2>1. CASE q = p
    BY <1>0, <2>1
  <2>2. CASE q # p
    <3>1. q \in s..(p - 1) /\ q \in Places /\ q \notin {p, p + 1}
      BY <1>1, <2>2 DEF Places
    <3> QED BY <1>12, <3>1
  <2> QED BY <2>1, <2>2
<1>14. T2[L2[nlines][0]] = H
  <2>1. CASE h = 0
    <3>1. T2[s] = Len(file) + 1 - (p - s)
      BY <1>1, <1>13
    <3>2. p - s = Len(file) + 1 - H
      BY <1>12, <2>1
    <3>3. Len(file) + 1 - (p - s) = H
      BY <1>0, <3>2
    <3> QED BY <1>9, <2>1, <3>1, <3>3
  <2>2. CASE h = 1
    BY <1>7, <1>9, <1>11, <1>12, <2>2
  <2> QED BY <1>1, <2>1, <2>2
<1>15. OneLine(file', H, Len(file) + 2 - H)
  <2>1. ASSUME NEW k \in H..Len(file)
        PROVE  file'[k] # "newline"
    <3>1. k \in 1..Len(file) /\ file[k] # "newline"
      BY <1>1, <1>12
    <3> QED BY <1>4, <3>1
  <2>2. H = 1 \/ file'[H - 1] = "newline"
    <3>1. H # 1 => H - 1 \in 1..Len(file)
      BY <1>1
    <3> QED BY <1>4, <1>12, <3>1
  <2>3. H + (Len(file) + 2 - H) - 2 = Len(file)
    BY <1>0
  <2>4. /\ H \in DOMAIN file' /\ Len(file) + 2 - H > 0
        /\ H + (Len(file) + 2 - H) - 1 \in DOMAIN file'
    BY <1>1, <1>4
  <2> QED BY <2>1, <2>2, <2>3, <2>4 DEF OneLine

\* What the line that ends leads to: its characters and this one.
<1>16. ASSUME NEW zone, L2[nlines][0]..(maxbuff - 1) \subseteq zone \/ h = 0,
              s..(p + 1) \subseteq zone
       PROVE  Holds(T2, L2[nlines], H, Len(file) + 2 - H, zone)
  <2>1. DOMAIN T2 = 0..(maxbuff - 1) /\ p + 1 \in DOMAIN T2
    BY <1>1 DEF Places
  <2>2. CASE h = 0
    <3>1. p - s = Len(file) + 1 - H
      BY <1>12, <2>2
    <3>2. \A q \in s..((p + 1) - 1) : T2[q] = H + (q - s)
      <4> TAKE q \in s..((p + 1) - 1)
      <4>1. q \in s..p /\ q \in Int
        BY <1>0
      <4>2. T2[q] = Len(file) + 1 - (p - q)
        BY <1>13, <4>1
      <4> QED BY <1>0, <3>1, <4>1, <4>2
    <3>3. Copied(T2, s, p + 1, H)
      BY <1>1, <3>2 DEF Copied
    <3>4. Len(file) + 2 - H = (p + 1) - s
      BY <1>0, <3>1
    <3>5. s \in DOMAIN T2 /\ s + 1 \in DOMAIN T2
      BY <1>1, <2>1
    <3> QED BY <1>9, <1>16, <2>1, <2>2, <3>3, <3>4, <3>5 DEF Holds
  <2>3. CASE h = 1
    <3> DEFINE o == L[nlines][0]
    <3>1. /\ s = 0 /\ L[nlines][1] = NULL /\ T[o] = H /\ o \in 0..(maxbuff - 2) /\ o \in Int
          /\ p + (maxbuff - 1 - o) = Len(file) + 1 - H /\ nlines \in Behind(h, N)
      BY <1>7, <1>11, <1>12, <2>3
    <3>0. L[nlines][0] = o /\ (h = 1 => L2[nlines][0] = o)
      BY <1>9
    <3> HIDE DEF o
    <3>2. /\ Holds(T, L[nlines], H, maxbuff - 1 - o, Zone(o, p, maxbuff))
      <4> DEFINE n == NextHead(T, L, h, N, H, nlines) - T[o]
      <4>1. n = maxbuff - 1 - o
        <5>1. NextHead(T, L, h, N, H, nlines) = H + (maxbuff - 1 - o)
          BY <1>1, <3>0 DEF NextHead
        <5> QED BY <1>0, <3>1, <5>1
      <4>2. nlines >= nlines
        BY <1>1
      <4>3. Holds(T, L[nlines], T[o], n, Zone(o, p, maxbuff))
        BY <3>0, <3>1, <4>2, RingHas
      <4> QED BY <3>1, <4>1, <4>3
    <3>3. DOMAIN T = 0..(maxbuff - 1)
      BY <1>1 DEF Places
    <3>4. PICK e \in 0..(maxbuff - 1) : /\ Copied(T, o, e, H) /\ T[e] = NUL /\ o..e \subseteq Zone(o, p, maxbuff)
                                        /\ maxbuff - 1 - o = e - o
      BY <3>0, <3>1, <3>2, <3>3 DEF Holds, NULL
    <3>5. e = maxbuff - 1
      <4>1. o \in Int /\ e \in Int /\ maxbuff - 1 - o = e - o
        BY <1>0, <3>1, <3>4
      <4> QED BY <1>0, <4>1
    <3>6. \A q \in o..e : T2[q] = T[q]
      BY <1>11, <3>0, <3>1, <3>4
    <3>7. Copied(T2, o, e, H) /\ T2[e] = NUL /\ o..e \subseteq zone /\ e + 1 \notin DOMAIN T2
      <4>1. e \in o..e /\ e \in Int
        BY <1>0, <3>1, <3>5
      <4>2. Copied(T2, o, e, H)
        BY <3>1, <3>4, <3>6, <4>1, CopiedKept
      <4>3. e + 1 \notin DOMAIN T2
        BY <1>0, <2>1, <3>5
      <4>4. L2[nlines][0]..(maxbuff - 1) \subseteq zone
        BY <1>16, <2>3
      <4> QED BY <2>3, <3>0, <2>3, <3>4, <3>5, <3>6, <4>1, <4>2, <4>3, <4>4
    <3>8. Copied(T2, 0, p + 1, H + (e - o)) /\ T2[p + 1] = NUL /\ 0..(p + 1) \subseteq zone
      <4>1. \A q \in 0..((p + 1) - 1) : T2[q] = H + (e - o) + (q - 0)
        <5> TAKE q \in 0..((p + 1) - 1)
        <5>1. q \in s..p /\ q \in Int
          BY <1>0, <3>1
        <5>2. T2[q] = Len(file) + 1 - (p - q)
          BY <1>13, <5>1
        <5>3. Len(file) + 1 - (p - q) = H + (e - o) + (q - 0)
          <6>1. p + (maxbuff - 1 - o) = Len(file) + 1 - H /\ o \in Int
            BY <3>1
          <6> QED BY <1>0, <3>5, <5>1, <6>1
        <5> QED BY <5>2, <5>3
      <4>2. 0 < p + 1
        BY <1>1
      <4>3. 0..(p + 1) \subseteq zone
        BY <1>16, <3>1
      <4> QED BY <4>1, <4>2, <4>3 DEF Copied
    <3>9. Len(file) + 2 - H = (e - o) + (p + 1)
      <4>1. p + (maxbuff - 1 - o) = Len(file) + 1 - H /\ o \in Int
        BY <3>1
      <4> QED BY <1>0, <3>5, <4>1
    <3>10. o \in DOMAIN T2 /\ o + 1 \in DOMAIN T2 /\ e \in DOMAIN T2
      <4>1. o \in 0..(maxbuff - 2)
        BY <3>1
      <4> QED BY <1>0, <2>1, <3>4, <4>1
    <3>11. L2[nlines][0] = o /\ L2[nlines][1] = 0
      BY <1>9, <2>3, <3>0
    <3> QED BY <2>1, <3>7, <3>8, <3>9, <3>10, <3>11 DEF Holds
  <2> QED BY <1>1, <2>2, <2>3
<1>17. ASSUME NEW i \in Behind(h, N)
       PROVE  /\ s..(p + 1) \subseteq Zone(L[i][0], r, maxbuff)
              /\ h = 1 => L[nlines][0]..(maxbuff - 1) \subseteq Zone(L[i][0], r, maxbuff)
  <2>1. s..(p - 1) \subseteq Zone(L[i][0], p, maxbuff)
    BY DEF Ready, ReadyRing
  <2>2. s..(p + 1) = s..(p - 1) \cup {p, p + 1}
    BY <1>1
  <2>3. s..(p + 1) \subseteq Zone(L[i][0], r, maxbuff)
    <3>1. /\ Zone(L[i][0], p, maxbuff) \subseteq Zone(L[i][0], r, maxbuff)
          /\ p \in Zone(L[i][0], r, maxbuff) /\ p + 1 \in Zone(L[i][0], r, maxbuff)
      BY <1>11
    <3> QED BY <2>1, <2>2, <3>1
  <2>4. ASSUME h = 1
        PROVE  L[nlines][0]..(maxbuff - 1) \subseteq Zone(L[i][0], r, maxbuff)
    <3> DEFINE o == L[nlines][0]
    <3>1. /\ nlines \in Behind(h, N) /\ nlines >= i
      BY <1>1, <1>7, <2>4
    <3>2. /\ T[o] = H /\ L[nlines][1] = NULL /\ o \in 0..(maxbuff - 2) /\ o \in Int
      BY <1>11, <1>12, <2>4, <3>1
    <3>5. L[nlines][0] = o
      OBVIOUS
    <3> HIDE DEF o
    <3> DEFINE n == NextHead(T, L, h, N, H, nlines) - T[o]
    <3>3. n = maxbuff - 1 - o
      <4>1. NextHead(T, L, h, N, H, nlines) = H + (maxbuff - 1 - o)
        BY <1>1, <3>5 DEF NextHead
      <4> QED BY <1>0, <3>2, <4>1
    <3>4. Holds(T, L[nlines], T[o], n, Zone(L[i][0], p, maxbuff))
      BY <3>1, <3>5, RingHas
    <3> HIDE DEF n
    <3>6. PICK e \in 0..(maxbuff - 1) : o..e \subseteq Zone(L[i][0], p, maxbuff) /\ n = e - o
      <4>1. maxbuff \in Nat /\ T \in [0..(maxbuff - 1) -> Int]
        BY <1>1 DEF Places
      <4>2. L[nlines][1] = NULL
        BY <3>2
      <4>3. \E e \in 0..(maxbuff - 1) :
              L[nlines][0]..e \subseteq Zone(L[i][0], p, maxbuff) /\ n = e - L[nlines][0]
        BY SMTT(30), <3>4, <4>1, <4>2, HoldsInOnePiece
      <4> QED BY <3>5, <4>3
    <3>7. e = maxbuff - 1
      BY <1>0, <3>2, <3>3, <3>6
    <3> QED BY <1>11, <3>5, <3>6, <3>7
  <2> QED BY <2>3, <2>4
<1>18. RingInv'
  <2> SUFFICES ASSUME NEW i \in Pointed', NEW j \in Pointed', j >= i
               PROVE  \E n \in 1..Len(file') :
                        /\ OneLine(file', First(j)', n)
                        /\ Holds(buff', lines'[j], First(j)', n, Zone(lines'[i][0], buffp', maxbuff'))
                        /\ n = Until(j)' - First(j)'
    BY DEF RingInv
  <2>1. /\ i \in Behind(h, N) \cup {nlines} /\ j \in Behind(h, N) \cup {nlines}
        /\ i \in 1..nlines /\ j \in 1..nlines
        /\ First(j)' = T2[L2[j][0]] /\ First(nlines)' = H
    BY <1>2, <1>7, <1>10, <1>14 DEF First
  <2>2. CASE j = nlines
    <3>1. Until(j)' = Len(file) + 2
      <4>1. Len(file') + 1 = Len(file) + 2
        BY <1>0, <1>4
      <4>2. ~(j < nlines)
        BY <1>1, <2>2
      <4> QED BY <1>2, <4>1, <4>2 DEF Until
    <3>2. Holds(T2, L2[nlines], H, Len(file) + 2 - H, Zone(L2[i][0], r, maxbuff))
      <4>1. CASE i \in Behind(h, N)
        <5>1. /\ L2[i][0] = L[i][0] /\ s..(p + 1) \subseteq Zone(L[i][0], r, maxbuff)
              /\ h = 1 => L[nlines][0]..(maxbuff - 1) \subseteq Zone(L[i][0], r, maxbuff)
          BY <1>11, <1>17, <4>1
        <5>2. h = 0 \/ L2[nlines][0] = L[nlines][0]
          BY <1>1, <1>9
        <5>3. L2[nlines][0]..(maxbuff - 1) \subseteq Zone(L2[i][0], r, maxbuff) \/ h = 0
          BY <1>1, <5>1, <5>2
        <5>4. s..(p + 1) \subseteq Zone(L2[i][0], r, maxbuff)
          BY <5>1
        <5> QED BY <1>16, <5>3, <5>4
      <4>2. CASE i \notin Behind(h, N)
        <5>1. h = 0 /\ i = nlines /\ L2[i][0] = s
          BY <1>1, <1>7, <1>9, <2>1, <4>2
        <5>2. s..(p + 1) \subseteq Zone(s, r, maxbuff)
          BY <1>1 DEF Zone
        <5> QED BY <1>16, <5>1, <5>2
      <4> QED BY <4>1, <4>2
    <3>3. Len(file) + 2 - H \in 1..Len(file')
      BY <1>1, <1>4
    <3>4. First(j)' = H
      BY <1>2, <2>1, <2>2
    <3> DEFINE n == Len(file) + 2 - H
    <3>5. n \in 1..Len(file') /\ OneLine(file', First(j)', n) /\ n = Until(j)' - First(j)'
      <4>1. OneLine(file', First(j)', Len(file) + 2 - H)
        BY <1>15, <3>4
      <4>2. Len(file) + 2 - H = Until(j)' - First(j)'
        BY <1>0, <3>1, <3>4
      <4> QED BY <3>3, <4>1, <4>2
    <3>6. Holds(buff', lines'[j], First(j)', n, Zone(lines'[i][0], buffp', maxbuff'))
      BY <1>2, <2>2, <3>2, <3>4
    <3> HIDE DEF n
    <3> QED BY <3>5, <3>6
  <2>3. CASE j # nlines
    <3>1. i \in Behind(h, N) /\ j \in Behind(h, N) /\ j < nlines /\ j + 1 \in 1..nlines
      BY <1>1, <2>1, <2>3
    <3> DEFINE n == NextHead(T, L, h, N, H, j) - T[L[j][0]]
    <3>2. n = NextHead(T, L, h, N, H, j) - T[L[j][0]]
      OBVIOUS
    <3> HIDE DEF n
    <3>3. /\ n \in 1..Len(file) /\ OneLine(file, T[L[j][0]], n)
          /\ Holds(T, L[j], T[L[j][0]], n, Zone(L[i][0], p, maxbuff))
      BY <3>1, <3>2, RingHas
    <3>4. n \in 1..Len(file') /\ OneLine(file', T[L[j][0]], n)
      BY <1>4, <3>3, OneLineKept
    <3>5. Holds(T2, L[j], T[L[j][0]], n, Zone(L[i][0], r, maxbuff))
      <4>1. /\ Zone(L[i][0], p, maxbuff) \subseteq Zone(L[i][0], r, maxbuff)
            /\ \A q \in Zone(L[i][0], p, maxbuff) : T2[q] = T[q]
        BY <1>11, <3>1
      <4>2. maxbuff \in Nat /\ T \in [0..(maxbuff - 1) -> Int] /\ T2 \in [0..(maxbuff - 1) -> Int]
        BY <1>1 DEF Places
      <4> DEFINE l == L[j]
                 c == T[L[j][0]]
                 zone == Zone(L[i][0], p, maxbuff)
                 zone2 == Zone(L[i][0], r, maxbuff)
      <4>3. Holds(T, l, c, n, zone) /\ zone \subseteq zone2 /\ \A q \in zone : T2[q] = T[q]
        BY <3>3, <4>1
      <4> HIDE DEF l, c, zone, zone2
      <4>4. Holds(T2, l, c, n, zone2)
        BY <4>2, <4>3, HoldsKept
      <4> QED BY <4>4 DEF l, c, zone2
    <3>6. Until(j)' = NextHead(T, L, h, N, H, j)
      <4>1. j + 1 \in Pointed'
        BY <1>7, <1>10, <3>1
      <4>2. Until(j)' = T2[L2[j + 1][0]]
        BY <1>2, <3>1, <4>1 DEF Until, First
      <4>3. CASE j + 1 \in Behind(h, N)
        <5>1. T2[L2[j + 1][0]] = T[L[j + 1][0]]
          BY <1>11, <4>3
        <5> QED BY <3>1, <4>2, <4>3, <5>1 DEF NextHead
      <4>4. CASE j + 1 \notin Behind(h, N)
        BY <1>7, <1>14, <3>1, <4>2, <4>4 DEF NextHead
      <4> QED BY <4>3, <4>4
    <3>7. L2[j] = L[j] /\ First(j)' = T[L[j][0]] /\ lines'[j] = L[j] /\ lines'[i][0] = L[i][0]
      BY <1>11, <2>1, <2>3, <3>1
    <3> QED BY <1>2, <3>2, <3>4, <3>5, <3>6, <3>7
  <2> QED BY <2>2, <2>3
<1>19. LineInv'
  <2>1. linestart' <= maxbuff' - 2
    BY <1>0, <1>2, <1>3
  <2>2. file'[Len(file')] = "newline"
    BY <1>4
  <2>3. buffp' = 0 \/ buff'[buffp' - 1] = NUL
    <3>1. r # 0 => r - 1 = p + 1
      BY <1>0
    <3> QED BY <3>1
  <2> QED BY <1>6, <2>1, <2>2, <2>3 DEF LineInv
<1>20. HeadInv'
  <2>1. \A i \in Behind(h, N) : First(i)' = T[L[i][0]]
    BY <1>11 DEF First
  <2>2. First(nlines)' = H /\ (h = 1 => T[L[nlines][0]] = H)
    BY <1>2, <1>12, <1>14 DEF First
  <2>3. Pointed' = Behind(h, N) \cup {nlines}
    BY <1>7, <1>10
  <2>4. ASSUME NEW i \in Pointed', NEW j \in Pointed', i < j
        PROVE  First(i)' < First(j)'
    <3>1. i \in Behind(h, N) /\ i \in 1..nlines /\ j \in 1..nlines
      BY <1>1, <1>7, <1>10, <2>3, <2>4
    <3>2. CASE j \in Behind(h, N)
      BY <2>1, <2>4, <3>1, <3>2 DEF Ready, ReadyHeads
    <3>3. CASE j \notin Behind(h, N)
      <4>1. h = 0 /\ j = nlines
        BY <1>1, <1>7, <2>3, <3>3
      <4>2. T[L[i][0]] < H
        BY <3>1, <4>1 DEF Ready, ReadyHeads
      <4> QED BY <1>2, <2>1, <2>2, <3>1, <4>1, <4>2
    <3> QED BY <3>2, <3>3
  <2>5. Heads' = {T[L[i][0]] : i \in Behind(h, N)} \cup {H}
    <3>1. Heads' = {First(i)' : i \in Pointed'} \cup {}
      BY <1>6 DEF Heads
    <3> QED BY <1>2, <2>1, <2>2, <2>3, <3>1
  <2>6. ASSUME NEW k \in LineStarts'
        PROVE  k \in Heads' \/ (N = nlines /\ \A head \in Heads' : k < head)
    <3>1. \/ k = H \/ \E i \in Behind(h, N) : k = T[L[i][0]]
          \/ N = nlines /\ k < H /\ \A i \in Behind(h, N) : k < T[L[i][0]]
      BY <2>6, HeadsKept DEF LineStarts
    <3> QED BY <2>5, <3>1
  <2> QED BY <1>2, <1>6, <2>4, <2>6 DEF HeadInv
<1> QED BY <1>5, <1>10, <1>18, <1>19, <1>20 DEF TailInv

(***************************************************************************)
(* Making room: the invariant between two turns gives Ready.               *)
(***************************************************************************)
LEMMA Types ==
  ASSUME TypeOK
  PROVE  /\ nlines \in Nat /\ nlines > 0 /\ maxbuff \in Nat /\ maxbuff > 2 /\ file \in Seq(Characters)
         /\ buff \in [Places -> Int] /\ lines \in [1..nlines -> Slots] /\ buffp \in 0..(maxbuff - 1)
         /\ linestart \in 0..(maxbuff - 1) /\ wrap \in 0..1 /\ nfound \in 0..nlines
         /\ Len(file) \in Nat /\ DOMAIN file = 1..Len(file) /\ Places = 0..(maxbuff - 1)
         /\ DOMAIN buff = 0..(maxbuff - 1)
<1>1. /\ nlines \in Nat \ {0} /\ maxbuff \in Nat \ {0, 1, 2} /\ file \in Seq(Characters)
      /\ Slots = [0..1 -> Places \cup {NULL}]
  BY FileTailAssumption DEF TypeOK, Characters, Slots
<1>2. Len(file) \in Nat /\ DOMAIN file = 1..Len(file)
  BY <1>1
<1>3. maxbuff > 2 /\ nlines > 0
  BY <1>1
<1> QED BY <1>1, <1>2, <1>3 DEF TypeOK, Places

LEMMA PointedHas ==
  ASSUME TailInv, NEW i \in Pointed, NEW j \in Pointed, j >= i
  PROVE  /\ i \in 1..nlines /\ lines[i] \in Slots /\ lines[i][0] \in 0..(maxbuff - 2)
         /\ First(i) \in 1..Len(file) /\ First(i) = buff[lines[i][0]]
         /\ \E n \in 1..Len(file) :
              /\ OneLine(file, First(j), n)
              /\ Holds(buff, lines[j], First(j), n,
                       IF status = "reading" THEN Zone(lines[i][0], buffp, maxbuff) ELSE Places)
              /\ status # "full" => n = Until(j) - First(j)
         /\ status = "reading" => lines[j][0] \in Zone(lines[i][0], buffp, maxbuff)
<1>1. TypeOK /\ RingInv
  BY DEF TailInv
<1>2. /\ maxbuff \in Nat /\ maxbuff > 2 /\ buff \in [0..(maxbuff - 1) -> Int]
      /\ lines \in [1..nlines -> Slots] /\ nlines \in Nat /\ Places = 0..(maxbuff - 1)
      /\ DOMAIN file = 1..Len(file) /\ DOMAIN buff = 0..(maxbuff - 1)
  BY <1>1, Types
<1>3. ASSUME NEW k \in Pointed
      PROVE  /\ k \in 1..nlines /\ lines[k] \in Slots /\ lines[k][0] \in Places /\ First(k) \in Int
             /\ First(k) = buff[lines[k][0]]
  <2>1. k \in 1..nlines /\ lines[k][0] # NULL
    BY DEF Pointed
  <2>2. lines[k] \in Slots
    BY <1>2, <2>1
  <2>3. lines[k][0] \in Places
    BY <2>1, <2>2 DEF Slots
  <2> QED BY <1>2, <2>1, <2>2, <2>3 DEF First
<1>4. i >= i
  BY <1>2, <1>3
<1>5. PICK e : /\ OneLine(file, First(i), e)
               /\ Holds(buff, lines[i], First(i), e,
                        IF status = "reading" THEN Zone(lines[i][0], buffp, maxbuff) ELSE Places)
  BY <1>1, <1>4 DEF RingInv
<1>6. lines[i][0] \in 0..(maxbuff - 2)
  BY SMTT(30), <1>2, <1>5 DEF Holds
<1>7. First(i) \in 1..Len(file)
  BY <1>2, <1>5 DEF OneLine
<1>8. PICK n \in 1..Len(file) :
              /\ OneLine(file, First(j), n)
              /\ Holds(buff, lines[j], First(j), n,
                       IF status = "reading" THEN Zone(lines[i][0], buffp, maxbuff) ELSE Places)
              /\ status # "full" => n = Until(j) - First(j)
  BY <1>1 DEF RingInv
<1>9. ASSUME status = "reading"
      PROVE  lines[j][0] \in Zone(lines[i][0], buffp, maxbuff)
  <2>1. Holds(buff, lines[j], First(j), n, Zone(lines[i][0], buffp, maxbuff))
    BY <1>8, <1>9
  <2>2. maxbuff \in Nat /\ buff \in [0..(maxbuff - 1) -> Int]
    BY <1>2
  <2>3. First(j) \in Int
    BY <1>3
  <2> QED BY ONLY <2>1, <2>2, <2>3, HoldsFirst
<1> QED BY <1>3, <1>6, <1>7, <1>8, <1>9

\* A line begins: the pointers move by one.
LEMMA ReadyAtBegin ==
  ASSUME TailInv, status = "reading", Begins,
         NEW N, N = (IF nfound < nlines THEN nfound + 1 ELSE nfound)
  PROVE  Ready(file, buff, Shift(lines), buffp, buffp, 0, N, Len(file) + 1)
<1> DEFINE L == Shift(lines)
           H == Len(file) + 1
<1>1. TypeOK /\ PointerInv /\ RingInv /\ LineInv /\ HeadInv
  BY DEF TailInv
<1>2. /\ nlines \in Nat /\ nlines > 0 /\ maxbuff \in Nat /\ maxbuff > 2 /\ file \in Seq(Characters)
      /\ buff \in [Places -> Int] /\ lines \in [1..nlines -> Slots] /\ buffp \in 0..(maxbuff - 1)
      /\ linestart \in 0..(maxbuff - 1) /\ wrap \in 0..1 /\ nfound \in 0..nlines
      /\ Len(file) \in Nat /\ DOMAIN file = 1..Len(file) /\ Places = 0..(maxbuff - 1)
  BY <1>1, Types
<1>3. /\ buffp = linestart /\ wrap = 0 /\ linestart <= maxbuff - 2 /\ ~AtHand
      /\ file = <<>> \/ file[Len(file)] = "newline"
  BY <1>1 DEF Begins, LineInv, AtHand
<1>4. Pointed = (nlines - nfound + 1)..nlines
  BY <1>1, <1>3 DEF PointerInv
<1>5. /\ \A i \in 1..nlines : i < nlines => i + 1 \in 1..nlines /\ L[i] = lines[i + 1]
      /\ L[nlines] = Unset /\ L \in [1..nlines -> Slots]
  <2>1. Unset \in Slots
    BY DEF Unset, Slots
  <2>2. \A i \in 1..nlines : i < nlines => i + 1 \in 1..nlines
    BY <1>2
  <2> QED BY <1>2, <2>1, <2>2 DEF Shift
<1> HIDE DEF L
<1>6. N \in 1..nlines /\ buffp \in 0..(maxbuff - 2)
  BY <1>2, <1>3
<1>7. ASSUME NEW i \in 1..nlines
      PROVE  i \in Behind(0, N) <=> i < nlines /\ i + 1 \in Pointed
  BY <1>2, <1>4 DEF Behind
<1>8. Behind(0, N) \subseteq 1..nlines /\ Behind(0, N) \subseteq 1..(nlines - 1)
  BY <1>2, <1>6 DEF Behind
<1>9. ASSUME NEW i \in Behind(0, N)
      PROVE  /\ i \in 1..nlines /\ i < nlines /\ i + 1 \in Pointed /\ L[i] = lines[i + 1]
             /\ buff[L[i][0]] = First(i + 1)
  <2>1. i \in 1..nlines
    BY <1>8
  <2> QED BY <1>5, <1>7, <2>1 DEF First
<1>10. ReadyTypes(file, buff, L, buffp, buffp, 0, N, H)
  BY <1>2, <1>5, <1>6 DEF ReadyTypes
<1>11. ReadyPointers(L, 0, N)
  <2> SUFFICES ASSUME NEW i \in 1..nlines
               PROVE  IF i \in Behind(0, N) THEN L[i][0] # NULL ELSE L[i] = Unset
    BY DEF ReadyPointers
  <2>1. CASE i \in Behind(0, N)
    BY <1>9, <2>1 DEF Pointed
  <2>2. CASE i \notin Behind(0, N) /\ i < nlines
    <3>1. i + 1 \notin Pointed /\ i + 1 \in 1..nlines
      BY <1>5, <1>7, <2>2
    <3> QED BY <1>1, <1>5, <2>2, <3>1 DEF PointerInv
  <2>3. CASE i \notin Behind(0, N) /\ ~(i < nlines)
    <3>1. i = nlines
      BY <1>2, <2>3
    <3> QED BY <1>5, <2>3, <3>1
  <2> QED BY <2>1, <2>2, <2>3
<1>12. ReadyLine(file, buff, L, buffp, buffp, 0, H)
  <2>1. H = 1 \/ file[H - 1] = "newline"
    BY <1>2, <1>3
  <2>2. H..Len(file) = {} /\ buffp..(buffp - 1) = {}
    BY <1>2
  <2>3. buffp - buffp = Len(file) + 1 - H
    BY <1>2
  <2> QED BY <2>1, <2>2, <2>3 DEF ReadyLine
<1>13. ReadyRing(file, buff, L, buffp, buffp, 0, N, H)
  <2> SUFFICES ASSUME NEW i \in Behind(0, N)
               PROVE  /\ buffp..(buffp - 1) \subseteq Zone(L[i][0], buffp, maxbuff)
                      /\ \A j \in Behind(0, N) : j >= i =>
                           LET n == NextHead(buff, L, 0, N, H, j) - buff[L[j][0]]
                           IN  n \in 1..Len(file) /\ OneLine(file, buff[L[j][0]], n)
                               /\ Holds(buff, L[j], buff[L[j][0]], n, Zone(L[i][0], buffp, maxbuff))
    BY DEF ReadyRing
  <2>1. buffp..(buffp - 1) = {}
    BY <1>2
  <2>2. ASSUME NEW j \in Behind(0, N), j >= i, NEW n, n = NextHead(buff, L, 0, N, H, j) - buff[L[j][0]]
        PROVE  n \in 1..Len(file) /\ OneLine(file, buff[L[j][0]], n)
               /\ Holds(buff, L[j], buff[L[j][0]], n, Zone(L[i][0], buffp, maxbuff))
    <3>1. i + 1 \in Pointed /\ j + 1 \in Pointed /\ j + 1 >= i + 1 /\ j + 1 \in 1..nlines
      BY <1>2, <1>9, <2>2 DEF Pointed
    <3>2. PICK m \in 1..Len(file) :
            /\ OneLine(file, First(j + 1), m) /\ m = Until(j + 1) - First(j + 1)
            /\ Holds(buff, lines[j + 1], First(j + 1), m, Zone(lines[i + 1][0], buffp, maxbuff))
      BY <3>1, PointedHas
    <3>3. NextHead(buff, L, 0, N, H, j) = Until(j + 1)
      <4>1. CASE j + 1 < nlines
        <5>1. j + 1 + 1 \in Pointed /\ j + 1 \in Behind(0, N)
          BY <1>2, <1>4, <1>7, <3>1, <4>1
        <5> QED BY <1>9, <4>1, <5>1 DEF NextHead, Until
      <4>2. CASE ~(j + 1 < nlines)
        <5>1. j + 1 \notin Behind(0, N) /\ j < nlines
          BY <1>7, <1>9, <3>1, <4>2
        <5> QED BY <1>3, <4>2, <5>1 DEF NextHead, Until
      <4> QED BY <4>1, <4>2
    <3>4. n = m
      BY <1>9, <2>2, <3>2, <3>3
    <3> QED BY <1>9, <3>2, <3>4
  <2> QED BY <2>1, <2>2
<1>14. ReadyHeads(file, buff, L, 0, N, H)
  <2>1. ASSUME NEW i \in Behind(0, N)
        PROVE  /\ \A j \in Behind(0, N) : i < j => buff[L[i][0]] < buff[L[j][0]]
               /\ buff[L[i][0]] < H
    <3>1. ASSUME NEW j \in Behind(0, N), i < j
          PROVE  buff[L[i][0]] < buff[L[j][0]]
      <4>1. i + 1 \in Pointed /\ j + 1 \in Pointed /\ i + 1 < j + 1
        BY <1>2, <1>9, <3>1
      <4>2. First(i + 1) < First(j + 1)
        BY <1>1, <4>1 DEF HeadInv
      <4> QED BY <1>9, <4>2
    <3>2. i + 1 \in Pointed /\ i + 1 >= i + 1
      BY <1>2, <1>9
    <3>3. First(i + 1) \in 1..Len(file)
      BY <3>2, PointedHas
    <3> QED BY <1>2, <1>9, <3>1, <3>3
  <2>2. ASSUME NEW k \in DOMAIN file, k = 1 \/ file[k - 1] = "newline"
        PROVE  \/ k = H \/ \E i \in Behind(0, N) : k = buff[L[i][0]]
               \/ N = nlines /\ k < H /\ \A i \in Behind(0, N) : k < buff[L[i][0]]
    <3>1. k \in LineStarts /\ k < H
      BY <1>2, <2>2 DEF LineStarts
    <3>2. Heads = {First(i) : i \in Pointed}
      BY <1>3 DEF Heads
    <3>3. CASE \E i \in Behind(0, N) : k = buff[L[i][0]]
      BY <3>3
    <3>4. CASE ~\E i \in Behind(0, N) : k = buff[L[i][0]]
      <4>1. N = nlines
        <5>1. CASE nfound = nlines
          BY <1>2, <5>1
        <5>2. CASE nfound < nlines
          <6>1. PICK i \in Pointed : k = First(i)
            <7>1. nfound # nlines
              BY <1>2, <5>2
            <7>2. k \in Heads
              BY <1>1, <3>1, <7>1 DEF HeadInv
            <7> QED BY <3>2, <7>2
          <6>2. i \in Int /\ i > 1 /\ i <= nlines
            BY <1>2, <1>4, <5>2
          <6>3. i - 1 \in 1..nlines /\ i - 1 < nlines /\ (i - 1) + 1 = i
            BY <1>2, <6>2
          <6>4. i - 1 \in Behind(0, N)
            BY <1>7, <6>3
          <6> QED BY <1>9, <3>4, <6>1, <6>3, <6>4
        <5> QED BY <1>2, <5>1, <5>2
      <4>2. ASSUME NEW i \in Behind(0, N)
            PROVE  k < buff[L[i][0]]
        <5>1. i + 1 \in Pointed /\ buff[L[i][0]] = First(i + 1) /\ i \in 1..nlines /\ i < nlines
          BY <1>9
        <5>2. CASE k \notin Heads
          BY <1>1, <3>1, <3>2, <5>1, <5>2 DEF HeadInv
        <5>3. CASE k \in Heads
          <6>1. PICK l \in Pointed : k = First(l)
            BY <3>2, <5>3
          <6>2. l \in 1..nlines
            BY DEF Pointed
          <6>3. ~(l - 1 \in Behind(0, N))
            <7>1. SUFFICES ASSUME l - 1 \in Behind(0, N)
                           PROVE  FALSE
              OBVIOUS
            <7>2. (l - 1) + 1 = l
              BY <6>2
            <7> QED BY <1>9, <3>4, <6>1, <7>1, <7>2
          <6>4. l = 1
            <7>1. SUFFICES ASSUME l # 1
                           PROVE  FALSE
              OBVIOUS
            <7>2. l - 1 \in 1..nlines /\ l - 1 < nlines /\ (l - 1) + 1 = l
              BY <1>2, <6>2, <7>1
            <7> QED BY <1>7, <6>3, <7>2
          <6>5. l < i + 1
            BY <1>2, <5>1, <6>4
          <6> QED BY <1>1, <5>1, <6>1, <6>5 DEF HeadInv
        <5> QED BY <5>2, <5>3
      <4> QED BY <3>1, <4>1, <4>2
    <3> QED BY <3>3, <3>4
  <2> QED BY <2>1, <2>2 DEF ReadyHeads
<1> QED BY <1>10, <1>11, <1>12, <1>13, <1>14 DEF Ready, L

\* A line that has begun is the last one, and its head is the last of the heads.
LEMMA LineAtHand ==
  ASSUME TailInv, status = "reading", ~Begins
  PROVE  /\ linestart < buffp /\ linestart <= maxbuff - 2 /\ nfound \in 1..nlines
         /\ Len(file) > 0 /\ file[Len(file)] # "newline"
         /\ \A q \in linestart..(buffp - 1) : buff[q] = Len(file) + 1 - (buffp - q)
         /\ \A i \in Pointed : /\ linestart..(buffp - 1) \subseteq Zone(lines[i][0], buffp, maxbuff)
                               /\ lines[i][0] # buffp
         /\ Pointed = Behind(wrap, nfound)
         /\ wrap = 0 => AtHand /\ OneLine(file, buff[linestart], buffp - linestart)
                        /\ buff[linestart] = Len(file) + 1 - (buffp - linestart)
         /\ wrap = 1 => /\ ~AtHand /\ nlines \in Pointed
                        /\ linestart = 0 /\ lines[nlines][0] > 0 /\ lines[nlines][1] = NULL
                        /\ Len(file) + 1 - buffp = First(nlines) + (maxbuff - 1 - lines[nlines][0])
                        /\ OneLine(file, First(nlines), Len(file) + 1 - First(nlines))
<1>1. TypeOK /\ PointerInv /\ LineInv
  BY DEF TailInv
<1>2. /\ nlines \in Nat /\ nlines > 0 /\ maxbuff \in Nat /\ maxbuff > 2 /\ buffp \in 0..(maxbuff - 1)
      /\ linestart \in 0..(maxbuff - 1) /\ wrap \in 0..1 /\ nfound \in 0..nlines
      /\ Len(file) \in Nat /\ DOMAIN file = 1..Len(file)
  BY <1>1, Types
<1>3. /\ linestart <= maxbuff - 2 /\ nfound > 0 /\ file[Len(file)] # "newline"
      /\ Copied(buff, linestart, buffp, Len(file) + 1 - (buffp - linestart))
      /\ \A i \in Pointed : /\ linestart..(buffp - 1) \subseteq Zone(lines[i][0], buffp, maxbuff)
                            /\ lines[i][0] # buffp
      /\ wrap = 0 => OneLine(file, buff[linestart], buffp - linestart)
      /\ wrap = 1 =>
           /\ linestart = 0 /\ lines[nlines][0] > 0 /\ lines[nlines][1] = NULL
           /\ buff[0] = Until(nlines)
           /\ OneLine(file, First(nlines), Len(file) + 1 - First(nlines))
  BY <1>1 DEF LineInv
<1>4. linestart < buffp
  BY <1>3 DEF Copied
<1>5. \A q \in linestart..(buffp - 1) : buff[q] = Len(file) + 1 - (buffp - q)
  <2> TAKE q \in linestart..(buffp - 1)
  <2>1. buff[q] = Len(file) + 1 - (buffp - linestart) + (q - linestart)
    BY <1>3 DEF Copied
  <2> QED BY <1>2, <2>1
<1>6. Pointed = Behind(wrap, nfound) /\ (AtHand <=> wrap = 0)
  <2>1. AtHand <=> wrap = 0
    BY DEF AtHand
  <2> QED BY <1>1, <1>2, <2>1 DEF PointerInv, Behind
<1>7. buff[linestart] = Len(file) + 1 - (buffp - linestart)
  BY <1>2, <1>4, <1>5
<1>8. Len(file) > 0
  <2>1. CASE wrap = 0
    BY <1>2, <1>3, <2>1 DEF OneLine
  <2>2. CASE wrap = 1
    BY <1>2, <1>3, <2>2 DEF OneLine
  <2> QED BY <1>2, <2>1, <2>2
<1>9. ASSUME wrap = 1
      PROVE  Len(file) + 1 - buffp = First(nlines) + (maxbuff - 1 - lines[nlines][0])
             /\ nlines \in Pointed /\ ~AtHand
  <2>1. Until(nlines) = First(nlines) + (maxbuff - 1 - lines[nlines][0])
    BY <1>2, <1>9 DEF Until
  <2>2. buff[0] = Len(file) + 1 - (buffp - 0)
    BY <1>3, <1>7, <1>9
  <2>3. nlines \in Pointed
    BY <1>2, <1>3, <1>6, <1>9 DEF Behind
  <2> QED BY <1>2, <1>3, <1>6, <1>9, <2>1, <2>2, <2>3
<1> QED BY <1>2, <1>3, <1>4, <1>5, <1>6, <1>7, <1>8, <1>9

\* The line at hand goes on where it is.
LEMMA ReadyWithin ==
  ASSUME TailInv, status = "reading", ~Begins, ~Wraps
  PROVE  \E H : Ready(file, buff, lines, buffp, linestart, wrap, nfound, H)
<1> DEFINE H == IF wrap = 0 THEN buff[linestart] ELSE First(nlines)
<1>1. TypeOK /\ PointerInv /\ RingInv /\ HeadInv
  BY DEF TailInv
<1>2. /\ nlines \in Nat /\ nlines > 0 /\ maxbuff \in Nat /\ maxbuff > 2 /\ file \in Seq(Characters)
      /\ buff \in [Places -> Int] /\ lines \in [1..nlines -> Slots] /\ buffp \in 0..(maxbuff - 1)
      /\ linestart \in 0..(maxbuff - 1) /\ wrap \in 0..1
      /\ Len(file) \in Nat /\ DOMAIN file = 1..Len(file)
  BY <1>1, Types
<1>3. /\ linestart < buffp /\ nfound \in 1..nlines
      /\ Len(file) > 0 /\ file[Len(file)] # "newline"
      /\ \A q \in linestart..(buffp - 1) : buff[q] = Len(file) + 1 - (buffp - q)
      /\ \A i \in Pointed : linestart..(buffp - 1) \subseteq Zone(lines[i][0], buffp, maxbuff)
      /\ Pointed = Behind(wrap, nfound)
  BY LineAtHand
<1>5. buffp \in 0..(maxbuff - 2) /\ linestart \in 0..buffp
  BY <1>2, <1>3 DEF Wraps
<1>6. wrap = 0 => AtHand /\ OneLine(file, H, buffp - linestart) /\ H = Len(file) + 1 - (buffp - linestart)
  BY LineAtHand
<1>7. wrap = 1 => /\ ~AtHand /\ nlines \in Pointed /\ H = First(nlines)
                  /\ linestart = 0 /\ lines[nlines][0] > 0 /\ lines[nlines][1] = NULL
                  /\ Len(file) + 1 - buffp = H + (maxbuff - 1 - lines[nlines][0])
                  /\ OneLine(file, H, Len(file) + 1 - H)
  BY LineAtHand
<1>8. wrap = 0 => H = buff[linestart]
  OBVIOUS
<1> HIDE DEF H
<1>9. /\ H \in 1..Len(file) /\ OneLine(file, H, Len(file) + 1 - H)
      /\ wrap = 0 => buffp - linestart = Len(file) + 1 - H
      /\ wrap = 1 => buffp + (maxbuff - 1 - lines[nlines][0]) = Len(file) + 1 - H
  <2>1. CASE wrap = 0
    <3>1. H = Len(file) + 1 - (buffp - linestart)
      BY <1>6, <2>1
    <3>2. buffp - linestart = Len(file) + 1 - H
      BY <1>2, <3>1
    <3>3. OneLine(file, H, Len(file) + 1 - H)
      BY <1>6, <2>1, <3>2
    <3> QED BY <1>2, <2>1, <3>2, <3>3 DEF OneLine
  <2>2. CASE wrap = 1
    <3>1. OneLine(file, H, Len(file) + 1 - H)
      BY <1>7, <2>2
    <3>2. H \in 1..Len(file)
      BY <1>2, <3>1 DEF OneLine
    <3>3. lines[nlines][0] \in 0..(maxbuff - 2)
      <4>1. nlines >= nlines
        BY <1>2
      <4> QED BY <1>7, <2>2, <4>1, PointedHas
    <3>4. Len(file) + 1 - buffp = H + (maxbuff - 1 - lines[nlines][0])
      BY <1>7, <2>2
    <3>5. buffp + (maxbuff - 1 - lines[nlines][0]) = Len(file) + 1 - H
      BY <1>2, <3>2, <3>3, <3>4
    <3> QED BY <2>2, <3>1, <3>2, <3>5
  <2> QED BY <1>2, <2>1, <2>2
<1>10. ReadyTypes(file, buff, lines, buffp, linestart, wrap, nfound, H)
  <2>1. H \in 1..(Len(file) + 1)
    BY <1>2, <1>9
  <2> QED BY <1>2, <1>3, <1>5, <2>1 DEF ReadyTypes
<1>11. ReadyPointers(lines, wrap, nfound)
  BY <1>1, <1>3 DEF ReadyPointers, PointerInv, Pointed
<1>12. ReadyLine(file, buff, lines, buffp, linestart, wrap, H)
  <2>1. H = 1 \/ file[H - 1] = "newline"
    BY <1>9 DEF OneLine
  <2>2. ASSUME NEW k \in H..Len(file)
        PROVE  file[k] # "newline"
    <3>1. CASE k = Len(file)
      BY <1>3, <3>1
    <3>2. CASE k # Len(file)
      <4>1. k \in H..(H + (Len(file) + 1 - H) - 2)
        <5>1. H \in Int /\ Len(file) \in Int
          BY <1>2, <1>9
        <5> QED BY <3>2, <5>1
      <4> QED BY <1>9, <4>1 DEF OneLine
    <3> QED BY <3>1, <3>2
  <2>3. wrap = 1 => buff[lines[nlines][0]] = H
    BY <1>7 DEF First
  <2> QED BY <1>3, <1>7, <1>9, <2>1, <2>2, <2>3 DEF ReadyLine
<1>13. ReadyRing(file, buff, lines, buffp, linestart, wrap, nfound, H)
  <2> SUFFICES ASSUME NEW i \in Pointed, NEW j \in Pointed, j >= i,
                      NEW n, n = NextHead(buff, lines, wrap, nfound, H, j) - buff[lines[j][0]]
               PROVE  n \in 1..Len(file) /\ OneLine(file, buff[lines[j][0]], n)
                      /\ Holds(buff, lines[j], buff[lines[j][0]], n, Zone(lines[i][0], buffp, maxbuff))
    BY <1>3 DEF ReadyRing
  <2>1. PICK m \in 1..Len(file) :
          /\ OneLine(file, First(j), m) /\ m = Until(j) - First(j)
          /\ Holds(buff, lines[j], First(j), m, Zone(lines[i][0], buffp, maxbuff))
    BY PointedHas
  <2>2. First(j) = buff[lines[j][0]] /\ j \in 1..nlines
    BY DEF First, Pointed
  <2>3. NextHead(buff, lines, wrap, nfound, H, j) = Until(j)
    <3>1. CASE j < nlines /\ j + 1 \in Pointed
      BY <1>3, <3>1 DEF NextHead, Until, First
    <3>2. CASE j < nlines /\ j + 1 \notin Pointed
      <4>1. wrap = 0
        BY <1>2, <1>3, <2>2, <3>2 DEF Behind
      <4> QED BY <1>3, <1>8, <3>2, <4>1 DEF NextHead, Until
    <3>3. CASE ~(j < nlines)
      <4>1. wrap = 1 /\ j = nlines
        BY <1>2, <1>3, <2>2, <3>3 DEF Behind
      <4> QED BY <1>7, <3>3, <4>1 DEF NextHead, Until
    <3> QED BY <3>1, <3>2, <3>3
  <2> QED BY <2>1, <2>2, <2>3
<1>14. ReadyHeads(file, buff, lines, wrap, nfound, H)
  <2>1. ASSUME NEW i \in Pointed
        PROVE  /\ \A j \in Pointed : i < j => buff[lines[i][0]] < buff[lines[j][0]]
               /\ wrap = 0 => buff[lines[i][0]] < H
    BY <1>1, <1>6, <1>8 DEF HeadInv, First
  <2>2. H \in Heads /\ \A head \in Heads : head = H \/ \E i \in Pointed : head = buff[lines[i][0]]
    BY <1>2, <1>6, <1>7, <1>8 DEF Heads, First
  <2>3. \A i \in Pointed : buff[lines[i][0]] \in Heads
    BY DEF Heads, First
  <2>4. ASSUME NEW k \in DOMAIN file, k = 1 \/ file[k - 1] = "newline"
        PROVE  \/ k = H \/ \E i \in Pointed : k = buff[lines[i][0]]
               \/ nfound = nlines /\ k < H /\ \A i \in Pointed : k < buff[lines[i][0]]
    <3>1. k \in LineStarts
      BY <2>4 DEF LineStarts
    <3> QED BY <1>1, <2>2, <2>3, <3>1 DEF HeadInv
  <2> QED BY <1>3, <2>1, <2>4 DEF ReadyHeads
<1> QED BY <1>10, <1>11, <1>12, <1>13, <1>14 DEF Ready

\* It goes on at the beginning of the buffer, once: its first half is closed.
LEMMA ReadyAtWrap ==
  ASSUME TailInv, status = "reading", Wraps, NEW T \in [Places -> Int],
         T[buffp] = NUL, \A q \in Places : q # buffp => T[q] = buff[q],
         NEW L \in [1..nlines -> Slots], \A i \in 1..nlines : i # nlines => L[i] = lines[i],
         L[nlines][0] = linestart, L[nlines][1] = lines[nlines][1]
  PROVE  ~Begins /\ \E H : Ready(file, T, L, 0, 0, 1, nfound, H)
<1> DEFINE H == buff[linestart]
<1>1. TypeOK /\ PointerInv /\ RingInv /\ LineInv /\ HeadInv
  BY DEF TailInv
<1>2. /\ nlines \in Nat /\ nlines > 0 /\ maxbuff \in Nat /\ maxbuff > 2 /\ file \in Seq(Characters)
      /\ buff \in [Places -> Int] /\ lines \in [1..nlines -> Slots] /\ buffp \in 0..(maxbuff - 1)
      /\ linestart \in 0..(maxbuff - 1) /\ wrap \in 0..1
      /\ Len(file) \in Nat /\ DOMAIN file = 1..Len(file) /\ Places = 0..(maxbuff - 1)
  BY <1>1, Types
<1>3. buffp = maxbuff - 1 /\ ~Begins
  BY <1>1, <1>2 DEF Wraps, Begins, LineInv
<1>4. /\ linestart < buffp /\ linestart <= maxbuff - 2 /\ nfound \in 1..nlines /\ Len(file) > 0
      /\ file[Len(file)] # "newline"
      /\ \A q \in linestart..(buffp - 1) : buff[q] = Len(file) + 1 - (buffp - q)
      /\ \A i \in Pointed : linestart..(buffp - 1) \subseteq Zone(lines[i][0], buffp, maxbuff)
      /\ Pointed = Behind(wrap, nfound)
  BY <1>3, LineAtHand
<1>5. wrap = 0
  <2> SUFFICES ASSUME wrap = 1
               PROVE  FALSE
    BY <1>2
  <2>1. linestart = 0 /\ lines[nlines][0] > 0 /\ nlines \in Pointed
    BY <1>3, LineAtHand
  <2>2. lines[nlines][0] \in 0..(maxbuff - 2)
    <3>1. nlines >= nlines
      BY <1>2
    <3> QED BY <2>1, <3>1, PointedHas
  <2>3. 0 \in Zone(lines[nlines][0], buffp, maxbuff)
    <3>1. 0 \in linestart..(buffp - 1)
      BY <1>2, <1>3, <2>1
    <3> QED BY <1>4, <2>1, <3>1
  <2> QED BY <1>2, <1>3, <2>1, <2>2, <2>3 DEF Zone
<1>6. AtHand /\ H = Len(file) + 1 - (buffp - linestart) /\ OneLine(file, H, buffp - linestart)
  BY <1>3, <1>5, LineAtHand
<1>7. H = buff[linestart]
  OBVIOUS
<1> HIDE DEF H
<1>8. /\ H \in 1..Len(file) /\ OneLine(file, H, Len(file) + 1 - H)
      /\ buffp - linestart = Len(file) + 1 - H
  <2>1. buffp - linestart = Len(file) + 1 - H
    BY <1>2, <1>6
  <2> QED BY <1>2, <1>6, <2>1 DEF OneLine
<1>9. /\ Behind(0, nfound) = Pointed /\ Behind(1, nfound) = Pointed \cup {nlines} /\ nlines \notin Pointed
      /\ Pointed \subseteq 1..nlines /\ nlines \in 1..nlines
  <2>1. nlines \in Nat /\ nlines > 0 /\ nfound \in 1..nlines
    BY <1>2, <1>4
  <2>2. Pointed = Behind(0, nfound)
    BY <1>4, <1>5
  <2> QED BY <2>1, <2>2, BehindOne
<1>10. ASSUME NEW i \in Pointed
       PROVE  /\ i \in 1..nlines /\ i < nlines /\ L[i] = lines[i] /\ lines[i][0] \in 0..(maxbuff - 2)
              /\ T[L[i][0]] = First(i) /\ First(i) \in 1..Len(file)
              /\ Zone(lines[i][0], buffp, maxbuff) \subseteq Zone(lines[i][0], 0, maxbuff)
              /\ maxbuff - 1 \in Zone(lines[i][0], 0, maxbuff)
              /\ \A q \in Zone(lines[i][0], buffp, maxbuff) : T[q] = buff[q]
  <2>1. i \in 1..nlines /\ i < nlines /\ L[i] = lines[i] /\ i >= i
    BY <1>2, <1>9
  <2>2. lines[i][0] \in 0..(maxbuff - 2) /\ First(i) \in 1..Len(file) /\ First(i) = buff[lines[i][0]]
    BY <2>1, PointedHas
  <2>3. lines[i][0] \in Places /\ lines[i][0] # buffp
    <3>1. \A x \in 0..(maxbuff - 2) : x \in Places /\ x # buffp
      BY <1>2, <1>3
    <3> QED BY <2>2, <3>1
  <2>4. /\ Zone(lines[i][0], buffp, maxbuff) \subseteq Zone(lines[i][0], 0, maxbuff)
        /\ maxbuff - 1 \in Zone(lines[i][0], 0, maxbuff)
        /\ buffp \notin Zone(lines[i][0], buffp, maxbuff)
        /\ Zone(lines[i][0], 0, maxbuff) \subseteq Places
    <3> DEFINE o == lines[i][0]
    <3>1. maxbuff \in Nat /\ o \in 0..(maxbuff - 2) /\ buffp = maxbuff - 1 /\ Places = 0..(maxbuff - 1)
      BY <1>2, <1>3, <2>2
    <3> HIDE DEF o
    <3>2. /\ Zone(o, maxbuff - 1, maxbuff) \subseteq Zone(o, 0, maxbuff)
          /\ maxbuff - 1 \in Zone(o, 0, maxbuff) /\ maxbuff - 1 \notin Zone(o, maxbuff - 1, maxbuff)
          /\ Zone(o, 0, maxbuff) = o..(maxbuff - 1)
      BY <3>1, ZoneWraps
    <3>3. Zone(o, 0, maxbuff) \subseteq Places
      BY <3>1, <3>2
    <3> QED BY <3>1, <3>2, <3>3 DEF o
  <2> QED BY <2>1, <2>2, <2>3, <2>4
<1>11. T[linestart] = H /\ linestart \in Places /\ linestart # buffp
  BY <1>2, <1>4, <1>7
<1>12. lines[nlines] = Unset
  BY <1>1, <1>9 DEF PointerInv
<1>13. ReadyTypes(file, T, L, 0, 0, 1, nfound, H)
  <2>1. H \in 1..(Len(file) + 1) /\ 0 \in 0..(maxbuff - 2) /\ 0 \in 0..0 /\ 1 \in 0..1
    BY <1>2, <1>8
  <2>2. nfound \in 1..nlines
    BY <1>4
  <2> QED BY <1>2, <2>1, <2>2 DEF ReadyTypes
<1>14. ReadyPointers(L, 1, nfound)
  <2>1. linestart # NULL
    BY <1>2 DEF NULL
  <2>2. \A i \in Pointed : L[i][0] # NULL
    BY <1>10 DEF Pointed
  <2>3. \A i \in 1..nlines : i \notin Pointed => lines[i] = Unset
    BY <1>1 DEF PointerInv
  <2> QED BY <1>9, <2>1, <2>2, <2>3 DEF ReadyPointers
<1>15. ReadyLine(file, T, L, 0, 0, 1, H)
  <2>1. H = 1 \/ file[H - 1] = "newline"
    BY <1>8 DEF OneLine
  <2>2. ASSUME NEW k \in H..Len(file)
        PROVE  file[k] # "newline"
    <3>1. CASE k = Len(file)
      BY <1>4, <3>1
    <3>2. CASE k # Len(file)
      <4>1. k \in H..(H + (Len(file) + 1 - H) - 2)
        <5>1. H \in Int /\ Len(file) \in Int
          BY <1>2, <1>8
        <5> QED BY <3>2, <5>1
      <4> QED BY <1>8, <4>1 DEF OneLine
    <3> QED BY <3>1, <3>2
  <2>3. 0 + (maxbuff - 1 - linestart) = Len(file) + 1 - H
    <3>1. maxbuff - 1 - linestart = Len(file) + 1 - H
      BY <1>3, <1>8
    <3> QED BY <1>2, <3>1
  <2>4. L[nlines][1] = NULL
    BY <1>12 DEF Unset
  <2>5. 0..(0 - 1) = {}
    OBVIOUS
  <2> QED BY <1>11, <2>1, <2>2, <2>3, <2>4, <2>5 DEF ReadyLine
\* The first half of the line at hand, for a line whose zone it is in.
<1>16. ASSUME NEW zone, linestart..(maxbuff - 1) \subseteq zone
       PROVE  Holds(T, L[nlines], H, maxbuff - 1 - linestart, zone)
  <2>1. \A q \in linestart..((maxbuff - 1) - 1) : T[q] = H + (q - linestart)
    <3> TAKE q \in linestart..((maxbuff - 1) - 1)
    <3>1. q \in linestart..(buffp - 1) /\ q \in Places /\ q # buffp /\ q \in Int
      BY <1>2, <1>3
    <3>2. T[q] = Len(file) + 1 - (buffp - q)
      BY <1>4, <3>1
    <3> QED BY <1>2, <1>6, <3>1, <3>2
  <2>2. Copied(T, linestart, maxbuff - 1, H)
    <3>1. linestart < maxbuff - 1
      BY <1>3, <1>4
    <3> QED BY <2>1, <3>1 DEF Copied
  <2>3. DOMAIN T = 0..(maxbuff - 1) /\ T[maxbuff - 1] = NUL
    BY <1>2, <1>3
  <2>4. L[nlines][0] = linestart /\ L[nlines][1] = NULL
    BY <1>12 DEF Unset
  <2>5. linestart \in DOMAIN T /\ linestart + 1 \in DOMAIN T /\ maxbuff - 1 \in DOMAIN T
    BY <1>2, <1>4, <2>3
  <2> QED BY <1>16, <2>2, <2>3, <2>4, <2>5 DEF Holds
<1>17. ReadyRing(file, T, L, 0, 0, 1, nfound, H)
  <2> SUFFICES ASSUME NEW i \in Pointed \cup {nlines}, NEW j \in Pointed \cup {nlines}, j >= i,
                      NEW n, n = NextHead(T, L, 1, nfound, H, j) - T[L[j][0]]
               PROVE  n \in 1..Len(file) /\ OneLine(file, T[L[j][0]], n)
                      /\ Holds(T, L[j], T[L[j][0]], n, Zone(L[i][0], 0, maxbuff))
    <3>1. 0..(0 - 1) = {}
      OBVIOUS
    <3> QED BY <1>9, <3>1 DEF ReadyRing
  <2>1. CASE j = nlines
    <3>1. n = maxbuff - 1 - linestart /\ T[L[j][0]] = H
      <4>1. NextHead(T, L, 1, nfound, H, j) = H + (maxbuff - 1 - linestart) /\ T[L[j][0]] = H
        <5>1. T[L[j][0]] = H /\ L[nlines][0] = linestart /\ ~(j < nlines)
          BY SMTT(30), <1>2, <1>11, <2>1
        <5> QED BY <5>1 DEF NextHead
      <4>2. H \in Int /\ linestart \in Int /\ maxbuff \in Int
        BY <1>2, <1>8
      <4> QED BY <4>1, <4>2
    <3>2. n \in 1..Len(file) /\ OneLine(file, H, n)
      <4>1. n = buffp - linestart
        BY <1>3, <3>1
      <4>2. OneLine(file, H, n) /\ n \in Int
        <5>1. buffp - linestart \in Int
          BY <1>2
        <5> QED BY <1>6, <4>1, <5>1
      <4> QED BY <1>2, <4>2, OneLineIn
    <3>3. linestart..(maxbuff - 1) \subseteq Zone(L[i][0], 0, maxbuff)
      <4>1. CASE i \in Pointed
        <5>1. linestart..(buffp - 1) \subseteq Zone(lines[i][0], 0, maxbuff)
          BY <1>4, <1>10, <4>1
        <5>2. linestart..(maxbuff - 1) = linestart..(buffp - 1) \cup {maxbuff - 1}
          <6>1. linestart \in Int /\ maxbuff - 1 \in Int /\ linestart <= maxbuff - 1 /\ buffp = maxbuff - 1
            BY <1>2, <1>3
          <6> QED BY <6>1, OneMore
        <5> QED BY <1>10, <4>1, <5>1, <5>2
      <4>2. CASE i = nlines
        <5>1. Zone(linestart, 0, maxbuff) = linestart..(maxbuff - 1)
          BY <1>2, <1>4, ZoneWraps
        <5> QED BY <4>2, <5>1
      <4> QED BY <4>1, <4>2
    <3> QED BY <1>16, <2>1, <3>1, <3>2, <3>3
  <2>2. CASE j # nlines
    <3>1. i \in Pointed /\ j \in Pointed /\ j < nlines /\ j + 1 \in 1..nlines
      BY <1>2, <1>9, <2>2
    <3>2. PICK m \in 1..Len(file) :
            /\ OneLine(file, First(j), m) /\ m = Until(j) - First(j)
            /\ Holds(buff, lines[j], First(j), m, Zone(lines[i][0], buffp, maxbuff))
      BY <3>1, PointedHas
    <3>3. NextHead(T, L, 1, nfound, H, j) = Until(j)
      <4>1. CASE j + 1 \in Pointed
        BY <1>9, <1>10, <3>1, <4>1 DEF NextHead, Until
      <4>2. CASE j + 1 \notin Pointed
        <5>1. j + 1 = nlines
          BY <1>2, <1>4, <1>5, <3>1, <4>2 DEF Behind
        <5> QED BY <1>7, <1>9, <1>11, <3>1, <4>2, <5>1 DEF NextHead, Until
      <4> QED BY <4>1, <4>2
    <3>4. n = m /\ T[L[j][0]] = First(j) /\ L[j] = lines[j] /\ L[i][0] = lines[i][0]
      BY <1>10, <3>1, <3>2, <3>3
    <3>5. Holds(T, lines[j], First(j), m, Zone(lines[i][0], 0, maxbuff))
      <4>1. /\ Zone(lines[i][0], buffp, maxbuff) \subseteq Zone(lines[i][0], 0, maxbuff)
            /\ \A q \in Zone(lines[i][0], buffp, maxbuff) : T[q] = buff[q]
        BY <1>10, <3>1
      <4> QED BY <1>2, <3>2, <4>1, HoldsKept
    <3> QED BY <3>2, <3>4, <3>5
  <2> QED BY <2>1, <2>2
<1>18. ReadyHeads(file, T, L, 1, nfound, H)
  <2>1. ASSUME NEW i \in Pointed
        PROVE  /\ \A j \in Pointed : i < j => First(i) < First(j)
               /\ First(i) < H
    BY <1>1, <1>6, <1>7 DEF HeadInv
  <2>2. ASSUME NEW i \in Pointed \cup {nlines}, NEW j \in Pointed \cup {nlines}, i < j
        PROVE  T[L[i][0]] < T[L[j][0]]
    <3>1. i \in Pointed
      BY <1>2, <1>9, <2>2
    <3> QED BY <1>10, <1>11, <2>1, <2>2, <3>1
  <2>3. Heads = {First(i) : i \in Pointed} \cup {H}
    BY <1>6, <1>7 DEF Heads
  <2>4. ASSUME NEW k \in DOMAIN file, k = 1 \/ file[k - 1] = "newline"
        PROVE  \/ k = H \/ \E i \in Pointed \cup {nlines} : k = T[L[i][0]]
               \/ nfound = nlines /\ k < H /\ \A i \in Pointed \cup {nlines} : k < T[L[i][0]]
    <3>1. k \in LineStarts
      BY <2>4 DEF LineStarts
    <3>2. k \in Heads \/ (nfound = nlines /\ \A head \in Heads : k < head)
      BY <1>1, <3>1 DEF HeadInv
    <3> QED BY <1>10, <1>11, <2>3, <3>2
  <2> QED BY <1>9, <2>2, <2>4 DEF ReadyHeads
<1> QED BY <1>3, <1>13, <1>14, <1>15, <1>17, <1>18 DEF Ready

LEMMA MakesRoom ==
  ASSUME TailInv, status = "reading"
  PROVE  \E H : Ready(file, Text, Pointers, Place, Start, Half, Found, H)
<1>1. TypeOK /\ LineInv
  BY DEF TailInv
<1>2. /\ nlines \in Nat /\ nlines > 0 /\ maxbuff \in Nat /\ maxbuff > 2
      /\ buff \in [Places -> Int] /\ lines \in [1..nlines -> Slots] /\ buffp \in 0..(maxbuff - 1)
      /\ linestart \in 0..(maxbuff - 1) /\ wrap \in 0..1 /\ nfound \in 0..nlines
      /\ Places = 0..(maxbuff - 1)
  BY <1>1, Types
<1>3. CASE Begins
  <2>1. ~Wraps /\ wrap = 0 /\ linestart = buffp
    BY <1>1, <1>2, <1>3 DEF Wraps, Begins, LineInv
  <2>2. /\ Text = buff /\ Pointers = Shift(lines) /\ Place = buffp /\ Start = buffp /\ Half = 0
        /\ Found = (IF nfound < nlines THEN nfound + 1 ELSE nfound)
    BY <1>3, <2>1 DEF Text, Pointers, Shifted, Place, Start, Half, Found
  <2> HIDE DEF Text, Pointers, Place, Start, Half, Found
  <2>3. Ready(file, buff, Shift(lines), buffp, buffp, 0, Found, Len(file) + 1)
    BY <1>3, <2>2, ReadyAtBegin
  <2> QED BY <2>2, <2>3
<1>4. CASE ~Begins /\ ~Wraps
  <2>1. /\ Text = buff /\ Pointers = lines /\ Place = buffp /\ Start = linestart /\ Half = wrap
        /\ Found = nfound
    BY <1>4 DEF Text, Pointers, Shifted, Place, Start, Half, Found
  <2> QED BY <1>4, <2>1, ReadyWithin
<1>5. CASE ~Begins /\ Wraps
  <2>1. /\ Text = [buff EXCEPT ![buffp] = NUL] /\ Pointers = [lines EXCEPT ![nlines][0] = linestart]
        /\ Place = 0 /\ Start = 0 /\ Half = 1 /\ Found = nfound
    BY <1>5 DEF Text, Pointers, Shifted, Place, Start, Half, Found
  <2>2. /\ Text \in [Places -> Int] /\ Text[buffp] = NUL /\ \A q \in Places : q # buffp => Text[q] = buff[q]
    BY <1>2, <2>1 DEF NUL
  <2>3. /\ Pointers \in [1..nlines -> Slots] /\ \A i \in 1..nlines : i # nlines => Pointers[i] = lines[i]
        /\ Pointers[nlines][0] = linestart /\ Pointers[nlines][1] = lines[nlines][1]
    <3>1. lines[nlines] \in Slots /\ nlines \in 1..nlines
      BY <1>2
    <3>2. [lines[nlines] EXCEPT ![0] = linestart] \in Slots
      BY <1>2, <3>1 DEF Slots
    <3> QED BY <1>2, <2>1, <3>1, <3>2 DEF Slots
  <2>4. \E H : Ready(file, Text, Pointers, 0, 0, 1, nfound, H)
    BY <1>5, <2>2, <2>3, ReadyAtWrap
  <2> QED BY <2>1, <2>4
<1> QED BY <1>3, <1>4, <1>5

LEMMA TurnKeeps ==
  ASSUME TailInv, GetC
  PROVE  TailInv'
<1>1. /\ status = "reading" /\ UNCHANGED parameters /\ nlines \in Counts /\ maxbuff \in Sizes
      /\ file \in Seq(Characters)
  BY DEF GetC, TailInv, TypeOK, Characters
<1> DEFINE T == Text
           L == Pointers
           p == Place
           s == Start
           h == Half
           N == Found
<1>2. PICK H : Ready(file, T, L, p, s, h, N, H)
  BY <1>1, MakesRoom
<1>3. /\ nlines \in Nat /\ nlines > 0 /\ maxbuff \in Nat /\ maxbuff > 2
      /\ T \in [Places -> Int] /\ L \in [1..nlines -> Slots] /\ p \in 0..(maxbuff - 2) /\ s \in 0..p
      /\ h \in 0..1 /\ N \in 1..nlines /\ Len(file) \in Nat
  BY <1>2 DEF Ready, ReadyTypes
<1>4. /\ p \in Places /\ p + 1 \in Places /\ p # p + 1 /\ s \in Places /\ nlines \in 1..nlines
  BY <1>3 DEF Places
<1>5. CASE \E c \in Characters : NoRoom(c)
  <2>1. PICK c \in Characters : NoRoom(c)
    BY <1>5
  <2>2. /\ status' = "full" /\ buff' = T /\ lines' = L /\ buffp' = p /\ linestart' = s /\ wrap' = h
        /\ nfound' = N /\ file' = Append(file, c)
    BY <2>1 DEF NoRoom
  <2>3. Longer(file, file', c)
    BY <1>1, <2>2, AppendIsLonger
  <2> HIDE DEF T, L, p, s, h, N
  <2> QED BY <1>1, <1>2, <2>2, <2>3, NoRoomKeeps
<1>6. CASE Store
  <2>1. /\ TestForRoom(L, N, p) /\ status' = "reading" /\ buff' = [T EXCEPT ![p] = Len(file) + 1]
        /\ lines' = L /\ buffp' = p + 1 /\ linestart' = s /\ wrap' = h
        /\ nfound' = N /\ file' = Append(file, "char")
    BY <1>1, <1>6 DEF Store
  <2>2. Longer(file, file', "char")
    BY <1>1, <2>1, AppendIsLonger DEF Characters
  <2> HIDE DEF T, L, p, s, h, N
  <2>3. PICK T2 : T2 = [T EXCEPT ![p] = Len(file) + 1]
    OBVIOUS
  <2>4. T2 \in [Places -> Int] /\ T2[p] = Len(file) + 1 /\ (\A q \in Places : q # p => T2[q] = T[q])
        /\ buff' = T2
    BY <1>3, <1>4, <2>1, <2>3
  <2> QED BY <1>1, <1>2, <2>1, <2>2, <2>4, StoreKeeps
<1>7. CASE StoreNewline
  <2>1. /\ TestForRoom(L, N, p) /\ status' = "reading"
        /\ buff' = [T EXCEPT ![p] = Len(file) + 1, ![p + 1] = NUL]
        /\ lines' = [L EXCEPT ![nlines][h] = s]
        /\ buffp' = (IF p + 2 >= maxbuff - 1 THEN 0 ELSE p + 2) /\ linestart' = buffp' /\ wrap' = 0
        /\ nfound' = N /\ file' = Append(file, "newline")
    BY <1>1, <1>7 DEF StoreNewline
  <2>2. Longer(file, file', "newline")
    BY <1>1, <2>1, AppendIsLonger DEF Characters
  <2> HIDE DEF T, L, p, s, h, N
  <2>3. PICK T2 : T2 = [T EXCEPT ![p] = Len(file) + 1, ![p + 1] = NUL]
    OBVIOUS
  <2>4. /\ T2 \in [Places -> Int] /\ T2[p] = Len(file) + 1 /\ T2[p + 1] = NUL
        /\ (\A q \in Places : q \notin {p, p + 1} => T2[q] = T[q])
    BY <1>3, <1>4, <2>3 DEF NUL
  <2>5. PICK L2 : L2 = [L EXCEPT ![nlines][h] = s]
    OBVIOUS
  <2>6. /\ L2 \in [1..nlines -> Slots] /\ \A i \in 1..nlines : i # nlines => L2[i] = L[i]
        /\ L2[nlines][h] = s /\ L2[nlines][1 - h] = L[nlines][1 - h]
    <3>1. L[nlines] \in Slots
      BY <1>3, <1>4
    <3>2. [L[nlines] EXCEPT ![h] = s] \in Slots
      BY <1>3, <1>4, <3>1 DEF Slots
    <3>3. [L[nlines] EXCEPT ![h] = s][h] = s /\ [L[nlines] EXCEPT ![h] = s][1 - h] = L[nlines][1 - h]
      BY <1>3, <3>1 DEF Slots
    <3>4. L2[nlines] = [L[nlines] EXCEPT ![h] = s] /\ \A i \in 1..nlines : i # nlines => L2[i] = L[i]
      BY <1>3, <1>4, <2>5
    <3>5. L2 \in [1..nlines -> Slots]
      BY <1>3, <1>4, <2>5, <3>2, <3>4
    <3> QED BY <3>3, <3>4, <3>5
  <2>7. buff' = T2 /\ lines' = L2
    BY <2>1, <2>3, <2>5
  <2>8. Newline(T, L, p, s, h, N)
    BY <1>1, <2>1, <2>4, <2>6, <2>7 DEF Newline
  <2> QED BY <1>1, <1>2, <2>1, <2>2, <2>8, NewlineKeeps
<1> QED BY <1>5, <1>6, <1>7 DEF GetC, Characters

(***************************************************************************)
(* The end of the file.                                                    *)
(***************************************************************************)
\* A line whose first half has just been closed, and no character behind it.
LEMMA EndAtWrap ==
  ASSUME TypeOK, UNCHANGED <<parameters, file, buffp, linestart, wrap, nfound>>,
         Ready(file, buff', lines', 0, 0, 1, nfound, buff'[lines'[nlines][0]]), status' = "done"
  PROVE  TailInv'
<1> PICK T : T = buff'
  OBVIOUS
<1> PICK L : L = lines'
  OBVIOUS
<1> PICK N : N = nfound
  OBVIOUS
<1> PICK H : H = buff'[lines'[nlines][0]]
  OBVIOUS
<1>0. Ready(file, T, L, 0, 0, 1, N, H)
  OBVIOUS
<1>1. /\ nlines \in Nat /\ nlines > 0 /\ maxbuff \in Nat /\ maxbuff > 2
      /\ T \in [Places -> Int] /\ L \in [1..nlines -> Slots]
      /\ N \in 1..nlines /\ Len(file) \in Nat
  BY <1>0 DEF Ready, ReadyTypes
<1>2. /\ nlines' = nlines /\ maxbuff' = maxbuff /\ Places' = Places /\ Slots = [0..1 -> Places \cup {NULL}]
      /\ file' = file /\ nfound' = N
  BY DEF parameters, Places, Slots
<1>3. TypeOK'
  BY <1>1, <1>2 DEF TypeOK
<1>4. /\ ~AtHand' /\ Behind(1, N) = (nlines - N + 1)..nlines
      /\ Behind(1, N) \subseteq 1..nlines /\ nlines \in Behind(1, N)
      /\ \A j \in Behind(1, N) : j = nlines \/ (j < nlines /\ j + 1 \in Behind(1, N))
  BY <1>1 DEF AtHand, Behind
<1>5. PointerInv' /\ Pointed' = Behind(1, N)
  <2>1. \A i \in 1..nlines : IF i \in Behind(1, N) THEN L[i][0] # NULL ELSE L[i] = Unset
    BY <1>0 DEF Ready, ReadyPointers
  <2>2. Unset[0] = NULL
    BY DEF Unset
  <2>3. Pointed' = Behind(1, N)
    BY <1>2, <1>4, <2>1, <2>2 DEF Pointed
  <2> QED BY <1>2, <1>4, <2>1, <2>3 DEF PointerInv, Unset
<1>6. T[L[nlines][0]] = H /\ H + (maxbuff - 1 - L[nlines][0]) = Len(file) + 1
  <2>1. 0 + (maxbuff - 1 - L[nlines][0]) = Len(file) + 1 - H
    BY <1>0 DEF Ready, ReadyLine
  <2>2. L[nlines][0] \in 0..(maxbuff - 2) /\ T[L[nlines][0]] \in 1..Len(file)
    BY <1>0, <1>4, BehindHas
  <2>3. L[nlines][0] \in Int /\ H \in Int
    BY <2>2
  <2> QED BY <1>1, <2>1, <2>3
<1>7. RingInv'
  <2> SUFFICES ASSUME NEW i \in Pointed', NEW j \in Pointed', j >= i
               PROVE  \E n \in 1..Len(file') :
                        /\ OneLine(file', First(j)', n)
                        /\ Holds(buff', lines'[j], First(j)', n, Places')
                        /\ n = Until(j)' - First(j)'
    BY DEF RingInv
  <2>1. First(j)' = T[L[j][0]] /\ i \in Behind(1, N) /\ j \in Behind(1, N)
    BY <1>5 DEF First
  <2> DEFINE n == NextHead(T, L, 1, N, H, j) - T[L[j][0]]
  <2>2. n = NextHead(T, L, 1, N, H, j) - T[L[j][0]]
    OBVIOUS
  <2> HIDE DEF n
  <2>3. /\ n \in 1..Len(file) /\ OneLine(file, T[L[j][0]], n)
        /\ Holds(T, L[j], T[L[j][0]], n, Zone(L[i][0], 0, maxbuff))
    BY <1>0, <2>1, <2>2, RingHas
  <2>4. Zone(L[i][0], 0, maxbuff) \subseteq Places
    <3>1. L[i][0] \in 0..(maxbuff - 2)
      BY <1>0, <2>1, BehindHas
    <3>2. L[i][0] \in 0..(maxbuff - 1) /\ 0 \in 0..(maxbuff - 1)
      BY <1>1, <3>1
    <3> QED BY <1>1, <3>2, ZonesAreOfPlaces DEF Places
  <2>5. Holds(T, L[j], T[L[j][0]], n, Places)
    BY <1>1, <2>3, <2>4, HoldsKept DEF Places
  <2>6. NextHead(T, L, 1, N, H, j) = Until(j)'
    <3>1. CASE j = nlines
      <4>1. NextHead(T, L, 1, N, H, j) = Len(file) + 1
        BY <1>1, <1>6, <3>1 DEF NextHead
      <4> QED BY <1>1, <1>2, <3>1, <4>1 DEF Until
    <3>2. CASE j < nlines /\ j + 1 \in Behind(1, N)
      BY <1>2, <1>5, <3>2 DEF NextHead, Until, First
    <3> QED BY <1>4, <2>1, <3>1, <3>2
  <2> QED BY <1>2, <2>1, <2>2, <2>3, <2>5, <2>6
<1>8. LineInv'
  BY DEF LineInv
<1>9. HeadInv'
  <2>1. \A i \in Behind(1, N) : First(i)' = T[L[i][0]]
    BY DEF First
  <2>2. \A i \in Behind(1, N) : \A j \in Behind(1, N) : i < j => First(i)' < First(j)'
    BY <1>0, <2>1 DEF Ready, ReadyHeads
  <2>3. Heads' = {T[L[i][0]] : i \in Behind(1, N)}
    <3>1. Heads' = {First(i)' : i \in Pointed'} \cup {}
      BY <1>4 DEF Heads
    <3> QED BY <1>5, <2>1, <3>1
  <2>4. ASSUME NEW k \in LineStarts'
        PROVE  k \in Heads' \/ (N = nlines /\ \A head \in Heads' : k < head)
    <3>1. k \in DOMAIN file /\ (k = 1 \/ file[k - 1] = "newline")
      BY <1>2 DEF LineStarts
    <3>2. \/ k = H \/ \E i \in Behind(1, N) : k = T[L[i][0]]
          \/ N = nlines /\ k < H /\ \A i \in Behind(1, N) : k < T[L[i][0]]
      BY <1>0, <3>1 DEF Ready, ReadyHeads
    <3> QED BY <1>4, <1>6, <2>3, <3>2
  <2> QED BY <1>2, <1>4, <1>5, <2>2, <2>4 DEF HeadInv
<1> QED BY <1>3, <1>5, <1>7, <1>8, <1>9 DEF TailInv

\* Nothing at hand: the file ends with a newline, or is empty.
LEMMA EndAtBegin ==
  ASSUME TailInv, status = "reading", status' = "done", Begins,
         UNCHANGED <<parameters, file, buff, lines, buffp, linestart, wrap, nfound>>
  PROVE  TailInv'
<1>1. TypeOK /\ PointerInv /\ RingInv /\ HeadInv
  BY DEF TailInv
<1>2. /\ nlines \in Nat /\ maxbuff \in Nat /\ maxbuff > 2 /\ buff \in [Places -> Int]
      /\ buffp \in 0..(maxbuff - 1) /\ Places = 0..(maxbuff - 1)
  BY <1>1, Types
<1>3. /\ nlines' = nlines /\ maxbuff' = maxbuff /\ Places' = Places /\ file' = file /\ buff' = buff
      /\ lines' = lines /\ buffp' = buffp /\ linestart' = linestart /\ wrap' = wrap /\ nfound' = nfound
  BY DEF parameters, Places
<1>4. TypeOK'
  BY <1>1, <1>3 DEF TypeOK
<1>5. ~AtHand /\ ~AtHand' /\ Pointed' = Pointed /\ wrap = 0
  BY <1>3 DEF AtHand, Pointed, Begins
<1>6. PointerInv'
  BY <1>1, <1>3, <1>5 DEF PointerInv, Unset
<1>7. RingInv'
  <2> SUFFICES ASSUME NEW i \in Pointed, NEW j \in Pointed, j >= i
               PROVE  \E n \in 1..Len(file) :
                        /\ OneLine(file, First(j), n) /\ Holds(buff, lines[j], First(j), n, Places)
                        /\ n = Until(j)' - First(j)
    BY <1>3, <1>5 DEF RingInv, First
  <2>1. PICK n \in 1..Len(file) :
          /\ OneLine(file, First(j), n) /\ n = Until(j) - First(j)
          /\ Holds(buff, lines[j], First(j), n, Zone(lines[i][0], buffp, maxbuff))
    BY PointedHas
  <2>2. Zone(lines[i][0], buffp, maxbuff) \subseteq Places
    <3>1. lines[i][0] \in 0..(maxbuff - 2)
      BY PointedHas
    <3>2. lines[i][0] \in 0..(maxbuff - 1)
      BY <1>2, <3>1
    <3> QED BY <1>2, <3>2, ZonesAreOfPlaces
  <2>3. Holds(buff, lines[j], First(j), n, Places)
    BY <1>2, <2>1, <2>2, HoldsKept
  <2>4. Until(j)' = Until(j)
    BY <1>3, <1>5 DEF Until, First
  <2> QED BY <2>1, <2>3, <2>4
<1>8. LineInv'
  BY DEF LineInv
<1>9. HeadInv'
  <2>1. \A i \in Pointed : First(i)' = First(i)
    BY <1>3 DEF First
  <2>2. Heads' = Heads /\ LineStarts' = LineStarts
    BY <1>3, <1>5, <2>1 DEF Heads, LineStarts
  <2> QED BY <1>1, <1>3, <1>5, <2>1, <2>2 DEF HeadInv
<1> QED BY <1>4, <1>6, <1>7, <1>8, <1>9 DEF TailInv

\* What EndOfFile assigns behind a line that has not been ended.
CutOff(p, s, h) ==
  /\ buff' \in [Places -> Int] /\ buff'[p] = NUL /\ \A q \in Places : q # p => buff'[q] = buff[q]
  /\ lines' \in [1..nlines -> Slots] /\ \A i \in 1..nlines : i # nlines => lines'[i] = lines[i]
  /\ lines'[nlines][h] = s /\ lines'[nlines][1 - h] = lines[nlines][1 - h]

LEMMA EndWithin ==
  ASSUME TailInv, status = "reading", status' = "done", ~Begins, ~Wraps,
         UNCHANGED <<parameters, file, buffp, linestart, wrap, nfound>>,
         CutOff(buffp, linestart, wrap)
  PROVE  TailInv'
<1> PICK H : Ready(file, buff, lines, buffp, linestart, wrap, nfound, H)
  BY ReadyWithin
<1> PICK p : p = buffp
  OBVIOUS
<1> PICK s : s = linestart
  OBVIOUS
<1> PICK h : h = wrap
  OBVIOUS
<1> PICK N : N = nfound
  OBVIOUS
<1> PICK T2 : T2 = buff'
  OBVIOUS
<1> PICK L2 : L2 = lines'
  OBVIOUS
<1>a. Ready(file, buff, lines, p, s, h, N, H)
  OBVIOUS
<1>b. /\ T2 \in [Places -> Int] /\ T2[p] = NUL /\ \A q \in Places : q # p => T2[q] = buff[q]
      /\ L2 \in [1..nlines -> Slots] /\ \A i \in 1..nlines : i # nlines => L2[i] = lines[i]
      /\ L2[nlines][h] = s /\ L2[nlines][1 - h] = lines[nlines][1 - h]
  BY DEF CutOff
<1>1. /\ nlines \in Nat /\ nlines > 0 /\ maxbuff \in Nat /\ maxbuff > 2 /\ file \in Seq(Characters)
      /\ buff \in [Places -> Int] /\ lines \in [1..nlines -> Slots] /\ p \in 0..(maxbuff - 2) /\ s \in 0..p
      /\ h \in 0..1 /\ N \in 1..nlines /\ H \in 1..(Len(file) + 1) /\ Len(file) \in Nat
  BY <1>a DEF Ready, ReadyTypes
<1>0. p \in Int /\ s \in Int /\ H \in Int /\ Len(file) \in Int /\ maxbuff \in Int
  BY <1>1
<1>2. /\ nlines' = nlines /\ maxbuff' = maxbuff /\ Places' = Places /\ Slots = [0..1 -> Places \cup {NULL}]
      /\ file' = file /\ nfound' = N /\ buff' = T2 /\ lines' = L2
  BY DEF parameters, Places, Slots
<1>3. s < p /\ \A i \in Pointed : lines[i][0] # p
  BY LineAtHand
<1>4. Pointed = Behind(h, N)
  BY LineAtHand
<1>5. TypeOK'
  <2>1. TypeOK
    BY DEF TailInv
  <2> QED BY <1>b, <1>2, <2>1 DEF TypeOK
<1>6. ~AtHand'
  BY DEF AtHand
<1>7. /\ nlines \in 1..nlines /\ Behind(h, N) \subseteq 1..nlines
      /\ \A i \in Behind(h, N) : i # nlines \/ h = 1
      /\ \A i \in 1..nlines : i = nlines \/ i \in Behind(h, N) \/ i \notin (nlines - N + 1)..nlines
      /\ Behind(h, N) \cup {nlines} = (nlines - N + 1)..nlines
      /\ \A j \in Behind(h, N) : j < nlines /\ j + 1 \notin Behind(h, N) => h = 0 /\ j + 1 = nlines
      /\ \A j \in Behind(h, N) : j < nlines => j + 1 \in Behind(h, N) \cup {nlines}
      /\ h = 1 => nlines \in Behind(h, N)
  BY <1>1 DEF Behind
<1>8. \A i \in 1..nlines : IF i \in Behind(h, N) THEN lines[i][0] # NULL ELSE lines[i] = Unset
  BY <1>a DEF Ready, ReadyPointers
<1>9. /\ L2[nlines][0] \in Places
      /\ h = 0 => L2[nlines][0] = s /\ L2[nlines][1] = NULL
      /\ h = 1 => L2[nlines][0] = lines[nlines][0] /\ L2[nlines][1] = 0
  <2>1. CASE h = 0
    <3>1. lines[nlines] = Unset /\ s \in Places
      BY <1>1, <1>7, <1>8, <2>1 DEF Places
    <3> QED BY <1>b, <2>1, <3>1 DEF Unset
  <2>2. CASE h = 1
    <3>1. s = 0
      BY <1>a, <2>2 DEF Ready, ReadyLine
    <3>2. lines[nlines][0] \in Places
      <4>1. lines[nlines][0] \in 0..(maxbuff - 2)
        BY <1>a, <1>7, <2>2, BehindHas
      <4> QED BY <1>0, <4>1 DEF Places
    <3> QED BY <1>b, <2>2, <3>1, <3>2
  <2> QED BY <1>1, <2>1, <2>2
<1>10. PointerInv' /\ Pointed' = (nlines - N + 1)..nlines
  <2>1. NULL \notin Places
    BY DEF NULL, Places
  <2>2. Unset[0] = NULL
    BY DEF Unset
  <2>3. \A i \in 1..nlines : IF i \in (nlines - N + 1)..nlines THEN L2[i][0] # NULL ELSE L2[i] = Unset
    BY <1>b, <1>7, <1>8, <1>9, <2>1
  <2>4. (nlines - N + 1)..nlines \subseteq 1..nlines
    BY <1>1
  <2>5. Pointed' = (nlines - N + 1)..nlines
    BY <1>2, <2>2, <2>3, <2>4 DEF Pointed
  <2> QED BY <1>2, <1>6, <2>3, <2>5 DEF PointerInv, Unset
<1>11. ASSUME NEW i \in Behind(h, N)
       PROVE  /\ i \in 1..nlines /\ lines[i][0] \in 0..(maxbuff - 2)
              /\ buff[lines[i][0]] \in 1..Len(file) /\ T2[lines[i][0]] = buff[lines[i][0]]
              /\ L2[i][0] = lines[i][0]
              /\ Zone(lines[i][0], p, maxbuff) \subseteq Places
              /\ \A q \in Zone(lines[i][0], p, maxbuff) : T2[q] = buff[q]
  <2>1. /\ i \in 1..nlines /\ lines[i][0] \in 0..(maxbuff - 2) /\ buff[lines[i][0]] \in 1..Len(file)
    BY <1>a, BehindHas
  <2>2. lines[i][0] \in Places /\ lines[i][0] # p
    <3>1. \A x \in 0..(maxbuff - 2) : x \in Places
      BY <1>0 DEF Places
    <3> QED BY <1>3, <1>4, <2>1, <3>1
  <2>3. L2[i][0] = lines[i][0]
    BY <1>b, <1>7, <1>9, <2>1
  <2>4. Zone(lines[i][0], p, maxbuff) \subseteq Places /\ p \notin Zone(lines[i][0], p, maxbuff)
    <3> DEFINE o == lines[i][0]
    <3>1. o \in 0..(maxbuff - 2) /\ o # p
      BY <2>1, <2>2
    <3> HIDE DEF o
    <3>2. Zone(o, p, maxbuff) \subseteq 0..(maxbuff - 1) /\ p \notin Zone(o, p, maxbuff)
      BY <1>1, <3>1, ZoneGrows
    <3> QED BY <3>2 DEF o, Places
  <2> QED BY <1>b, <2>1, <2>2, <2>3, <2>4
<1>12. /\ H = 1 \/ file[H - 1] = "newline"
       /\ \A k \in H..Len(file) : file[k] # "newline"
       /\ \A q \in s..(p - 1) : buff[q] = Len(file) + 1 - (p - q)
       /\ h = 0 => p - s = Len(file) + 1 - H
       /\ h = 1 => /\ s = 0 /\ lines[nlines][1] = NULL /\ buff[lines[nlines][0]] = H
                   /\ p > 0 => lines[nlines][0] > 0
                   /\ p + (maxbuff - 1 - lines[nlines][0]) = Len(file) + 1 - H
  BY <1>a DEF Ready, ReadyLine
<1>13. \A q \in s..(p - 1) : T2[q] = Len(file) + 1 - (p - q)
  <2> TAKE q \in s..(p - 1)
  <2>1. q \in Places /\ q # p
    BY <1>1 DEF Places
  <2> QED BY <1>b, <1>12, <2>1
<1>14. T2[L2[nlines][0]] = H
  <2>1. CASE h = 0
    <3>1. T2[s] = Len(file) + 1 - (p - s)
      BY <1>1, <1>3, <1>13
    <3>2. p - s = Len(file) + 1 - H
      BY <1>12, <2>1
    <3>3. Len(file) + 1 - (p - s) = H
      BY <1>0, <3>2
    <3> QED BY <1>9, <2>1, <3>1, <3>3
  <2>2. CASE h = 1
    BY <1>7, <1>9, <1>11, <1>12, <2>2
  <2> QED BY <1>1, <2>1, <2>2
<1>15. H \in 1..Len(file) /\ OneLine(file, H, Len(file) + 1 - H)
  <2>1. H <= Len(file)
    <3>1. CASE h = 0
      <4>1. p - s = Len(file) + 1 - H
        BY <1>12, <3>1
      <4> QED BY <1>0, <1>3, <4>1
    <3>2. CASE h = 1
      BY <1>7, <1>11, <1>12, <3>2
    <3> QED BY <1>1, <3>1, <3>2
  <2>2. H + (Len(file) + 1 - H) - 2 = Len(file) - 1 /\ H + (Len(file) + 1 - H) - 1 = Len(file)
    BY <1>0
  <2>3. \A k \in H..(Len(file) - 1) : k \in H..Len(file)
    BY <1>0
  <2>4. DOMAIN file = 1..Len(file) /\ H \in 1..Len(file) /\ Len(file) \in 1..Len(file)
        /\ Len(file) + 1 - H > 0
    BY <1>1, <2>1
  <2> QED BY <1>12, <2>2, <2>3, <2>4 DEF OneLine
<1>16. Holds(T2, L2[nlines], H, Len(file) + 1 - H, Places)
  <2>1. DOMAIN T2 = 0..(maxbuff - 1) /\ p \in DOMAIN T2
    BY <1>b, <1>1 DEF Places
  <2>2. CASE h = 0
    <3>1. p - s = Len(file) + 1 - H
      BY <1>12, <2>2
    <3>2. \A q \in s..(p - 1) : T2[q] = H + (q - s)
      <4> TAKE q \in s..(p - 1)
      <4>1. q \in Int
        OBVIOUS
      <4>2. T2[q] = Len(file) + 1 - (p - q)
        BY <1>13
      <4> QED BY <1>0, <3>1, <4>1, <4>2
    <3>3. Copied(T2, s, p, H)
      BY <1>3, <3>2 DEF Copied
    <3>4. s \in DOMAIN T2 /\ s + 1 \in DOMAIN T2 /\ s..p \subseteq Places
      BY SMTT(30), <1>1, <2>1 DEF Places
    <3> QED BY <1>b, <1>9, <2>1, <2>2, <3>1, <3>3, <3>4 DEF Holds
  <2>3. CASE h = 1
    <3> DEFINE o == lines[nlines][0]
    <3>1. /\ s = 0 /\ lines[nlines][1] = NULL /\ buff[o] = H /\ o \in 0..(maxbuff - 2) /\ o \in Int
          /\ p + (maxbuff - 1 - o) = Len(file) + 1 - H /\ nlines \in Behind(h, N)
      BY <1>7, <1>11, <1>12, <2>3
    <3>0. lines[nlines][0] = o /\ L2[nlines][0] = o /\ L2[nlines][1] = 0
      BY <1>9, <2>3
    <3> HIDE DEF o
    <3>2. Holds(buff, lines[nlines], H, maxbuff - 1 - o, Zone(o, p, maxbuff))
      <4> DEFINE n == NextHead(buff, lines, h, N, H, nlines) - buff[o]
      <4>1. n = maxbuff - 1 - o
        <5>1. NextHead(buff, lines, h, N, H, nlines) = H + (maxbuff - 1 - o)
          BY <1>1, <3>0 DEF NextHead
        <5> QED BY <1>0, <3>1, <5>1
      <4>2. nlines >= nlines
        BY <1>1
      <4>3. Holds(buff, lines[nlines], buff[o], n, Zone(o, p, maxbuff))
        BY <1>a, <3>0, <3>1, <4>2, RingHas
      <4> QED BY <3>1, <4>1, <4>3
    <3>3. DOMAIN buff = 0..(maxbuff - 1)
      BY <1>1 DEF Places
    <3>4. PICK e \in 0..(maxbuff - 1) : /\ Copied(buff, o, e, H) /\ buff[e] = NUL
                                        /\ o..e \subseteq Zone(o, p, maxbuff)
                                        /\ maxbuff - 1 - o = e - o
      BY <3>0, <3>1, <3>2, <3>3 DEF Holds, NULL
    <3>5. e = maxbuff - 1
      <4>1. o \in Int /\ e \in Int /\ maxbuff - 1 - o = e - o
        BY <1>0, <3>1, <3>4
      <4> QED BY <1>0, <4>1
    <3>6. \A q \in o..e : T2[q] = buff[q]
      BY <1>11, <3>0, <3>1, <3>4
    <3>7. Copied(T2, o, e, H) /\ T2[e] = NUL /\ o..e \subseteq Places /\ e + 1 \notin DOMAIN T2
      <4>1. e \in o..e /\ e \in Int
        BY <1>0, <3>1, <3>5
      <4>2. Copied(T2, o, e, H)
        BY <3>1, <3>4, <3>6, <4>1, CopiedKept
      <4>3. e + 1 \notin DOMAIN T2
        BY <1>0, <2>1, <3>5
      <4>4. o..e \subseteq Places
        BY <1>11, <3>0, <3>1, <3>4
      <4> QED BY <3>4, <3>6, <4>1, <4>2, <4>3, <4>4
    <3>8. Copied(T2, 0, p, H + (e - o)) /\ T2[p] = NUL /\ 0..p \subseteq Places
      <4>1. \A q \in 0..(p - 1) : T2[q] = H + (e - o) + (q - 0)
        <5> TAKE q \in 0..(p - 1)
        <5>1. q \in s..(p - 1) /\ q \in Int
          BY <1>0, <3>1
        <5>2. T2[q] = Len(file) + 1 - (p - q)
          BY <1>13, <5>1
        <5>3. Len(file) + 1 - (p - q) = H + (e - o) + (q - 0)
          <6>1. p + (maxbuff - 1 - o) = Len(file) + 1 - H /\ o \in Int
            BY <3>1
          <6> QED BY <1>0, <3>5, <5>1, <6>1
        <5> QED BY <5>2, <5>3
      <4>2. 0 < p
        BY <1>3, <3>1
      <4>3. 0..p \subseteq Places
        BY <1>1 DEF Places
      <4> QED BY <1>b, <4>1, <4>2, <4>3 DEF Copied
    <3>9. Len(file) + 1 - H = (e - o) + p
      <4>1. p + (maxbuff - 1 - o) = Len(file) + 1 - H /\ o \in Int
        BY <3>1
      <4> QED BY <1>0, <3>5, <4>1
    <3>10. o \in DOMAIN T2 /\ o + 1 \in DOMAIN T2 /\ e \in DOMAIN T2
      <4>1. o \in 0..(maxbuff - 2)
        BY <3>1
      <4> QED BY <1>0, <2>1, <3>4, <4>1
    <3> QED BY <2>1, <3>0, <3>7, <3>8, <3>9, <3>10 DEF Holds
  <2> QED BY <1>1, <2>2, <2>3
<1>18. RingInv'
  <2> SUFFICES ASSUME NEW i \in Pointed', NEW j \in Pointed', j >= i
               PROVE  \E n \in 1..Len(file') :
                        /\ OneLine(file', First(j)', n)
                        /\ Holds(buff', lines'[j], First(j)', n, Places')
                        /\ n = Until(j)' - First(j)'
    BY DEF RingInv
  <2>1. /\ i \in Behind(h, N) \cup {nlines} /\ j \in Behind(h, N) \cup {nlines}
        /\ i \in 1..nlines /\ j \in 1..nlines
        /\ First(j)' = T2[L2[j][0]] /\ First(nlines)' = H
    BY <1>2, <1>7, <1>10, <1>14 DEF First
  <2>2. CASE j = nlines
    <3>1. Until(j)' = Len(file) + 1
      BY <1>1, <1>2, <2>2 DEF Until
    <3>2. Len(file) + 1 - H \in 1..Len(file)
      BY <1>0, <1>15
    <3>3. First(j)' = H
      BY <1>2, <2>1, <2>2
    <3> DEFINE n == Len(file) + 1 - H
    <3>4. n \in 1..Len(file') /\ OneLine(file', First(j)', n) /\ n = Until(j)' - First(j)'
      BY <1>2, <1>15, <3>1, <3>2, <3>3
    <3>5. Holds(buff', lines'[j], First(j)', n, Places')
      BY <1>2, <1>16, <2>2, <3>3
    <3> HIDE DEF n
    <3> QED BY <3>4, <3>5
  <2>3. CASE j # nlines
    <3>1. j \in Behind(h, N) /\ j < nlines /\ j + 1 \in 1..nlines /\ j >= j
      BY <1>1, <2>1, <2>3
    <3> DEFINE n == NextHead(buff, lines, h, N, H, j) - buff[lines[j][0]]
    <3>2. n = NextHead(buff, lines, h, N, H, j) - buff[lines[j][0]]
      OBVIOUS
    <3> HIDE DEF n
    <3>3. /\ n \in 1..Len(file) /\ OneLine(file, buff[lines[j][0]], n)
          /\ Holds(buff, lines[j], buff[lines[j][0]], n, Zone(lines[j][0], p, maxbuff))
      BY <1>a, <3>1, <3>2, RingHas
    <3>5. Holds(T2, lines[j], buff[lines[j][0]], n, Places)
      <4>1. /\ Zone(lines[j][0], p, maxbuff) \subseteq Places
            /\ \A q \in Zone(lines[j][0], p, maxbuff) : T2[q] = buff[q]
        BY <1>11, <3>1
      <4>2. /\ maxbuff \in Nat /\ buff \in [0..(maxbuff - 1) -> Int]
            /\ T2 \in [0..(maxbuff - 1) -> Int]
        BY <1>b, <1>1 DEF Places
      <4> DEFINE l == lines[j]
                 c == buff[lines[j][0]]
                 zone == Zone(lines[j][0], p, maxbuff)
      <4>3. Holds(buff, l, c, n, zone) /\ zone \subseteq Places /\ \A q \in zone : T2[q] = buff[q]
        BY <3>3, <4>1
      <4> HIDE DEF l, c, zone
      <4>4. Holds(T2, l, c, n, Places)
        BY <4>2, <4>3, HoldsKept
      <4> QED BY <4>4 DEF l, c
    <3>6. Until(j)' = NextHead(buff, lines, h, N, H, j)
      <4>1. j + 1 \in Pointed'
        BY <1>7, <1>10, <3>1
      <4>2. Until(j)' = T2[L2[j + 1][0]]
        BY <1>2, <3>1, <4>1 DEF Until, First
      <4>3. CASE j + 1 \in Behind(h, N)
        <5>1. T2[L2[j + 1][0]] = buff[lines[j + 1][0]]
          BY <1>11, <4>3
        <5> QED BY <3>1, <4>2, <4>3, <5>1 DEF NextHead
      <4>4. CASE j + 1 \notin Behind(h, N)
        BY <1>7, <1>14, <3>1, <4>2, <4>4 DEF NextHead
      <4> QED BY <4>3, <4>4
    <3>7. L2[j] = lines[j] /\ First(j)' = buff[lines[j][0]] /\ lines'[j] = lines[j]
      BY <1>b, <1>2, <1>11, <2>1, <2>3, <3>1
    <3> QED BY <1>2, <3>2, <3>3, <3>5, <3>6, <3>7
  <2> QED BY <2>2, <2>3
<1>19. LineInv'
  BY DEF LineInv
<1>20. HeadInv'
  <2>1. \A i \in Behind(h, N) : First(i)' = buff[lines[i][0]]
    BY <1>2, <1>11 DEF First
  <2>2. First(nlines)' = H /\ (h = 1 => buff[lines[nlines][0]] = H)
    BY <1>2, <1>12, <1>14 DEF First
  <2>3. Pointed' = Behind(h, N) \cup {nlines}
    BY <1>7, <1>10
  <2>4. ASSUME NEW i \in Pointed', NEW j \in Pointed', i < j
        PROVE  First(i)' < First(j)'
    <3>1. i \in Behind(h, N) /\ i \in 1..nlines /\ j \in 1..nlines
      BY <1>1, <1>7, <1>10, <2>3, <2>4
    <3>2. CASE j \in Behind(h, N)
      BY <1>a, <2>1, <2>4, <3>1, <3>2 DEF Ready, ReadyHeads
    <3>3. CASE j \notin Behind(h, N)
      <4>1. h = 0 /\ j = nlines
        BY <1>1, <1>7, <2>3, <3>3
      <4>2. buff[lines[i][0]] < H
        BY <1>a, <3>1, <4>1 DEF Ready, ReadyHeads
      <4> QED BY <1>2, <2>1, <2>2, <3>1, <4>1, <4>2
    <3> QED BY <3>2, <3>3
  <2>5. Heads' = {buff[lines[i][0]] : i \in Behind(h, N)} \cup {H}
    <3>1. Heads' = {First(i)' : i \in Pointed'} \cup {}
      BY <1>6 DEF Heads
    <3> QED BY <1>2, <2>1, <2>2, <2>3, <3>1
  <2>6. ASSUME NEW k \in LineStarts'
        PROVE  k \in Heads' \/ (N = nlines /\ \A head \in Heads' : k < head)
    <3>1. k \in DOMAIN file /\ (k = 1 \/ file[k - 1] = "newline")
      BY <1>2, <2>6 DEF LineStarts
    <3>2. \/ k = H \/ \E i \in Behind(h, N) : k = buff[lines[i][0]]
          \/ N = nlines /\ k < H /\ \A i \in Behind(h, N) : k < buff[lines[i][0]]
      BY <1>a, <3>1 DEF Ready, ReadyHeads
    <3> QED BY <2>5, <3>2
  <2> QED BY <1>2, <1>6, <2>4, <2>6 DEF HeadInv
<1> QED BY <1>5, <1>10, <1>18, <1>19, <1>20 DEF TailInv

LEMMA EndKeeps ==
  ASSUME TailInv, EndOfFile
  PROVE  TailInv'
<1>1. /\ status = "reading" /\ status' = "done"
      /\ UNCHANGED <<parameters, file, buffp, linestart, wrap, nfound>>
  BY DEF EndOfFile
<1>2. TypeOK /\ LineInv
  BY DEF TailInv
<1>3. /\ nlines \in Nat /\ nlines > 0 /\ maxbuff \in Nat /\ maxbuff > 2
      /\ buff \in [Places -> Int] /\ lines \in [1..nlines -> Slots] /\ buffp \in 0..(maxbuff - 1)
      /\ linestart \in 0..(maxbuff - 1) /\ wrap \in 0..1 /\ Places = 0..(maxbuff - 1)
      /\ Len(file) \in Nat
  BY <1>2, Types
<1>4. CASE Begins
  <2>1. ~(buffp # 0 /\ buff[buffp - 1] # NUL)
    BY <1>1, <1>2, <1>4 DEF LineInv
  <2>2. UNCHANGED <<buff, lines>>
    BY <2>1 DEF EndOfFile
  <2> QED BY <1>1, <1>4, <2>2, EndAtBegin
<1>5. CASE ~Begins
  <2>1. /\ linestart < buffp /\ Len(file) > 0 /\ nfound \in 1..nlines
        /\ \A q \in linestart..(buffp - 1) : buff[q] = Len(file) + 1 - (buffp - q)
    BY <1>1, <1>5, LineAtHand
  <2>2. buffp # 0 /\ buff[buffp - 1] # NUL
    <3>1. buffp - 1 \in linestart..(buffp - 1)
      BY <1>3, <2>1
    <3>2. buff[buffp - 1] = Len(file) + 1 - (buffp - (buffp - 1))
      BY <2>1, <3>1
    <3> QED BY <1>3, <2>1, <3>2 DEF NUL
  <2>3. /\ buff' = [buff EXCEPT ![buffp] = NUL]
        /\ lines' = [lines EXCEPT ![nlines][wrap] = linestart]
    BY <2>2 DEF EndOfFile
  <2>4. CutOff(buffp, linestart, wrap)
    <3>1. buff' \in [Places -> Int] /\ buff'[buffp] = NUL /\ \A q \in Places : q # buffp => buff'[q] = buff[q]
      BY <1>3, <2>3 DEF NUL
    <3>2. lines[nlines] \in Slots /\ nlines \in 1..nlines
      BY <1>3
    <3>3. [lines[nlines] EXCEPT ![wrap] = linestart] \in Slots
      BY <1>3, <3>2 DEF Slots
    <3>4. /\ [lines[nlines] EXCEPT ![wrap] = linestart][wrap] = linestart
          /\ [lines[nlines] EXCEPT ![wrap] = linestart][1 - wrap] = lines[nlines][1 - wrap]
      BY <1>3, <3>2 DEF Slots
    <3>5. /\ lines'[nlines] = [lines[nlines] EXCEPT ![wrap] = linestart]
          /\ \A i \in 1..nlines : i # nlines => lines'[i] = lines[i]
      BY <1>3, <2>3, <3>2
    <3>6. lines' \in [1..nlines -> Slots]
      BY <1>3, <2>3, <3>2, <3>3
    <3> QED BY <3>1, <3>4, <3>5, <3>6 DEF CutOff
  <2>5. CASE Wraps
    <3>1. wrap = 0
      <4> SUFFICES ASSUME wrap = 1
                   PROVE  FALSE
        BY <1>3
      <4>1. /\ linestart = 0 /\ lines[nlines][0] > 0 /\ nlines \in Pointed
            /\ linestart..(buffp - 1) \subseteq Zone(lines[nlines][0], buffp, maxbuff)
        BY <1>1, <1>5, LineAtHand
      <4>2. lines[nlines][0] \in 0..(maxbuff - 2)
        <5>1. nlines >= nlines
          BY <1>3
        <5> QED BY <4>1, <5>1, PointedHas
      <4>3. 0 \in Zone(lines[nlines][0], buffp, maxbuff)
        <5>1. 0 \in linestart..(buffp - 1)
          BY <1>3, <2>1, <4>1
        <5> QED BY <4>1, <5>1
      <4> QED BY <1>3, <2>5, <4>1, <4>2, <4>3 DEF Zone, Wraps
    <3>2. /\ buff' \in [Places -> Int] /\ buff'[buffp] = NUL /\ \A q \in Places : q # buffp => buff'[q] = buff[q]
          /\ lines' \in [1..nlines -> Slots] /\ \A i \in 1..nlines : i # nlines => lines'[i] = lines[i]
          /\ lines'[nlines][0] = linestart /\ lines'[nlines][1] = lines[nlines][1]
      BY <2>4, <3>1 DEF CutOff
    <3>3. PICK H : Ready(file, buff', lines', 0, 0, 1, nfound, H)
      BY <1>1, <2>5, <3>2, ReadyAtWrap
    <3>4. H = buff'[lines'[nlines][0]]
      BY <3>3 DEF Ready, ReadyLine
    <3> QED BY <1>1, <1>2, <3>3, <3>4, EndAtWrap
  <2>6. CASE ~Wraps
    BY <1>1, <1>5, <2>4, <2>6, EndWithin
  <2> QED BY <2>5, <2>6
<1> QED BY <1>4, <1>5

LEMMA InitHasTail == Init => TailInv
<1> SUFFICES ASSUME Init
             PROVE  TailInv
  OBVIOUS
<1>1. /\ nlines \in Counts /\ maxbuff \in Sizes /\ file = <<>>
      /\ buff = [place \in Places |-> Uninit] /\ lines = [i \in 1..nlines |-> Unset]
      /\ buffp = 0 /\ linestart = 0 /\ wrap = 0 /\ nfound = 0
      /\ status \in {"reading", "undefined"}
  BY DEF Init
<1>2. nlines \in Nat /\ nlines > 0 /\ maxbuff \in Nat /\ maxbuff > 2
  BY <1>1, FileTailAssumption
<1>3. TypeOK
  <2>1. Unset \in [0..1 -> Places \cup {NULL}]
    BY DEF Unset
  <2>2. 0 \in Places /\ <<>> \in Seq({"char", "newline"})
    BY <1>2 DEF Places
  <2> QED BY <1>1, <1>2, <2>1, <2>2 DEF TypeOK, Uninit
<1>4. Pointed = {} /\ ~AtHand /\ Begins
  BY <1>1 DEF Pointed, Unset, AtHand, Begins
<1>5. PointerInv
  <2>1. (nlines - nfound + 1)..nlines = {}
    BY <1>1, <1>2
  <2> QED BY <1>1, <1>4, <2>1 DEF PointerInv
<1>6. RingInv
  BY <1>4 DEF RingInv
<1>7. LineInv
  BY <1>1, <1>2, <1>4 DEF LineInv
<1>8. HeadInv
  <2>1. LineStarts = {}
    BY <1>1 DEF LineStarts
  <2> QED BY <1>4, <2>1 DEF HeadInv
<1> QED BY <1>3, <1>5, <1>6, <1>7, <1>8 DEF TailInv

\* The lines in the buffer lie behind one another, each a piece of one line of
\* the file, the pointers are those of the last lines found and the oldest one
\* keeps the ring from coming round: src/fileTailer.cc, for every number of
\* lines, every size of the buffer and every file.
THEOREM TailInvariant == Spec => []TailInv
<1>1. Init => TailInv
  BY InitHasTail
<1>2. TailInv /\ [Next]_vars => TailInv'
  <2> SUFFICES ASSUME TailInv, [Next]_vars
               PROVE  TailInv'
    OBVIOUS
  <2>1. CASE GetC
    BY <2>1, TurnKeeps
  <2>2. CASE EndOfFile
    BY <2>2, EndKeeps
  <2>3. CASE UNCHANGED vars
    <3>1. UNCHANGED <<nlines, maxbuff, file, buff, lines, buffp, linestart, wrap, nfound, status>>
      BY <2>3 DEF vars, parameters
    <3>2. /\ UNCHANGED <<Pointed, AtHand, Begins, Places, Slots, LineStarts>>
          /\ \A i : UNCHANGED <<First(i), Until(i)>>
      BY <3>1 DEF Pointed, AtHand, Begins, Places, Slots, LineStarts, First, Until
    <3>3. TypeOK' /\ PointerInv'
      BY <3>1, <3>2 DEF TailInv, TypeOK, PointerInv, Unset
    <3>4. RingInv'
      BY <3>1, <3>2 DEF TailInv, RingInv
    <3>5. LineInv'
      BY <3>1, <3>2 DEF TailInv, LineInv
    <3>6. HeadInv'
      <4>1. UNCHANGED Heads
        BY <3>1, <3>2 DEF Heads
      <4> QED BY <3>1, <3>2, <4>1 DEF TailInv, HeadInv
    <3> QED BY <3>3, <3>4, <3>5, <3>6 DEF TailInv
  <2> QED BY <2>1, <2>2, <2>3 DEF Next
<1> QED BY <1>1, <1>2, PTL DEF Spec

-----------------------------------------------------------------------------
(***************************************************************************)
(* What the pointers lead to.                                              *)
(***************************************************************************)
\* The n characters of the file from c on.
Piece(c, n) == [k \in 1..n |-> c + k - 1]

LEMMA PieceIsSeq ==
  ASSUME NEW c \in Int, NEW n \in Nat
  PROVE  Piece(c, n) \in Seq(Int) /\ Len(Piece(c, n)) = n /\ \A k \in 1..n : Piece(c, n)[k] = c + k - 1
BY DEF Piece

LEMMA PiecesJoin ==
  ASSUME NEW c \in Int, NEW m \in Nat, NEW n \in Nat
  PROVE  Piece(c, m) \o Piece(c + m, n) = Piece(c, m + n)
<1> DEFINE s == Piece(c, m)
           t == Piece(c + m, n)
           u == Piece(c, m + n)
<1>1. /\ s \in Seq(Int) /\ Len(s) = m /\ \A k \in 1..m : s[k] = c + k - 1
      /\ t \in Seq(Int) /\ Len(t) = n /\ \A k \in 1..n : t[k] = (c + m) + k - 1
      /\ u \in Seq(Int) /\ Len(u) = m + n /\ \A k \in 1..(m + n) : u[k] = c + k - 1
  BY PieceIsSeq
<1> HIDE DEF s, t, u
<1>2. /\ s \o t \in Seq(Int) /\ Len(s \o t) = m + n
      /\ \A k \in 1..(m + n) : (s \o t)[k] = IF k <= m THEN s[k] ELSE t[k - m]
  BY <1>1, ConcatProperties
<1>3. ASSUME NEW k \in 1..(m + n)
      PROVE  (s \o t)[k] = u[k]
  <2>1. CASE k <= m
    <3>1. k \in 1..m
      BY <2>1
    <3> QED BY <1>1, <1>2, <2>1, <3>1
  <2>2. CASE ~(k <= m)
    <3>1. k - m \in 1..n
      BY <2>2
    <3>2. t[k - m] = (c + m) + (k - m) - 1
      BY <1>1, <3>1
    <3>3. (c + m) + (k - m) - 1 = c + k - 1
      OBVIOUS
    <3> QED BY <1>1, <1>2, <2>2, <3>2, <3>3
  <2> QED BY <2>1, <2>2
<1>4. s \o t = u
  BY <1>1, <1>2, <1>3, SeqEqual
<1> QED BY <1>4 DEF s, t, u

LEMMA MinIs ==
  ASSUME NEW S \in SUBSET Int, NEW e \in S, \A q \in S : e <= q
  PROVE  Min(S) = e
<1>1. Min(S) \in S /\ \A q \in S : Min(S) <= q
  BY Zenon DEF Min
<1>2. Min(S) \in Int /\ e \in Int /\ Min(S) <= e /\ e <= Min(S)
  BY <1>1
<1> QED BY <1>2

\* A string is what lies before the next end of string, no character being one.
LEMMA StringIs ==
  ASSUME TypeOK, NEW s \in Places, NEW e \in Places, NEW c \in Nat, c > 0,
         Copied(buff, s, e, c), buff[e] = NUL
  PROVE  String(s) = Piece(c, e - s)
<1>1. /\ maxbuff \in Nat /\ Places = 0..(maxbuff - 1)
  BY Types
<1> DEFINE S == {q \in s..(maxbuff - 1) : buff[q] = NUL}
<1>2. s < e /\ \A q \in s..(e - 1) : buff[q] = c + (q - s)
  BY DEF Copied
<1>3. e \in S /\ S \subseteq Int /\ s # NULL
  BY <1>1, <1>2 DEF NULL
<1>4. ASSUME NEW q \in S
      PROVE  e <= q
  <2>1. SUFFICES ASSUME q < e
                 PROVE  FALSE
    BY <1>1, <1>3
  <2>2. q \in s..(e - 1) /\ q \in Int
    BY <1>1, <2>1
  <2>3. buff[q] = c + (q - s)
    BY <1>2, <2>2
  <2> QED BY <1>1, <2>2, <2>3 DEF NUL
<1>5. Min(S) = e
  <2> HIDE DEF S
  <2> QED BY <1>3, <1>4, MinIs
<1>6. String(s) = [k \in 1..(e - s) |-> buff[s + k - 1]]
  BY <1>3, <1>5 DEF String
<1>7. \A k \in 1..(e - s) : buff[s + k - 1] = c + k - 1
  <2> TAKE k \in 1..(e - s)
  <2>1. s + k - 1 \in s..(e - 1) /\ c + ((s + k - 1) - s) = c + k - 1
    BY <1>1
  <2> QED BY <1>2, <2>1
<1> QED BY <1>6, <1>7 DEF Piece

LEMMA NoLine ==
  ASSUME TailInv, NEW i \in 1..nlines, i \notin Pointed
  PROVE  Line(i) = <<>>
<1>1. lines[i] = Unset
  BY DEF TailInv, PointerInv
<1>2. lines[i][0] = NULL /\ lines[i][1] = NULL
  BY <1>1 DEF Unset
<1>3. String(NULL) = <<>>
  BY DEF String
<1> QED BY <1>2, <1>3 DEF Line

LEMMA LineIs ==
  ASSUME TailInv, NEW i \in Pointed
  PROVE  \E n \in 1..Len(file) :
           /\ Line(i) = Piece(First(i), n) /\ OneLine(file, First(i), n)
           /\ status # "full" => n = Until(i) - First(i)
<1>1. TypeOK
  BY DEF TailInv
<1>2. /\ nlines \in Nat /\ maxbuff \in Nat /\ maxbuff > 2 /\ buff \in [Places -> Int] /\ Len(file) \in Nat
      /\ DOMAIN buff = 0..(maxbuff - 1) /\ Places = 0..(maxbuff - 1)
  BY <1>1, Types
<1>3. i >= i
  BY <1>2 DEF Pointed
<1> PICK c : c = First(i)
  OBVIOUS
<1> PICK l : l = lines[i]
  OBVIOUS
<1> PICK zone : zone = IF status = "reading" THEN Zone(lines[i][0], buffp, maxbuff) ELSE Places
  OBVIOUS
<1>4. PICK n \in 1..Len(file) :
         /\ OneLine(file, c, n) /\ Holds(buff, l, c, n, zone)
         /\ status # "full" => n = Until(i) - c
  BY <1>3, PointedHas
<1>5. c \in 1..Len(file) /\ l[0] \in Places
  BY <1>2, <1>3, PointedHas
<1>6. PICK e \in Places :
       /\ Copied(buff, l[0], e, c) /\ buff[e] = NUL
       /\ \/ l[1] = NULL /\ n = e - l[0]
          \/ /\ l[1] = 0
             /\ \E g \in Places : /\ Copied(buff, 0, g, c + (e - l[0])) /\ buff[g] = NUL
                                  /\ n = (e - l[0]) + g
  BY <1>2, <1>4 DEF Holds
<1>7. String(l[0]) = Piece(c, e - l[0]) /\ e - l[0] \in Nat /\ e - l[0] > 0
  <2>1. c \in Nat /\ c > 0
    BY <1>5
  <2>2. l[0] < e /\ l[0] \in Int /\ e \in Int
    BY <1>2, <1>5, <1>6 DEF Copied
  <2>3. String(l[0]) = Piece(c, e - l[0])
    BY <1>1, <1>5, <1>6, <2>1, StringIs
  <2> QED BY <2>2, <2>3
<1>8. Line(i) = Piece(c, n)
  <2>0. Line(i) = String(l[0]) \o String(l[1])
    BY DEF Line
  <2>1. CASE l[1] = NULL /\ n = e - l[0]
    <3>1. String(l[1]) = <<>>
      BY <2>1 DEF String
    <3>2. Piece(c, n) \in Seq(Int)
      <4>1. c \in Int /\ n \in Nat
        BY <1>5, <1>7, <2>1
      <4> QED BY <4>1, PieceIsSeq
    <3> QED BY <1>7, <2>0, <2>1, <3>1, <3>2
  <2>2. CASE l[1] = 0 /\ ~(l[1] = NULL)
    <3>1. PICK g \in Places : Copied(buff, 0, g, c + (e - l[0])) /\ buff[g] = NUL /\ n = (e - l[0]) + g
      BY <1>6, <2>2
    <3> DEFINE m == e - l[0]
    <3>2. m \in Nat /\ c + m \in Nat /\ c + m > 0 /\ 0 \in Places /\ g \in Nat /\ g - 0 = g /\ c \in Int
      <4>1. m \in Nat /\ 0 \in Places /\ g \in Nat
        BY <1>2, <1>7
      <4> HIDE DEF m
      <4>2. c \in Nat /\ c > 0
        BY <1>5
      <4> QED BY <4>1, <4>2
    <3>3. Copied(buff, 0, g, c + m) /\ buff[g] = NUL /\ n = m + g /\ String(l[0]) = Piece(c, m)
      BY <1>7, <3>1
    <3> HIDE DEF m
    <3>4. String(0) = Piece(c + m, g - 0)
      BY <1>1, <3>2, <3>3, StringIs
    <3>5. Piece(c, m) \o Piece(c + m, g) = Piece(c, m + g)
      BY <3>2, PiecesJoin
    <3> QED BY <2>0, <2>2, <3>2, <3>3, <3>4, <3>5
  <2> QED BY <1>6, <2>1, <2>2 DEF NULL
<1> QED BY <1>4, <1>8

\* What a line's pointers lead to is a piece of one line of the file from its
\* beginning on, however often the ring has come round (fileTailer::findTail).
THEOREM LinesIntactHolds == Spec => []LinesIntact
<1>1. TailInv => LinesIntact
  <2> SUFFICES ASSUME TailInv, NEW i \in 1..nlines, Line(i) # <<>>
               PROVE  /\ Line(i)[1] \in LineStarts
                      /\ \A k \in 2..Len(Line(i)) :
                           Line(i)[k] = Line(i)[k - 1] + 1 /\ file[Line(i)[k - 1]] # "newline"
    BY DEF LinesIntact
  <2>1. i \in Pointed
    BY NoLine
  <2>2. PICK n \in 1..Len(file) : Line(i) = Piece(First(i), n) /\ OneLine(file, First(i), n)
    BY <2>1, LineIs
  <2>3. First(i) \in 1..Len(file) /\ n \in Nat
    BY <2>2, Types DEF OneLine, TailInv
  <2> PICK c : c = First(i)
    OBVIOUS
  <2>4. Len(Line(i)) = n /\ \A k \in 1..n : Line(i)[k] = c + k - 1
    <3>1. c \in Int /\ Line(i) = Piece(c, n)
      BY <2>2, <2>3
    <3> QED BY <2>3, <3>1, PieceIsSeq
  <2>5. Line(i)[1] \in LineStarts
    <3>1. Line(i)[1] = c
      BY <2>2, <2>3, <2>4
    <3> QED BY <2>2, <3>1 DEF OneLine, LineStarts
  <2>6. ASSUME NEW k \in 2..Len(Line(i))
        PROVE  Line(i)[k] = Line(i)[k - 1] + 1 /\ file[Line(i)[k - 1]] # "newline"
    <3>1. k \in 1..n /\ k - 1 \in 1..n /\ k <= n
      BY <2>3, <2>4
    <3>2. Line(i)[k] = c + k - 1 /\ Line(i)[k - 1] = c + (k - 1) - 1
      BY <2>4, <3>1
    <3>3. c + (k - 1) - 1 \in c..(c + n - 2) /\ c + k - 1 = (c + (k - 1) - 1) + 1
      BY <2>3, <3>1
    <3> QED BY <2>2, <3>2, <3>3 DEF OneLine
  <2> QED BY <2>5, <2>6
<1> QED BY <1>1, TailInvariant, PTL

(***************************************************************************)
(* The last lines.                                                         *)
(***************************************************************************)
\* When the file has been read, the lines lie behind one another up to its end.
LEMMA DoneHas ==
  ASSUME TailInv, status = "done"
  PROVE  /\ nlines \in Nat /\ nlines > 0 /\ nfound \in 0..nlines /\ Len(file) \in Nat
         /\ DOMAIN file = 1..Len(file) /\ Pointed = (nlines - nfound + 1)..nlines
         /\ Heads = {First(i) : i \in Pointed}
         /\ \A i \in Pointed :
              /\ i \in 1..nlines /\ First(i) \in 1..Len(file) /\ First(i) \in LineStarts
              /\ Until(i) - First(i) \in 1..Len(file) /\ Line(i) = Piece(First(i), Until(i) - First(i))
              /\ \A j \in Pointed : i < j => First(i) < First(j)
              /\ i < nlines => i + 1 \in Pointed /\ Until(i) = First(i + 1)
         /\ nfound > 0 => nlines \in Pointed
         /\ Until(nlines) = Len(file) + 1
         /\ \A k \in LineStarts : k \in Heads \/ (nfound = nlines /\ \A head \in Heads : k < head)
<1>1. TypeOK /\ PointerInv /\ HeadInv
  BY DEF TailInv
<1>2. nlines \in Nat /\ nlines > 0 /\ nfound \in 0..nlines /\ Len(file) \in Nat /\ DOMAIN file = 1..Len(file)
  BY <1>1, Types
<1>3. ~AtHand
  BY DEF AtHand
<1>4. Pointed = (nlines - nfound + 1)..nlines
  BY <1>1, <1>3 DEF PointerInv
<1>5. Heads = {First(i) : i \in Pointed}
  BY <1>3 DEF Heads
<1>6. ASSUME NEW i \in Pointed
      PROVE  /\ i \in 1..nlines /\ First(i) \in 1..Len(file) /\ First(i) \in LineStarts
             /\ Until(i) - First(i) \in 1..Len(file) /\ Line(i) = Piece(First(i), Until(i) - First(i))
             /\ \A j \in Pointed : i < j => First(i) < First(j)
             /\ i < nlines => i + 1 \in Pointed /\ Until(i) = First(i + 1)
  <2>1. i \in 1..nlines
    BY DEF Pointed
  <2>2. PICK n \in 1..Len(file) : Line(i) = Piece(First(i), n) /\ OneLine(file, First(i), n) /\ n = Until(i) - First(i)
    BY LineIs
  <2>3. First(i) \in 1..Len(file) /\ First(i) \in LineStarts
    BY <1>2, <2>2 DEF OneLine, LineStarts
  <2>4. \A j \in Pointed : i < j => First(i) < First(j)
    BY <1>1 DEF HeadInv
  <2>5. i < nlines => i + 1 \in Pointed
    BY <1>2, <1>4
  <2>6. i < nlines => Until(i) = First(i + 1)
    BY <2>5 DEF Until
  <2> QED BY <2>1, <2>2, <2>3, <2>4, <2>5, <2>6
<1>7. nfound > 0 => nlines \in Pointed
  BY <1>2, <1>4
<1>8. Until(nlines) = Len(file) + 1
  BY <1>2 DEF Until
<1>9. \A k \in LineStarts : k \in Heads \/ (nfound = nlines /\ \A head \in Heads : k < head)
  BY <1>1 DEF HeadInv
<1> QED BY <1>2, <1>4, <1>5, <1>6, <1>7, <1>8, <1>9

LEMMA AsManyHeads ==
  ASSUME TailInv, status = "done"
  PROVE  IsFiniteSet(Heads) /\ Cardinality(Heads) = nfound
<1>1. nlines \in Nat /\ nfound \in 0..nlines /\ Pointed = (nlines - nfound + 1)..nlines
  BY DoneHas
<1>2. IsFiniteSet(Pointed) /\ Cardinality(Pointed) = nfound
  <2>1. nlines - nfound + 1 \in Int /\ nlines \in Int
    BY <1>1
  <2>2. /\ IsFiniteSet((nlines - nfound + 1)..nlines)
        /\ Cardinality((nlines - nfound + 1)..nlines) =
             IF nlines - nfound + 1 > nlines THEN 0 ELSE nlines - (nlines - nfound + 1) + 1
    BY <2>1, FS_Interval
  <2> QED BY <1>1, <2>2
<1> DEFINE f == [i \in Pointed |-> First(i)]
<1>3. f \in Bijection(Pointed, Heads)
  <2>1. f \in [Pointed -> Heads]
    BY DoneHas
  <2>2. ASSUME NEW i \in Pointed, NEW j \in Pointed, f[i] = f[j]
        PROVE  i = j
    <3>1. First(i) = First(j)
      BY <2>2
    <3>2. /\ i \in Int /\ j \in Int /\ First(i) \in Int /\ First(j) \in Int
          /\ i < j => First(i) < First(j)
          /\ j < i => First(j) < First(i)
      BY DoneHas
    <3> QED BY <3>1, <3>2
  <2>3. \A h \in Heads : \E i \in Pointed : f[i] = h
    BY DoneHas
  <2> HIDE DEF f
  <2>4. f \in Injection(Pointed, Heads)
    BY <2>1, <2>2 DEF Injection, IsInjective
  <2>5. f \in Surjection(Pointed, Heads)
    BY <2>1, <2>3 DEF Surjection
  <2> QED BY <2>4, <2>5 DEF Bijection
<1>4. ExistsBijection(Pointed, Heads)
  <2> HIDE DEF f
  <2> QED BY <1>3 DEF ExistsBijection
<1> QED BY <1>2, <1>4, FS_Bijection

LEMMA StartsAreFinite == TypeOK => IsFiniteSet(LineStarts)
<1> SUFFICES ASSUME TypeOK
             PROVE  IsFiniteSet(LineStarts)
  OBVIOUS
<1>1. Len(file) \in Nat /\ DOMAIN file = 1..Len(file)
  BY Types
<1>2. 1 \in Int /\ Len(file) \in Int
  BY <1>1
<1>3. IsFiniteSet(1..Len(file))
  BY <1>2, FS_Interval
<1>4. LineStarts \in SUBSET (1..Len(file))
  BY <1>1 DEF LineStarts
<1> QED BY <1>3, <1>4, FS_Subset

\* The reference begins where the first line that is kept does.
LEMMA FirstOfLastIs ==
  ASSUME TailInv, status = "done"
  PROVE  /\ nfound = 0 => Len(file) = 0 /\ FirstOfLast(nlines) = 1
         /\ nfound > 0 => FirstOfLast(nlines) = First(nlines - nfound + 1)
<1>1. /\ nlines \in Nat /\ nlines > 0 /\ nfound \in 0..nlines /\ Len(file) \in Nat
      /\ DOMAIN file = 1..Len(file) /\ Pointed = (nlines - nfound + 1)..nlines
      /\ Heads = {First(i) : i \in Pointed}
      /\ \A i \in Pointed : First(i) \in 1..Len(file) /\ First(i) \in LineStarts /\ i \in 1..nlines
      /\ \A k \in LineStarts : k \in Heads \/ (nfound = nlines /\ \A head \in Heads : k < head)
  BY DoneHas
<1>2. \A i \in Pointed : \A j \in Pointed : i < j => First(i) < First(j)
  BY DoneHas
<1>3. IsFiniteSet(LineStarts) /\ Cardinality(LineStarts) \in Nat
  <2>1. IsFiniteSet(LineStarts)
    BY StartsAreFinite DEF TailInv
  <2> QED BY <2>1, FS_CardinalityType
<1>4. Len(file) > 0 => 1 \in LineStarts
  BY <1>1 DEF LineStarts
<1>5. IsFiniteSet(Heads) /\ Cardinality(Heads) = nfound
  BY AsManyHeads
<1>6. CASE nfound = 0
  <2>1. Pointed = {}
    BY <1>1, <1>6
  <2>2. LineStarts = {}
    BY <1>1, <1>6, <2>1
  <2>3. Len(file) = 0
    BY <1>1, <1>4, <2>2
  <2>4. Cardinality(LineStarts) <= nlines
    BY <1>1, <2>2, FS_EmptySet
  <2> QED BY <1>1, <1>6, <2>3, <2>4 DEF FirstOfLast
<1>7. CASE nfound > 0
  <2> DEFINE a == nlines - nfound + 1
             c == First(a)
  <2>1. a \in Pointed /\ \A i \in Pointed : i = a \/ a < i
    BY <1>1, <1>7
  <2>2. c \in 1..Len(file) /\ c \in Heads /\ c \in LineStarts /\ \A head \in Heads : head >= c /\ head \in Int
    <3>1. c \in 1..Len(file) /\ c \in Heads /\ c \in LineStarts
      BY <1>1, <2>1
    <3>2. ASSUME NEW head \in Heads
          PROVE  head >= c /\ head \in Int
      <4>1. PICK i \in Pointed : head = First(i)
        BY <1>1
      <4>2. CASE i = a
        BY <1>1, <3>1, <4>1, <4>2
      <4>3. CASE a < i
        <5>1. First(a) < First(i) /\ First(i) \in Int /\ First(a) \in Int
          BY <1>1, <1>2, <2>1, <4>3
        <5> QED BY <4>1, <5>1
      <4> QED BY <2>1, <4>2, <4>3
    <3> QED BY <3>1, <3>2
  <2> HIDE DEF c
  <2>3. Len(file) > 0 /\ 1 \in LineStarts /\ LineStarts \subseteq Int
    BY <1>1, <1>4, <2>2 DEF LineStarts
  <2> DEFINE T == {l \in LineStarts : l >= c}
  <2>4. T = Heads
    <3>1. ASSUME NEW l \in T
          PROVE  l \in Heads
      <4>1. l \in LineStarts /\ l >= c /\ l \in Int
        BY <2>3
      <4>2. ~(l < c)
        BY <2>2, <4>1
      <4> QED BY <1>1, <2>2, <4>1, <4>2
    <3>2. Heads \subseteq LineStarts
      BY <1>1
    <3> QED BY <2>2, <3>1, <3>2
  <2>5. Cardinality(T) = nfound
    BY <1>5, <2>4
  <2>6. T \in SUBSET LineStarts /\ c \in T
    BY <2>2
  <2> HIDE DEF T
  <2>7. CASE Cardinality(LineStarts) <= nlines
    <3>1. FirstOfLast(nlines) = 1
      BY <2>7 DEF FirstOfLast
    <3>2. LineStarts = T
      <4>1. CASE nfound = nlines
        <5>1. Cardinality(T) <= Cardinality(LineStarts)
              /\ (Cardinality(LineStarts) = Cardinality(T) => LineStarts = T)
          BY <1>3, <2>6, FS_Subset
        <5>2. Cardinality(LineStarts) = Cardinality(T)
          BY <1>1, <1>3, <2>5, <2>7, <4>1, <5>1
        <5> QED BY <5>1, <5>2
      <4>2. CASE nfound # nlines
        BY <1>1, <2>4, <2>6, <4>2
      <4> QED BY <4>1, <4>2
    <3>3. 1 >= c
      BY <2>3, <3>2 DEF T
    <3>4. c = 1
      BY <2>2, <3>3
    <3> QED BY <1>7, <3>1, <3>4 DEF c
  <2>8. CASE ~(Cardinality(LineStarts) <= nlines)
    <3> DEFINE Good(k) == k \in LineStarts /\ Cardinality({l \in LineStarts : l >= k}) = nlines
    <3>1. nfound = nlines
      <4> SUFFICES ASSUME nfound # nlines
                   PROVE  FALSE
        OBVIOUS
      <4>1. LineStarts = Heads
        BY <1>1, <2>4, <2>6
      <4> QED BY <1>1, <1>5, <2>8, <4>1
    <3>2. Good(c)
      BY <2>2, <2>5, <3>1 DEF T
    <3>3. FirstOfLast(nlines) = CHOOSE k \in LineStarts : Cardinality({l \in LineStarts : l >= k}) = nlines
      BY <2>8 DEF FirstOfLast
    <3>4. PICK k : k = FirstOfLast(nlines)
      OBVIOUS
    <3>5. Good(k)
      BY <3>2, <3>3, <3>4
    <3> DEFINE U == {l \in LineStarts : l >= k}
    <3>6. k \in LineStarts /\ Cardinality(U) = nlines /\ Cardinality(T) = nlines /\ k \in Int /\ c \in Int
      BY <2>2, <2>3, <2>5, <3>1, <3>5
    <3>7. \A l \in LineStarts : (l \in T <=> l >= c) /\ (l \in U <=> l >= k) /\ l \in Int
      BY <2>3 DEF T
    <3>8. U \in SUBSET LineStarts
      OBVIOUS
    <3> HIDE DEF U, Good
    <3>9. IsFiniteSet(U) /\ IsFiniteSet(T)
      BY <1>3, <2>6, <3>8, FS_Subset
    <3>10. ~(c < k)
      <4> SUFFICES ASSUME c < k
                   PROVE  FALSE
        OBVIOUS
      <4>1. U \in SUBSET T
        <5>1. ASSUME NEW l \in U
              PROVE  l \in T
          <6>1. l \in LineStarts /\ l >= k /\ l \in Int
            BY <3>7, <3>8
          <6>2. l >= c
            BY <3>6, <6>1
          <6> QED BY <3>7, <6>1, <6>2
        <5> QED BY <5>1
      <4>2. T = U
        BY <3>6, <3>9, <4>1, FS_Subset
      <4>3. c >= k
        BY <2>2, <2>6, <3>7, <4>2
      <4> QED BY <3>6, <4>3
    <3>11. ~(k < c)
      <4> SUFFICES ASSUME k < c
                   PROVE  FALSE
        OBVIOUS
      <4>1. T \in SUBSET U
        <5>1. ASSUME NEW l \in T
              PROVE  l \in U
          <6>1. l \in LineStarts /\ l >= c /\ l \in Int
            BY <2>6, <3>7
          <6>2. l >= k
            BY <3>6, <6>1
          <6> QED BY <3>7, <6>1, <6>2
        <5> QED BY <5>1
      <4>2. U = T
        BY <3>6, <3>9, <4>1, FS_Subset
      <4>3. k \in U
        BY <3>6, <3>7
      <4>4. k >= c
        BY <3>6, <3>7, <4>2, <4>3
      <4> QED BY <3>6, <4>4
    <3>12. k = c
      BY <3>6, <3>10, <3>11
    <3> QED BY <1>7, <3>4, <3>12 DEF c
  <2> QED BY <2>7, <2>8
<1> QED BY <1>1, <1>6, <1>7

\* The natural numbers, for a set of them.
LEMMA LessIsWellFounded == IsWellFoundedOn({p \in Nat \X Nat : p[1] < p[2]}, Nat)
BY NatLessThanWellFounded, Zenon DEF OpToRel

LEMMA Induction ==
  ASSUME NEW T \in SUBSET Nat, 0 \in T, \A n \in T : n + 1 \in T
  PROVE  T = Nat
<1>1. SUFFICES ASSUME Nat \ T # {} PROVE FALSE
  OBVIOUS
<1>2. PICK n \in Nat \ T : \A m \in Nat \ T : ~ (<<m, n>> \in {p \in Nat \X Nat : p[1] < p[2]})
  BY <1>1, LessIsWellFounded, WFMin, Zenon
<1>3. \A m \in Nat \ T : ~(m < n)
  BY <1>2
<1>4. n # 0
  OBVIOUS
<1>5. n - 1 \in T
  BY <1>3, <1>4
<1> QED BY <1>5

\* FlattenSeq is what a function comes to that adds one sequence after the other.
LEMMA FlattenIs ==
  ASSUME NEW n \in Nat, n > 0, NEW seqs, Len(seqs) = n,
         NEW g, g = [i \in 1..n |-> IF i = 1 THEN seqs[i] ELSE g[i - 1] \o seqs[i]]
  PROVE  FlattenSeq(seqs) = g[n]
<1> DEFINE Fits(f) == f = [i \in 1..n |-> IF i = 1 THEN seqs[i] ELSE f[i - 1] \o seqs[i]]
           flat == CHOOSE f : Fits(f)
<1>1. Fits(flat)
  <2>1. Fits(g)
    OBVIOUS
  <2> HIDE DEF Fits
  <2> QED BY <2>1, Zenon
<1>2. FlattenSeq(seqs) = flat[n]
  BY DEF FlattenSeq
<1> HIDE DEF flat
<1>3. \A i \in 1..n : /\ flat[i] = IF i = 1 THEN seqs[i] ELSE flat[i - 1] \o seqs[i]
                      /\ g[i] = IF i = 1 THEN seqs[i] ELSE g[i - 1] \o seqs[i]
  BY <1>1
<1> DEFINE T == {m \in Nat : m + 1 <= n => flat[m + 1] = g[m + 1]}
<1>4. 0 \in T
  <2>1. 0 + 1 = 1 /\ 1 \in 1..n
    OBVIOUS
  <2> QED BY <1>3, <2>1
<1>5. ASSUME NEW m \in T
      PROVE  m + 1 \in T
  <2>1. m \in Nat /\ (m + 1 <= n => flat[m + 1] = g[m + 1])
    OBVIOUS
  <2>2. ASSUME (m + 1) + 1 <= n
        PROVE  flat[(m + 1) + 1] = g[(m + 1) + 1]
    <3>1. /\ m + 1 <= n /\ (m + 1) + 1 \in 1..n /\ (m + 1) + 1 # 1 /\ ((m + 1) + 1) - 1 = m + 1
      BY <2>1, <2>2
    <3>2. flat[m + 1] = g[m + 1]
      BY <2>1, <3>1
    <3> DEFINE i == (m + 1) + 1
    <3>3. i \in 1..n /\ i # 1 /\ i - 1 = m + 1
      BY <3>1
    <3> HIDE DEF i
    <3>4. flat[i] = flat[i - 1] \o seqs[i] /\ g[i] = g[i - 1] \o seqs[i]
      BY <1>3, <3>3
    <3>5. flat[i] = g[i]
      BY <3>2, <3>3, <3>4
    <3> QED BY <3>5 DEF i
  <2> QED BY <2>1, <2>2
<1>6. T = Nat
  <2>1. T \in SUBSET Nat
    OBVIOUS
  <2> HIDE DEF T
  <2> QED BY <1>4, <1>5, <2>1, Induction
<1>7. n - 1 \in T /\ (n - 1) + 1 <= n /\ (n - 1) + 1 = n
  <2>1. n - 1 \in Nat /\ (n - 1) + 1 <= n /\ (n - 1) + 1 = n
    OBVIOUS
  <2> HIDE DEF T
  <2> QED BY <1>6, <2>1
<1>8. flat[(n - 1) + 1] = g[(n - 1) + 1]
  BY <1>7
<1> QED BY <1>2, <1>7, <1>8

\* When the whole file has been read, the pointers have its last nlines lines,
\* one each, in order and to the end (fileTailer::findTail).
THEOREM LastLinesHolds == Spec => []LastLines
<1>1. TailInv => LastLines
  <2> SUFFICES ASSUME TailInv, status = "done"
               PROVE  HaveLastLines
    BY DEF LastLines
  <2>1. /\ nlines \in Nat /\ nlines > 0 /\ nfound \in 0..nlines /\ Len(file) \in Nat
        /\ Pointed = (nlines - nfound + 1)..nlines
        /\ \A i \in Pointed :
             /\ i \in 1..nlines /\ First(i) \in 1..Len(file)
             /\ Until(i) - First(i) \in 1..Len(file) /\ Line(i) = Piece(First(i), Until(i) - First(i))
             /\ \A j \in Pointed : i < j => First(i) < First(j)
             /\ i < nlines => i + 1 \in Pointed /\ Until(i) = First(i + 1)
        /\ nfound > 0 => nlines \in Pointed
        /\ Until(nlines) = Len(file) + 1
    BY DoneHas
  <2> DEFINE a == nlines - nfound + 1
             c == FirstOfLast(nlines)
  <2>2. /\ nfound = 0 => Len(file) = 0 /\ c = 1
        /\ nfound > 0 => c = First(a) /\ a \in Pointed
        /\ c \in Nat
    <3>1. nfound > 0 => a \in Pointed
      BY <2>1
    <3>2. nfound = 0 => Len(file) = 0 /\ c = 1
      BY FirstOfLastIs
    <3>3. nfound > 0 => c = First(a)
      BY FirstOfLastIs
    <3>4. c \in Nat
      <4>1. nfound > 0 => First(a) \in Nat
        BY <2>1, <3>1
      <4> HIDE DEF a, c
      <4> QED BY <2>1, <3>2, <3>3, <4>1
    <3> QED BY <3>1, <3>2, <3>3, <3>4
  <2> HIDE DEF c
  \* What the lines up to i come to.
  <2> DEFINE To(i) == IF i \in Pointed THEN Until(i) - c ELSE 0
             g == [i \in 1..nlines |-> Piece(c, To(i))]
             seqs == [i \in 1..nlines |-> Line(i)]
  <2>3. ASSUME NEW i \in Pointed
        PROVE  /\ i \in 1..nlines /\ First(i) - c \in Nat /\ First(i) \in Int /\ Until(i) - First(i) \in Nat
               /\ To(i) = (First(i) - c) + (Until(i) - First(i)) /\ To(i) \in Nat
               /\ i = a \/ (i - 1 \in Pointed /\ Until(i - 1) = First(i))
               /\ i = a => First(i) - c = 0
    <3>1. i \in 1..nlines /\ First(i) \in Int /\ Until(i) - First(i) \in Nat /\ First(i) \in 1..Len(file)
      BY <2>1
    <3>2. nfound > 0 /\ a \in Pointed /\ c = First(a) /\ c \in Int /\ a \in Int
      BY <2>1, <2>2
    <3>3. i = a \/ a < i
      BY <2>1, <3>2
    <3>4. First(i) >= c
      <4>1. a < i => First(a) < First(i)
        BY <2>1, <3>2
      <4> HIDE DEF a
      <4> QED BY <3>1, <3>2, <3>3, <4>1
    <3>5. i = a \/ (i - 1 \in Pointed /\ Until(i - 1) = First(i))
      <4> SUFFICES ASSUME a < i
                   PROVE  i - 1 \in Pointed /\ Until(i - 1) = First(i)
        BY <3>3
      <4>1. i - 1 \in Pointed /\ i - 1 < nlines /\ (i - 1) + 1 = i
        BY <2>1, <3>1
      <4> QED BY <2>1, <4>1
    <3>6. Until(i) \in Int
      <4>1. i < nlines => i + 1 \in Pointed /\ Until(i) = First(i + 1) /\ First(i + 1) \in Int
        BY <2>1
      <4>2. i = nlines => Until(i) \in Int
        BY <2>1
      <4> QED BY <3>1, <4>1, <4>2, <2>1
    <3> HIDE DEF a
    <3>7. To(i) = Until(i) - c
      OBVIOUS
    <3>8. To(i) = (First(i) - c) + (Until(i) - First(i))
      BY <3>1, <3>2, <3>6, <3>7
    <3>9. First(i) - c \in Nat /\ (i = a => First(i) - c = 0)
      BY <3>1, <3>2, <3>4
    <3> HIDE DEF To
    <3> QED BY <3>1, <3>5, <3>8, <3>9
  <2>4. ASSUME NEW i \in 1..nlines
        PROVE  g[i] = IF i = 1 THEN seqs[i] ELSE g[i - 1] \o seqs[i]
    <3>0. g[i] = Piece(c, To(i)) /\ seqs[i] = Line(i)
      OBVIOUS
    <3>1. CASE i \in Pointed
      <4>1. Piece(c, To(i)) = Piece(c, First(i) - c) \o Line(i)
        <5> DEFINE m == First(i) - c
                   n == Until(i) - First(i)
        <5>1. m \in Nat /\ n \in Nat /\ c \in Int /\ To(i) = m + n
          BY <2>2, <2>3, <3>1
        <5>2. c + m = First(i)
          BY <2>2, <2>3, <3>1
        <5>3. Line(i) = Piece(First(i), n)
          BY <2>1, <3>1
        <5> HIDE DEF m, n, To
        <5>4. Piece(c, m) \o Piece(c + m, n) = Piece(c, m + n)
          BY <5>1, PiecesJoin
        <5> QED BY <5>1, <5>2, <5>3, <5>4 DEF m
      <4>2. First(i) - c = 0 => Piece(c, To(i)) = Line(i)
        <5> SUFFICES ASSUME First(i) - c = 0
                     PROVE  Piece(c, To(i)) = Line(i)
          OBVIOUS
        <5>1. To(i) = Until(i) - First(i) /\ c = First(i)
          BY <2>2, <2>3, <3>1
        <5> QED BY <2>1, <3>1, <5>1
      <4>3. CASE i = 1
        <5>1. i = a
          BY <2>1, <3>1, <4>3
        <5> QED BY <2>3, <3>0, <3>1, <4>2, <4>3, <5>1
      <4>4. CASE i # 1
        <5>1. i - 1 \in 1..nlines /\ g[i - 1] = Piece(c, To(i - 1))
          BY <2>1, <4>4
        <5>2. To(i - 1) = First(i) - c
          <6>1. CASE i - 1 \in Pointed
            <7>1. i # a /\ Until(i - 1) = First(i)
              BY <2>1, <2>3, <3>1, <6>1
            <7> QED BY <6>1, <7>1
          <6>2. CASE i - 1 \notin Pointed
            BY <2>3, <3>1, <6>2
          <6> QED BY <6>1, <6>2
        <5> QED BY <3>0, <4>1, <4>4, <5>1, <5>2
      <4> QED BY <4>3, <4>4
    <3>2. CASE i \notin Pointed
      <4>1. Line(i) = <<>>
        BY <3>2, NoLine
      <4>2. Piece(c, 0) = <<>>
        BY DEF Piece
      <4>3. CASE i = 1
        BY <3>0, <3>2, <4>1, <4>2, <4>3
      <4>4. CASE i # 1
        <5>1. i - 1 \in 1..nlines /\ i - 1 \notin Pointed
          BY <2>1, <3>2, <4>4
        <5>2. g[i - 1] = <<>> /\ g[i] = <<>>
          BY <3>0, <3>2, <4>2, <5>1
        <5>3. <<>> \o <<>> = <<>>
          BY ConcatEmptySeq, EmptySeq
        <5>4. seqs[i] = <<>>
          BY <3>0, <4>1
        <5> HIDE DEF g, seqs
        <5> QED BY <4>4, <5>2, <5>3, <5>4
      <4> QED BY <4>3, <4>4
    <3> QED BY <3>1, <3>2
  <2>5. g = [i \in 1..nlines |-> IF i = 1 THEN seqs[i] ELSE g[i - 1] \o seqs[i]]
    <3>1. g = [i \in 1..nlines |-> g[i]]
      OBVIOUS
    <3> HIDE DEF g, seqs
    <3> QED BY <2>4, <3>1
  <2>6. Len(seqs) = nlines
    BY <2>1
  <2>7. g[nlines] = Piece(c, Len(file) + 1 - c)
    <3>1. g[nlines] = Piece(c, To(nlines))
      BY <2>1
    <3>2. To(nlines) = Len(file) + 1 - c
      BY <2>1, <2>2
    <3> QED BY <3>1, <3>2
  <2>8. FlattenSeq(seqs) = g[nlines]
    <3> HIDE DEF g, seqs
    <3>1. nlines \in Nat /\ nlines > 0
      BY <2>1
    <3> QED BY <2>5, <2>6, <3>1, FlattenIs, ZenonT(60)
  <2>9. Len(file) + 1 - c = Len(file) - c + 1
    BY <2>1, <2>2
  <2> HIDE DEF g
  <2> QED BY <2>7, <2>8, <2>9 DEF HaveLastLines, Piece, c
<1> QED BY <1>1, TailInvariant, PTL

=============================================================================
