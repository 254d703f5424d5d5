--------------------------- MODULE RunControlProofs ---------------------------
(***************************************************************************)
(* Theorems about RunControl, for any sets of builders, servers, processes *)
(* with a right configuration, commands and mishaps.                       *)
(*                                                                         *)
(* StageInv says of the calls of a handler still to be made that they are  *)
(* the handler's own, in its order, with nobody left out.  ResourceInv     *)
(* relates what an application holds to its state.  PlaceInv is StatesAgree *)
(* in the middle of a handler: an application still to be called is where  *)
(* the run control believes it to be, any other one where it will be.  It  *)
(* takes a run control whose own configuration is complete: without one,   *)
(* CREATE discovers nobody and moves on.                                   *)
(***************************************************************************)
EXTENDS RunControl, TLAPS

\* The transition handler h of the run control sends to a, and the place of a
\* in its order; 0 when h does not call a.
CommandFor(h, a) == IF h = "INITIALISE" /\ a \in Builders THEN "CONFIGURE" ELSE h

Rank(h, a) ==
  CASE h = "CREATE" -> 1
    [] h = "INITIALISE" -> IF a \in Builders THEN 1 ELSE IF a \in Servers THEN 2 ELSE 0
    [] h = "CONFIGURE" -> IF a = Trigger THEN 1 ELSE IF a \in Servers THEN 2 ELSE 0
    [] h = "START" -> IF a \in Builders THEN 1 ELSE IF a \in Servers THEN 2 ELSE 3
    [] OTHER -> IF a = Trigger THEN 1 ELSE IF a \in Servers THEN 2 ELSE 3

InOrder(q, h) ==
  /\ \A i \in DOMAIN q :
       /\ q[i].to # {}
       /\ \A a \in q[i].to : q[i].command = CommandFor(h, a) /\ Rank(h, a) > 0
  /\ \A i, j \in DOMAIN q : \A a \in q[i].to, b \in q[j].to :
       /\ i < j => Rank(h, a) < Rank(h, b)
       /\ i = j => Rank(h, a) = Rank(h, b)

Called(q) == UNION {q[i].to : i \in DOMAIN q}

Todo == Called(stages)

StageInv ==
  /\ handler = "none" => stages = <<>>
  /\ handler # "none" => Accepts(RunControlTable, state[RunCtrl], handler)
  /\ handler = "HALT" => halted
  /\ InOrder(stages, handler)
  /\ \A a \in Todo, b \in Apps :
       client[b] # "none" /\ Rank(handler, a) < Rank(handler, b) => b \in Todo

Ready == {"CONFIGURED", "RUNNING"}

ResourceInv ==
  /\ senders = {s \in Servers \cap Complete : state[s] \in Ready}
  /\ \A b \in Builders \cap Complete : state[b] \in Ready => b \in bound
  /\ senders \subseteq registered /\ registered \subseteq Complete
  /\ ~halted =>
       /\ \A b \in bound : state[b] \in Ready
       /\ Trigger \in Complete => publisher = IF state[Trigger] \in Ready THEN "live" ELSE "null"

\* Where application a is when the run control is in state r.
Believed(r, a) ==
  CASE r = "INITIALISED" /\ a \in Builders -> "CONFIGURED"
    [] r = "INITIALISED" /\ a = Trigger    -> "CREATED"
    [] OTHER -> r

Place(a) ==
  IF handler = "none" \/ a \in Todo
    THEN Believed(state[RunCtrl], a)
    ELSE Believed(Target(RunControlTable, state[RunCtrl], handler), a)

InPlace(a) ==
  /\ IF a \in crashed \/ a \notin Complete
       THEN state[a] \in Behind(a) \cup {Place(a)}
       ELSE state[a] = Place(a) /\ client[a] # "dead"
  /\ client[a] = "dead" => state[a] \in {"DOWN", "VOID"}
  /\ client[a] = "none" <=> state[RunCtrl] = "VOID" /\ (handler = "none" \/ a \in Todo)

PlaceInv ==
  RunCtrl \notin crashed /\ Undisturbed =>
    state[RunCtrl] # "DOWN" /\ \A a \in Apps : InPlace(a)

-----------------------------------------------------------------------------
(***************************************************************************)
(* The transition tables.                                                  *)
(***************************************************************************)

\* Target chooses a transition of the table.
LEMMA TargetIn ==
  ASSUME NEW table, NEW s, NEW c, Accepts(table, s, c)
  PROVE  \E t \in table : t.command = c /\ t.from = s /\ t.to = Target(table, s, c)
BY DEF Accepts, Target

LEMMA SimpleSteps ==
  ASSUME NEW s, NEW c, Accepts(SimpleTable, s, c)
  PROVE  LET t == Target(SimpleTable, s, c) IN
         \/ c = "CREATE" /\ s = "VOID" /\ t = "CREATED"
         \/ c = "CONFIGURE" /\ s \in {"CREATED", "CONFIGURED"} /\ t = "CONFIGURED"
         \/ c = "START" /\ s = "CONFIGURED" /\ t = "RUNNING"
         \/ c = "STOP" /\ s = "RUNNING" /\ t = "CONFIGURED"
         \/ c = "HALT" /\ s \in {"RUNNING", "CONFIGURED"} /\ t = "CREATED"
<1> DEFINE t == Target(SimpleTable, s, c)
<1>1. PICK x \in SimpleTable : x.command = c /\ x.from = s /\ x.to = t
  BY TargetIn
<1> HIDE DEF t
<1>2. \/ x = Transition("CREATE", "VOID", "CREATED")
      \/ x = Transition("CONFIGURE", "CREATED", "CONFIGURED")
      \/ x = Transition("CONFIGURE", "CONFIGURED", "CONFIGURED")
      \/ x = Transition("START", "CONFIGURED", "RUNNING")
      \/ x = Transition("STOP", "RUNNING", "CONFIGURED")
      \/ x = Transition("HALT", "RUNNING", "CREATED")
      \/ x = Transition("HALT", "CONFIGURED", "CREATED")
  BY DEF SimpleTable, BaseTable
<1>3. \/ c = "CREATE" /\ s = "VOID" /\ t = "CREATED"
      \/ c = "CONFIGURE" /\ s \in {"CREATED", "CONFIGURED"} /\ t = "CONFIGURED"
      \/ c = "START" /\ s = "CONFIGURED" /\ t = "RUNNING"
      \/ c = "STOP" /\ s = "RUNNING" /\ t = "CONFIGURED"
      \/ c = "HALT" /\ s \in {"RUNNING", "CONFIGURED"} /\ t = "CREATED"
  BY <1>1, <1>2 DEF Transition
<1> QED BY <1>3 DEF t

LEMMA ServerSteps ==
  ASSUME NEW s, NEW c, Accepts(ServerTable, s, c)
  PROVE  LET t == Target(ServerTable, s, c) IN
         \/ c = "CREATE" /\ s = "VOID" /\ t = "CREATED"
         \/ c = "INITIALISE" /\ s = "CREATED" /\ t = "INITIALISED"
         \/ c = "CONFIGURE" /\ s \in {"INITIALISED", "CONFIGURED"} /\ t = "CONFIGURED"
         \/ c = "START" /\ s = "CONFIGURED" /\ t = "RUNNING"
         \/ c = "STOP" /\ s = "RUNNING" /\ t = "CONFIGURED"
         \/ c = "HALT" /\ s \in {"RUNNING", "CONFIGURED"} /\ t = "INITIALISED"
<1> DEFINE t == Target(ServerTable, s, c)
<1>1. PICK x \in ServerTable : x.command = c /\ x.from = s /\ x.to = t
  BY TargetIn
<1> HIDE DEF t
<1>2. \/ x = Transition("CREATE", "VOID", "CREATED")
      \/ x = Transition("INITIALISE", "CREATED", "INITIALISED")
      \/ x = Transition("CONFIGURE", "INITIALISED", "CONFIGURED")
      \/ x = Transition("CONFIGURE", "CONFIGURED", "CONFIGURED")
      \/ x = Transition("START", "CONFIGURED", "RUNNING")
      \/ x = Transition("STOP", "RUNNING", "CONFIGURED")
      \/ x = Transition("HALT", "RUNNING", "INITIALISED")
      \/ x = Transition("HALT", "CONFIGURED", "INITIALISED")
  BY DEF ServerTable, BaseTable
<1>3. \/ c = "CREATE" /\ s = "VOID" /\ t = "CREATED"
      \/ c = "INITIALISE" /\ s = "CREATED" /\ t = "INITIALISED"
      \/ c = "CONFIGURE" /\ s \in {"INITIALISED", "CONFIGURED"} /\ t = "CONFIGURED"
      \/ c = "START" /\ s = "CONFIGURED" /\ t = "RUNNING"
      \/ c = "STOP" /\ s = "RUNNING" /\ t = "CONFIGURED"
      \/ c = "HALT" /\ s \in {"RUNNING", "CONFIGURED"} /\ t = "INITIALISED"
  BY <1>1, <1>2 DEF Transition
<1> QED BY <1>3 DEF t

LEMMA RunControlSteps ==
  ASSUME NEW s, NEW c, Accepts(RunControlTable, s, c)
  PROVE  LET t == Target(RunControlTable, s, c) IN
         \/ c = "CREATE" /\ s = "VOID" /\ t = "CREATED"
         \/ c = "INITIALISE" /\ s = "CREATED" /\ t = "INITIALISED"
         \/ c = "CONFIGURE" /\ s \in {"INITIALISED", "CONFIGURED"} /\ t = "CONFIGURED"
         \/ c = "START" /\ s = "CONFIGURED" /\ t = "RUNNING"
         \/ c = "STOP" /\ s = "RUNNING" /\ t = "CONFIGURED"
         \/ c = "HALT" /\ s \in {"CONFIGURED", "INITIALISED"} /\ t = "CREATED"
<1> DEFINE t == Target(RunControlTable, s, c)
<1>1. PICK x \in RunControlTable : x.command = c /\ x.from = s /\ x.to = t
  BY TargetIn
<1> HIDE DEF t
<1>2. \/ x = Transition("CREATE", "VOID", "CREATED")
      \/ x = Transition("INITIALISE", "CREATED", "INITIALISED")
      \/ x = Transition("CONFIGURE", "INITIALISED", "CONFIGURED")
      \/ x = Transition("CONFIGURE", "CONFIGURED", "CONFIGURED")
      \/ x = Transition("START", "CONFIGURED", "RUNNING")
      \/ x = Transition("STOP", "RUNNING", "CONFIGURED")
      \/ x = Transition("HALT", "CONFIGURED", "CREATED")
      \/ x = Transition("HALT", "INITIALISED", "CREATED")
  BY DEF RunControlTable, BaseTable
<1>3. \/ c = "CREATE" /\ s = "VOID" /\ t = "CREATED"
      \/ c = "INITIALISE" /\ s = "CREATED" /\ t = "INITIALISED"
      \/ c = "CONFIGURE" /\ s \in {"INITIALISED", "CONFIGURED"} /\ t = "CONFIGURED"
      \/ c = "START" /\ s = "CONFIGURED" /\ t = "RUNNING"
      \/ c = "STOP" /\ s = "RUNNING" /\ t = "CONFIGURED"
      \/ c = "HALT" /\ s \in {"CONFIGURED", "INITIALISED"} /\ t = "CREATED"
  BY <1>1, <1>2 DEF Transition
<1> QED BY <1>3 DEF t

LEMMA TableOf ==
  ASSUME NEW a \in Apps
  PROVE  /\ Table(a) = IF a \in Servers THEN ServerTable ELSE SimpleTable
         /\ a # RunCtrl /\ a \in Processes
         /\ a \in Builders \/ a \in Servers \/ a = Trigger
         /\ a \in Builders => a \notin Servers /\ a # Trigger
         /\ a \in Servers => a # Trigger
BY RunControlAssumption DEF Table, Apps, Processes

\* What a transition does to an application.
LEMMA AppSteps ==
  ASSUME NEW a \in Apps, NEW s, NEW c, Accepts(Table(a), s, c)
  PROVE  LET t == Target(Table(a), s, c) IN
         /\ s # "DOWN" /\ t # "DOWN" /\ t \in States
         /\ s = "VOID" <=> c = "CREATE"
         /\ t \in {"CONFIGURED", "RUNNING"} =>
              \/ c = "CONFIGURE" /\ t = "CONFIGURED" /\ s # "RUNNING"
              \/ c = "START" /\ s = "CONFIGURED" /\ t = "RUNNING"
              \/ c = "STOP" /\ s = "RUNNING" /\ t = "CONFIGURED"
         /\ s \in {"CONFIGURED", "RUNNING"} =>
              t \in {"CONFIGURED", "RUNNING"} \/ c = "HALT"
         /\ c = "HALT" => t \notin {"CONFIGURED", "RUNNING"}
         /\ c = "INITIALISE" => a \in Servers /\ t = "INITIALISED"
<1>1. CASE a \in Servers
  BY <1>1, TableOf, ServerSteps DEF States
<1>2. CASE a \notin Servers
  BY <1>2, TableOf, SimpleSteps DEF States
<1> QED BY <1>1, <1>2

\* An application that is where the run control believes it to be accepts the
\* transition it is sent, and follows the run control to its next state.
LEMMA Follows ==
  ASSUME NEW r, NEW h, NEW a \in Apps, Accepts(RunControlTable, r, h), h # "HALT"
  PROVE  LET t == Target(RunControlTable, r, h) IN
         /\ Rank(h, a) > 0 =>
              /\ Accepts(Table(a), Believed(r, a), CommandFor(h, a))
              /\ Target(Table(a), Believed(r, a), CommandFor(h, a)) = Believed(t, a)
         /\ Rank(h, a) = 0 => Believed(t, a) = Believed(r, a)
         /\ Believed(r, a) # "DOWN" /\ Believed(t, a) # "DOWN"
<1> DEFINE t == Target(RunControlTable, r, h)
<1>1. \/ h = "CREATE" /\ r = "VOID" /\ t = "CREATED"
      \/ h = "INITIALISE" /\ r = "CREATED" /\ t = "INITIALISED"
      \/ h = "CONFIGURE" /\ r \in {"INITIALISED", "CONFIGURED"} /\ t = "CONFIGURED"
      \/ h = "START" /\ r = "CONFIGURED" /\ t = "RUNNING"
      \/ h = "STOP" /\ r = "RUNNING" /\ t = "CONFIGURED"
  BY RunControlSteps
<1> HIDE DEF t
<1>2. Believed(r, a) # "DOWN" /\ Believed(t, a) # "DOWN"
  BY <1>1 DEF Believed
<1>3. Rank(h, a) = 0 => Believed(t, a) = Believed(r, a)
  BY <1>1, TableOf DEF Believed, Rank
<1>4. ASSUME Rank(h, a) > 0
      PROVE  /\ Accepts(Table(a), Believed(r, a), CommandFor(h, a))
             /\ Target(Table(a), Believed(r, a), CommandFor(h, a)) = Believed(t, a)
  <2> DEFINE s == Believed(r, a)  c == CommandFor(h, a)
  <2>1. CASE a \in Servers
    <3>1. Accepts(ServerTable, s, c) /\ s = r /\ Believed(t, a) = t /\ c = h
      BY <1>1, <2>1, TableOf
      DEF Accepts, ServerTable, BaseTable, Transition, Believed, CommandFor
    <3> HIDE DEF s, c
    <3>2. Target(ServerTable, s, c) = t
      BY <1>1, <3>1, ServerSteps
    <3> QED BY <2>1, <3>1, <3>2, TableOf DEF s, c
  <2>2. CASE a \in Builders
    <3>1. Accepts(SimpleTable, s, c) /\ h # "CONFIGURE" /\ c # "INITIALISE"
      BY <1>1, <1>4, <2>2, TableOf
      DEF Accepts, SimpleTable, BaseTable, Transition, Believed, CommandFor, Rank
    <3>2. /\ h = "INITIALISE" => c = "CONFIGURE" /\ Believed(t, a) = "CONFIGURED"
          /\ h # "INITIALISE" => c = h /\ Believed(t, a) = t
      <4>1. h = "INITIALISE" => t = "INITIALISED"
        BY <1>1
      <4>2. h # "INITIALISE" => t # "INITIALISED"
        BY <1>1, <3>1
      <4>3. h = "INITIALISE" => c = "CONFIGURE" /\ Believed(t, a) = "CONFIGURED"
        BY <2>2, <4>1, TableOf DEF Believed, CommandFor
      <4>4. h # "INITIALISE" => c = h /\ Believed(t, a) = t
        BY <4>2 DEF Believed, CommandFor
      <4> QED BY <4>3, <4>4
    <3> HIDE DEF s, c
    <3>3. Target(SimpleTable, s, c) = Believed(t, a)
      BY <1>1, <3>1, <3>2, SimpleSteps
    <3> QED BY <2>2, <3>1, <3>3, TableOf DEF s, c
  <2>3. CASE a = Trigger
    <3>1. Accepts(SimpleTable, s, c) /\ h # "INITIALISE"
      BY <1>1, <1>4, <2>3, TableOf
      DEF Accepts, SimpleTable, BaseTable, Transition, Believed, CommandFor, Rank
    <3>2. c = h /\ Believed(t, a) = t
      BY <1>1, <2>3, <3>1 DEF Believed, CommandFor
    <3> HIDE DEF s, c
    <3>3. Target(SimpleTable, s, c) = t
      BY <1>1, <3>1, <3>2, SimpleSteps
    <3> QED BY <2>3, <3>1, <3>2, <3>3, TableOf DEF s, c
  <2> QED BY <2>1, <2>2, <2>3, TableOf
<1> QED BY <1>2, <1>3, <1>4 DEF t

-----------------------------------------------------------------------------
(***************************************************************************)
(* The stages of a handler.                                                *)
(***************************************************************************)
StageSet == [command : Handlers, to : SUBSET Apps]

Discovered(A) == {a \in A : client[a] # "none"}

\* Handler h sends command c to those in A, all at one place of its order; it
\* makes the calls of p before those of q.
OneRank(h, c, A) ==
  /\ \A a \in A : CommandFor(h, a) = c /\ Rank(h, a) > 0
  /\ \A a, b \in A : Rank(h, a) = Rank(h, b)

Before(p, q, h) == \A a \in Called(p), b \in Called(q) : Rank(h, a) < Rank(h, b)

LEMMA RankType == ASSUME NEW h, NEW a PROVE Rank(h, a) \in 0..3
BY DEF Rank

LEMMA StageFields ==
  ASSUME NEW q \in Seq(StageSet), NEW i \in DOMAIN q
  PROVE  q[i] \in StageSet /\ q[i].command \in Handlers /\ q[i].to \subseteq Apps
<1>1. q[i] \in StageSet
  OBVIOUS
<1> QED BY <1>1 DEF StageSet

\* Two sequences of stages one after the other.
LEMMA InOrderConcat ==
  ASSUME NEW h, NEW p \in Seq(StageSet), NEW q \in Seq(StageSet), InOrder(p, h), InOrder(q, h),
         Before(p, q, h)
  PROVE  /\ p \o q \in Seq(StageSet)
         /\ InOrder(p \o q, h)
         /\ Called(p \o q) = Called(p) \cup Called(q)
<1> DEFINE r == p \o q
<1>1. /\ r \in Seq(StageSet) /\ Len(p) \in Nat /\ Len(q) \in Nat /\ Len(r) = Len(p) + Len(q)
      /\ DOMAIN p = 1..Len(p) /\ DOMAIN q = 1..Len(q) /\ DOMAIN r = 1..(Len(p) + Len(q))
      /\ \A i \in DOMAIN p : r[i] = p[i]
      /\ \A i \in DOMAIN q : r[Len(p) + i] = q[i]
  OBVIOUS
<1> HIDE DEF r
<1>2. ASSUME NEW i \in DOMAIN r
      PROVE  \/ i \in DOMAIN p /\ r[i] = p[i]
             \/ i > Len(p) /\ i - Len(p) \in DOMAIN q /\ r[i] = q[i - Len(p)]
  <2>1. CASE i <= Len(p)
    BY <1>1, <2>1
  <2>2. CASE i > Len(p)
    <3>1. i - Len(p) \in DOMAIN q /\ Len(p) + (i - Len(p)) = i
      BY <1>1, <2>2
    <3> QED BY <1>1, <2>2, <3>1
  <2> QED BY <1>1, <2>1, <2>2
<1>3. Called(r) = Called(p) \cup Called(q)
  <2>1. ASSUME NEW a, a \in Called(r) PROVE a \in Called(p) \cup Called(q)
    BY <1>2, <2>1 DEF Called
  <2>2. ASSUME NEW a, a \in Called(p) PROVE a \in Called(r)
    <3>1. PICK i \in DOMAIN p : a \in p[i].to
      BY <2>2 DEF Called
    <3>2. i \in DOMAIN r /\ r[i] = p[i]
      BY <1>1
    <3> QED BY <3>1, <3>2 DEF Called
  <2>3. ASSUME NEW a, a \in Called(q) PROVE a \in Called(r)
    <3>1. PICK i \in DOMAIN q : a \in q[i].to
      BY <2>3 DEF Called
    <3>2. Len(p) + i \in DOMAIN r /\ r[Len(p) + i] = q[i]
      BY <1>1
    <3> QED BY <3>1, <3>2 DEF Called
  <2> QED BY <2>1, <2>2, <2>3
<1>4. ASSUME NEW i \in DOMAIN r
      PROVE  r[i].to # {} /\ \A a \in r[i].to : r[i].command = CommandFor(h, a) /\ Rank(h, a) > 0
  BY <1>2 DEF InOrder
<1>5. ASSUME NEW i \in DOMAIN r, NEW j \in DOMAIN r, NEW a \in r[i].to, NEW b \in r[j].to
      PROVE  (i < j => Rank(h, a) < Rank(h, b)) /\ (i = j => Rank(h, a) = Rank(h, b))
  <2>0. i \in Nat /\ j \in Nat
    BY <1>1
  <2>1. CASE i \in DOMAIN p /\ r[i] = p[i] /\ j \in DOMAIN p /\ r[j] = p[j]
    BY <1>5, <2>1 DEF InOrder
  <2>2. CASE i \in DOMAIN p /\ r[i] = p[i] /\ j > Len(p) /\ j - Len(p) \in DOMAIN q /\ r[j] = q[j - Len(p)]
    <3>1. a \in Called(p) /\ b \in Called(q)
      BY <1>5, <2>2 DEF Called
    <3>2. i # j
      BY <1>1, <2>2
    <3> QED BY <3>1, <3>2 DEF Before
  <2>3. CASE i > Len(p) /\ j \in DOMAIN p
    BY <1>1, <2>0, <2>3
  <2>4. CASE /\ i > Len(p) /\ i - Len(p) \in DOMAIN q /\ r[i] = q[i - Len(p)]
             /\ j > Len(p) /\ j - Len(p) \in DOMAIN q /\ r[j] = q[j - Len(p)]
    <3>1. (i < j => i - Len(p) < j - Len(p)) /\ (i = j => i - Len(p) = j - Len(p))
      BY <1>1, <2>0
    <3> QED BY <1>5, <2>4, <3>1 DEF InOrder
  <2> QED BY <1>2, <2>1, <2>2, <2>3, <2>4
<1>6. InOrder(r, h)
  BY <1>4, <1>5 DEF InOrder
<1> QED BY <1>1, <1>3, <1>6 DEF r

LEMMA LoopInOrder ==
  ASSUME NEW h, NEW c \in Handlers, NEW A \in SUBSET Apps, OneRank(h, c, A)
  PROVE  /\ ToKnown(c, A) \in Seq(StageSet)
         /\ InOrder(ToKnown(c, A), h)
         /\ Called(ToKnown(c, A)) = Discovered(A)
<1> DEFINE known == Discovered(A)  q == <<Stage(c, known)>>
<1>1. CASE known = {}
  BY <1>1 DEF ToKnown, InOrder, Called, Discovered
<1>2. CASE known # {}
  <2>1. /\ q \in Seq(StageSet) /\ DOMAIN q = {1}
        /\ q[1].command = c /\ q[1].to = known
    BY DEF Stage, StageSet, Discovered
  <2>2. ToKnown(c, A) = q
    BY <1>2 DEF ToKnown, Discovered
  <2> HIDE DEF q
  <2>3. Called(q) = known
    BY <2>1 DEF Called
  <2>4. InOrder(q, h)
    BY <1>2, <2>1 DEF InOrder, Discovered, OneRank
  <2> QED BY <2>1, <2>2, <2>3, <2>4
<1> QED BY <1>1, <1>2

\* A handler calls the discovered applications it has a transition for, in the
\* order of their ranks.
LEMMA ProgramInOrder ==
  ASSUME NEW h \in Handlers \ {"CREATE"}
  PROVE  /\ Program(h) \in Seq(StageSet)
         /\ InOrder(Program(h), h)
         /\ Called(Program(h)) = {a \in Discovered(Apps) : Rank(h, a) > 0}
<1> USE RunControlAssumption
<1>0. Builders \in SUBSET Apps /\ Servers \in SUBSET Apps /\ {Trigger} \in SUBSET Apps
  BY DEF Apps
<1>01. "INITIALISE" \in Handlers /\ "CONFIGURE" \in Handlers /\ "START" \in Handlers
  BY DEF Handlers
<1>1. CASE h = "INITIALISE"
  <2> DEFINE p == ToKnown("CONFIGURE", Builders)  q == ToKnown("INITIALISE", Servers)
  <2>1. /\ \A a \in Builders : CommandFor(h, a) = "CONFIGURE" /\ Rank(h, a) = 1
        /\ \A a \in Servers : CommandFor(h, a) = "INITIALISE" /\ Rank(h, a) = 2
        /\ Rank(h, Trigger) = 0
    BY <1>1 DEF CommandFor, Rank
  <2>2. p \in Seq(StageSet) /\ InOrder(p, h) /\ Called(p) = Discovered(Builders)
    <3>1. OneRank(h, "CONFIGURE", Builders)
      BY <2>1 DEF OneRank
    <3> QED BY <1>0, <1>01, <3>1, LoopInOrder
  <2>3. q \in Seq(StageSet) /\ InOrder(q, h) /\ Called(q) = Discovered(Servers)
    <3>1. OneRank(h, "INITIALISE", Servers)
      BY <2>1 DEF OneRank
    <3> QED BY <1>0, <1>01, <3>1, LoopInOrder
  <2>4. Program(h) = p \o q
    BY <1>1 DEF Program
  <2> HIDE DEF p, q
  <2>5. Before(p, q, h)
    BY <2>1, <2>2, <2>3 DEF Discovered, Before
  <2>6. /\ p \o q \in Seq(StageSet) /\ InOrder(p \o q, h)
        /\ Called(p \o q) = Called(p) \cup Called(q)
    BY <2>2, <2>3, <2>5, InOrderConcat
  <2> QED BY <2>1, <2>2, <2>3, <2>4, <2>6 DEF Apps, Discovered
<1>2. CASE h = "CONFIGURE"
  <2> DEFINE p == ToKnown("CONFIGURE", {Trigger})  q == ToKnown("CONFIGURE", Servers)
  <2>1. /\ \A a \in {Trigger} : CommandFor(h, a) = "CONFIGURE" /\ Rank(h, a) = 1
        /\ \A a \in Servers : CommandFor(h, a) = "CONFIGURE" /\ Rank(h, a) = 2
        /\ \A a \in Builders : Rank(h, a) = 0
    BY <1>2 DEF CommandFor, Rank
  <2>2. p \in Seq(StageSet) /\ InOrder(p, h) /\ Called(p) = Discovered({Trigger})
    <3>1. OneRank(h, "CONFIGURE", {Trigger})
      BY <2>1 DEF OneRank
    <3> QED BY <1>0, <1>01, <3>1, LoopInOrder
  <2>3. q \in Seq(StageSet) /\ InOrder(q, h) /\ Called(q) = Discovered(Servers)
    <3>1. OneRank(h, "CONFIGURE", Servers)
      BY <2>1 DEF OneRank
    <3> QED BY <1>0, <1>01, <3>1, LoopInOrder
  <2>4. Program(h) = p \o q
    BY <1>2 DEF Program
  <2> HIDE DEF p, q
  <2>5. Before(p, q, h)
    BY <2>1, <2>2, <2>3 DEF Discovered, Before
  <2>6. /\ p \o q \in Seq(StageSet) /\ InOrder(p \o q, h)
        /\ Called(p \o q) = Called(p) \cup Called(q)
    BY <2>2, <2>3, <2>5, InOrderConcat
  <2> QED BY <2>1, <2>2, <2>3, <2>4, <2>6 DEF Apps, Discovered
<1>3. CASE h = "START"
  <2> DEFINE p == ToKnown("START", Builders)  q == ToKnown("START", Servers)
             r == ToKnown("START", {Trigger})
  <2>1. /\ \A a \in Builders : CommandFor(h, a) = "START" /\ Rank(h, a) = 1
        /\ \A a \in Servers : CommandFor(h, a) = "START" /\ Rank(h, a) = 2
        /\ \A a \in {Trigger} : CommandFor(h, a) = "START" /\ Rank(h, a) = 3
    BY <1>3 DEF CommandFor, Rank
  <2>2. p \in Seq(StageSet) /\ InOrder(p, h) /\ Called(p) = Discovered(Builders)
    <3>1. OneRank(h, "START", Builders)
      BY <2>1 DEF OneRank
    <3> QED BY <1>0, <1>01, <3>1, LoopInOrder
  <2>3. q \in Seq(StageSet) /\ InOrder(q, h) /\ Called(q) = Discovered(Servers)
    <3>1. OneRank(h, "START", Servers)
      BY <2>1 DEF OneRank
    <3> QED BY <1>0, <1>01, <3>1, LoopInOrder
  <2>4. r \in Seq(StageSet) /\ InOrder(r, h) /\ Called(r) = Discovered({Trigger})
    <3>1. OneRank(h, "START", {Trigger})
      BY <2>1 DEF OneRank
    <3> QED BY <1>0, <1>01, <3>1, LoopInOrder
  <2>5. Program(h) = p \o q \o r
    BY <1>3 DEF Program
  <2> HIDE DEF p, q, r
  <2>6. Before(p, q, h)
    BY <2>1, <2>2, <2>3 DEF Discovered, Before
  <2>7. /\ p \o q \in Seq(StageSet) /\ InOrder(p \o q, h)
        /\ Called(p \o q) = Called(p) \cup Called(q)
    BY <2>2, <2>3, <2>6, InOrderConcat
  <2> DEFINE pq == p \o q
  <2>8. Before(pq, r, h)
    BY <2>1, <2>2, <2>3, <2>4, <2>7 DEF Discovered, Before
  <2>10. pq \in Seq(StageSet) /\ InOrder(pq, h)
    BY <2>7
  <2> HIDE DEF pq
  <2>9. /\ pq \o r \in Seq(StageSet) /\ InOrder(pq \o r, h)
        /\ Called(pq \o r) = Called(pq) \cup Called(r)
    BY <2>4, <2>8, <2>10, InOrderConcat
  <2> QED BY <2>1, <2>2, <2>3, <2>4, <2>5, <2>7, <2>9 DEF Apps, pq, Discovered
<1>4. CASE h \in {"STOP", "HALT"}
  <2> DEFINE p == ToKnown(h, {Trigger})  q == ToKnown(h, Servers)  r == ToKnown(h, Builders)
  <2>0. h \in Handlers
    OBVIOUS
  <2>1. /\ \A a \in {Trigger} : CommandFor(h, a) = h /\ Rank(h, a) = 1
        /\ \A a \in Servers : CommandFor(h, a) = h /\ Rank(h, a) = 2
        /\ \A a \in Builders : CommandFor(h, a) = h /\ Rank(h, a) = 3
    BY <1>4 DEF CommandFor, Rank
  <2>2. p \in Seq(StageSet) /\ InOrder(p, h) /\ Called(p) = Discovered({Trigger})
    <3>1. OneRank(h, h, {Trigger})
      BY <2>1 DEF OneRank
    <3> QED BY <1>0, <2>0, <3>1, LoopInOrder
  <2>3. q \in Seq(StageSet) /\ InOrder(q, h) /\ Called(q) = Discovered(Servers)
    <3>1. OneRank(h, h, Servers)
      BY <2>1 DEF OneRank
    <3> QED BY <1>0, <2>0, <3>1, LoopInOrder
  <2>4. r \in Seq(StageSet) /\ InOrder(r, h) /\ Called(r) = Discovered(Builders)
    <3>1. OneRank(h, h, Builders)
      BY <2>1 DEF OneRank
    <3> QED BY <1>0, <2>0, <3>1, LoopInOrder
  <2>5. Program(h) = p \o q \o r
    BY <1>4 DEF Program
  <2> HIDE DEF p, q, r
  <2>6. Before(p, q, h)
    BY <2>1, <2>2, <2>3 DEF Discovered, Before
  <2>7. /\ p \o q \in Seq(StageSet) /\ InOrder(p \o q, h)
        /\ Called(p \o q) = Called(p) \cup Called(q)
    BY <2>2, <2>3, <2>6, InOrderConcat
  <2> DEFINE pq == p \o q
  <2>8. Before(pq, r, h)
    BY <2>1, <2>2, <2>3, <2>4, <2>7 DEF Discovered, Before
  <2>10. pq \in Seq(StageSet) /\ InOrder(pq, h)
    BY <2>7
  <2> HIDE DEF pq
  <2>9. /\ pq \o r \in Seq(StageSet) /\ InOrder(pq \o r, h)
        /\ Called(pq \o r) = Called(pq) \cup Called(r)
    BY <2>4, <2>8, <2>10, InOrderConcat
  <2> QED BY <2>1, <2>2, <2>3, <2>4, <2>5, <2>7, <2>9 DEF Apps, pq, Discovered
<1> QED BY <1>1, <1>2, <1>3, <1>4 DEF Handlers

\* A call takes one application out of the first stage, and with the last one
\* the stage itself.
LEMMA CallTakesOne ==
  ASSUME stages \in Seq(StageSet), InOrder(stages, handler), NEW a, Calls(a)
  PROVE  /\ a \in Todo /\ a \in Apps
         /\ Current = CommandFor(handler, a) /\ Rank(handler, a) > 0
         /\ \A b \in Todo : Rank(handler, a) <= Rank(handler, b)
         /\ stages' \in Seq(StageSet) /\ InOrder(stages', handler)
         /\ Called(stages') = Todo \ {a}
<1>1. /\ stages # <<>> /\ a \in Head(stages).to
      /\ stages' = IF Head(stages).to = {a} THEN Tail(stages)
                   ELSE <<Stage(Current, Head(stages).to \ {a})>> \o Tail(stages)
  BY DEF Calls
<1>2. /\ 1 \in DOMAIN stages /\ Head(stages) = stages[1] /\ Len(stages) \in Nat /\ Len(stages) > 0
      /\ DOMAIN stages = 1..Len(stages)
      /\ Tail(stages) \in Seq(StageSet) /\ Len(Tail(stages)) = Len(stages) - 1
      /\ \A i \in 1..(Len(stages) - 1) : Tail(stages)[i] = stages[i + 1]
  BY <1>1
<1>3. stages[1].command \in Handlers /\ stages[1].to \subseteq Apps
  BY <1>2, StageFields
<1>4. a \in Todo /\ a \in Apps /\ Current = CommandFor(handler, a) /\ Rank(handler, a) > 0
  BY <1>1, <1>2, <1>3 DEF Todo, Called, InOrder, Current
<1>5. \A i \in DOMAIN stages : i # 1 => a \notin stages[i].to
  <2> SUFFICES ASSUME NEW i \in DOMAIN stages, i # 1, a \in stages[i].to PROVE FALSE
    OBVIOUS
  <2>1. 1 < i
    BY <1>2
  <2>2. Rank(handler, a) < Rank(handler, a)
    BY <1>1, <1>2, <2>1 DEF InOrder
  <2> QED BY <2>2, RankType
<1>6. ASSUME NEW b \in Todo PROVE Rank(handler, a) <= Rank(handler, b)
  <2>1. PICK i \in DOMAIN stages : b \in stages[i].to
    BY DEF Todo, Called
  <2>2. 1 < i \/ 1 = i
    BY <1>2
  <2> QED BY <1>1, <1>2, <2>1, <2>2, RankType DEF InOrder
<1>7. CASE Head(stages).to = {a}
  <2>1. stages' \in Seq(StageSet) /\ DOMAIN stages' = 1..(Len(stages) - 1)
    BY <1>1, <1>2, <1>7
  <2>2. \A i \in DOMAIN stages' : /\ i + 1 \in DOMAIN stages /\ i + 1 # 1 /\ i \in Nat
                                  /\ stages'[i] = stages[i + 1]
    BY <1>1, <1>2, <1>7, <2>1
  <2>3. \A i \in DOMAIN stages : i # 1 => i - 1 \in DOMAIN stages' /\ (i - 1) + 1 = i
    BY <1>2, <2>1
  <2>4. ASSUME NEW b PROVE b \in Called(stages') <=> b \in Todo \ {a}
    <3>1. ASSUME b \in Called(stages') PROVE b \in Todo \ {a}
      <4>1. PICK i \in DOMAIN stages' : b \in stages'[i].to
        BY <3>1 DEF Called
      <4> QED BY <1>5, <2>2, <4>1 DEF Todo, Called
    <3>2. ASSUME b \in Todo, b # a PROVE b \in Called(stages')
      <4>1. PICK i \in DOMAIN stages : b \in stages[i].to
        BY <3>2 DEF Todo, Called
      <4>2. i # 1
        BY <1>2, <1>7, <3>2, <4>1
      <4>3. i - 1 \in DOMAIN stages' /\ stages'[i - 1] = stages[i]
        BY <2>2, <2>3, <4>2
      <4> QED BY <4>1, <4>3 DEF Called
    <3> QED BY <3>1, <3>2
  <2>5. InOrder(stages', handler)
    <3>1. ASSUME NEW i \in DOMAIN stages', NEW j \in DOMAIN stages'
          PROVE  (i < j => i + 1 < j + 1) /\ (i = j => i + 1 = j + 1)
      BY <2>2
    <3> QED BY <2>2, <3>1 DEF InOrder
  <2> QED BY <1>4, <1>6, <2>1, <2>4, <2>5
<1>8. CASE Head(stages).to # {a}
  <2> DEFINE first == Stage(Current, Head(stages).to \ {a})
  <2>1. first \in StageSet /\ first.command = stages[1].command /\ first.to = stages[1].to \ {a}
    BY <1>2, <1>3 DEF Stage, StageSet, Current
  <2> HIDE DEF first
  <2>2. stages' = <<first>> \o Tail(stages)
    BY <1>1, <1>8 DEF first
  <2>3. /\ stages' \in Seq(StageSet) /\ DOMAIN stages' = DOMAIN stages /\ stages'[1] = first
        /\ \A i \in DOMAIN stages : i # 1 => stages'[i] = stages[i]
    BY <1>2, <2>1, <2>2
  <2>4. \A i \in DOMAIN stages : /\ stages'[i].command = stages[i].command
                                 /\ stages'[i].to = stages[i].to \ {a}
    BY <1>5, <2>1, <2>3
  <2>5. ASSUME NEW b PROVE b \in Called(stages') <=> b \in Todo \ {a}
    BY <2>3, <2>4 DEF Todo, Called
  <2>6. first.to # {}
    BY <1>1, <1>2, <1>8, <2>1
  <2>7. InOrder(stages', handler)
    BY <2>3, <2>4, <2>6 DEF InOrder
  <2> QED BY <1>4, <1>6, <2>3, <2>5, <2>7
<1> QED BY <1>7, <1>8

-----------------------------------------------------------------------------
(***************************************************************************)
(* Types.                                                                  *)
(***************************************************************************)
LEMMA ProcessType ==
  ASSUME NEW a \in Apps, NEW s \in States, NEW c, NEW throws
  PROVE  ProcessCommand(Table(a), s, c, throws) \in States
BY AppSteps DEF ProcessCommand

LEMMA CallsType ==
  ASSUME stages \in Seq(StageSet), NEW a, Calls(a)
  PROVE  stages' \in Seq(StageSet) /\ a \in Apps /\ Current \in Handlers
<1>1. /\ stages # <<>> /\ a \in Head(stages).to
      /\ stages' = IF Head(stages).to = {a} THEN Tail(stages)
                   ELSE <<Stage(Current, Head(stages).to \ {a})>> \o Tail(stages)
  BY DEF Calls
<1>2. Head(stages) \in StageSet /\ Tail(stages) \in Seq(StageSet)
  BY <1>1
<1>3. Current \in Handlers /\ Head(stages).to \subseteq Apps
  BY <1>2 DEF Current, StageSet
<1>4. <<Stage(Current, Head(stages).to \ {a})>> \in Seq(StageSet)
  BY <1>3 DEF Stage, StageSet
<1> QED BY <1>1, <1>2, <1>3, <1>4

\* One call, by the application it goes to.
LEMMA CallCases ==
  ASSUME TypeOK, Call
  PROVE  \E a \in Apps :
           /\ Calls(a)
           /\ state' \in [Processes -> States]
           /\ \A p \in Processes \ {a} : state'[p] = state[p]
           /\ \/ Discover(a)
              \/ CallInVain(a)
              \/ a \in Builders /\ (BuilderConfigure(a) \/ BuilderOther(a))
              \/ a \in Servers /\ (ServerConfigure(a) \/ ServerHalt(a) \/ ServerOther(a))
              \/ a = Trigger /\ (TriggerConfigure \/ TriggerHalt \/ TriggerOther)
<1>1. stages \in Seq(StageSet) /\ state \in [Processes -> States]
  BY DEF TypeOK, StageSet
<1>2. Builders \subseteq Apps /\ Servers \subseteq Apps /\ Trigger \in Apps /\ Apps \subseteq Processes
  BY DEF Apps, Processes
<1>3. ASSUME NEW a \in Apps, NEW throws, Executes(a, throws)
      PROVE  /\ Calls(a) /\ state' \in [Processes -> States]
             /\ \A p \in Processes \ {a} : state'[p] = state[p]
  <2>1. ProcessCommand(Table(a), state[a], Current, throws) \in States
    BY <1>1, <1>2, ProcessType
  <2> QED BY <1>1, <1>2, <1>3, <2>1 DEF Executes
<1>4. ASSUME NEW a \in Apps, ExecutesOrDies(a)
      PROVE  /\ Calls(a) /\ state' \in [Processes -> States]
             /\ \A p \in Processes \ {a} : state'[p] = state[p]
  <2>1. Target(Table(a), state[a], Current) \in States /\ "DOWN" \in States
    BY <1>4, AppSteps DEF ExecutesOrDies, States
  <2> QED BY <1>1, <1>2, <1>4, <2>1 DEF ExecutesOrDies
<1>5. CASE \E a \in Apps : Discover(a) \/ CallInVain(a)
  <2>1. PICK a \in Apps : Discover(a) \/ CallInVain(a)
    BY <1>5
  <2>2. ProcessCommand(Table(a), state[a], "CREATE", FALSE) \in States
    BY <1>1, <1>2, ProcessType
  <2>3. /\ Calls(a) /\ state' \in [Processes -> States]
        /\ \A p \in Processes \ {a} : state'[p] = state[p]
    BY <1>1, <1>2, <2>1, <2>2 DEF Discover, CallInVain
  <2> QED BY <2>1, <2>3
<1>6. CASE \E b \in Builders : BuilderConfigure(b) \/ BuilderOther(b)
  <2>1. PICK b \in Builders : BuilderConfigure(b) \/ BuilderOther(b)
    BY <1>6
  <2>2. b \in Apps /\ \E throws : Executes(b, throws)
    BY <1>2, <2>1 DEF BuilderConfigure, BuilderOther
  <2>3. /\ Calls(b) /\ state' \in [Processes -> States]
        /\ \A p \in Processes \ {b} : state'[p] = state[p]
    BY <1>3, <2>2
  <2> QED BY <2>1, <2>2, <2>3
<1>7. CASE \E s \in Servers : ServerConfigure(s) \/ ServerHalt(s) \/ ServerOther(s)
  <2>1. PICK s \in Servers : ServerConfigure(s) \/ ServerHalt(s) \/ ServerOther(s)
    BY <1>7
  <2>2. s \in Apps /\ ((\E throws : Executes(s, throws)) \/ ExecutesOrDies(s))
    BY <1>2, <2>1 DEF ServerConfigure, ServerHalt, ServerOther
  <2>3. /\ Calls(s) /\ state' \in [Processes -> States]
        /\ \A p \in Processes \ {s} : state'[p] = state[p]
    BY <1>3, <1>4, <2>2
  <2> QED BY <2>1, <2>2, <2>3
<1>8. CASE TriggerConfigure \/ TriggerHalt \/ TriggerOther
  <2>1. (\E throws : Executes(Trigger, throws)) \/ ExecutesOrDies(Trigger)
    BY <1>8 DEF TriggerConfigure, TriggerHalt, TriggerOther
  <2>2. /\ Calls(Trigger) /\ state' \in [Processes -> States]
        /\ \A p \in Processes \ {Trigger} : state'[p] = state[p]
    BY <1>2, <1>3, <1>4, <2>1
  <2> QED BY <1>2, <1>8, <2>2
<1> QED BY <1>5, <1>6, <1>7, <1>8 DEF Call

LEMMA NoStages == << >> \in Seq(StageSet)
OBVIOUS

LEMMA TypeInit == ASSUME Init PROVE TypeOK
<1>1. stages \in Seq(StageSet)
  BY NoStages DEF Init
<1> QED BY <1>1 DEF Init, TypeOK, States, StageSet

LEMMA TypeNext == ASSUME TypeOK, StageInv, [Next]_vars PROVE TypeOK'
<1>1. /\ stages \in Seq(StageSet) /\ state \in [Processes -> States]
      /\ RunCtrl \in Processes /\ "VOID" \in States /\ "DOWN" \in States
  BY DEF TypeOK, StageSet, Processes, States
<1>2. ASSUME NEW h, Accepts(RunControlTable, state[RunCtrl], h)
      PROVE  h \in Handlers /\ Target(RunControlTable, state[RunCtrl], h) \in States
  BY <1>2, RunControlSteps DEF Handlers, States
<1>3. CASE BeginCreate
  <2>1. stages' \in Seq(StageSet)
    <3>1. Stage("CREATE", Apps) \in StageSet
      BY DEF Stage, StageSet, Handlers
    <3>2. <<Stage("CREATE", Apps)>> \in Seq(StageSet)
      BY <3>1
    <3> QED BY <1>3, <3>2, NoStages DEF BeginCreate
  <2> QED BY <1>3, <2>1 DEF BeginCreate, TypeOK, inner, faults, StageSet, Handlers
<1>4. ASSUME NEW c \in Commands, Begin(c) PROVE TypeOK'
  <2>1. c \in Handlers \ {"CREATE"}
    BY <1>2, <1>4 DEF Begin
  <2>2. stages' \in Seq(StageSet)
    BY <1>4, <2>1, ProgramInOrder DEF Begin
  <2> QED BY <1>4, <2>1, <2>2 DEF Begin, TypeOK, inner, StageSet
<1>5. CASE Call
  <2>1. PICK a \in Apps :
           /\ Calls(a)
           /\ state' \in [Processes -> States]
           /\ \A p \in Processes \ {a} : state'[p] = state[p]
           /\ \/ Discover(a)
              \/ CallInVain(a)
              \/ a \in Builders /\ (BuilderConfigure(a) \/ BuilderOther(a))
              \/ a \in Servers /\ (ServerConfigure(a) \/ ServerHalt(a) \/ ServerOther(a))
              \/ a = Trigger /\ (TriggerConfigure \/ TriggerHalt \/ TriggerOther)
    BY <1>5, CallCases
  <2>2. stages' \in Seq(StageSet) /\ UNCHANGED <<handler, faults>>
    BY <1>1, <2>1, CallsType DEF Calls
  <2>3. client' \in [Apps -> {"none", "found", "dead"}]
    BY <2>1
    DEF TypeOK, Discover, CallInVain, BuilderConfigure, BuilderOther, ServerConfigure, ServerHalt,
        ServerOther, TriggerConfigure, TriggerHalt, TriggerOther, Executes, ExecutesOrDies
  <2>4. bound' \subseteq Builders /\ senders' \subseteq Servers /\ registered' \subseteq Servers
    BY <2>1
    DEF TypeOK, Discover, CallInVain, BuilderConfigure, BuilderOther, ServerConfigure, ServerHalt,
        ServerOther, TriggerConfigure, TriggerHalt, TriggerOther, inner
  <2>5. publisher' \in {"null", "live", "deleted"}
    BY <2>1
    DEF TypeOK, Discover, CallInVain, BuilderConfigure, BuilderOther, ServerConfigure, ServerHalt,
        ServerOther, TriggerConfigure, TriggerHalt, TriggerOther, inner
  <2> QED BY <2>1, <2>2, <2>3, <2>4, <2>5 DEF TypeOK, faults, StageSet
<1>6. CASE End
  <2>1. handler # "none" /\ UNCHANGED <<stages, client, inner, faults>> /\ handler' = "none"
    BY <1>6 DEF End
  <2>2. state' \in [Processes -> States]
    <3>1. Target(RunControlTable, state[RunCtrl], handler) \in States
      BY <1>2, <2>1 DEF StageInv
    <3> QED BY <1>1, <1>6, <3>1 DEF End
  <2> QED BY <2>1, <2>2 DEF TypeOK, inner, faults
<1>7. ASSUME NEW s \in States \ {"DOWN"}, ForceState(s) PROVE TypeOK'
  BY <1>1, <1>7 DEF ForceState, TypeOK, inner
<1>8. ASSUME NEW p \in Processes, Crash(p) PROVE TypeOK'
  <2>1. stages' \in Seq(StageSet)
    BY <1>1, <1>8, NoStages DEF Crash, Forget
  <2> QED BY <1>1, <1>8, <2>1 DEF Crash, Forget, TypeOK, StageSet
<1>9. ASSUME NEW p \in Processes, Respawn(p) PROVE TypeOK'
  BY <1>1, <1>9 DEF Respawn, TypeOK, inner, faults
<1>10. CASE PostNowhere
  <2>1. Trigger \in Processes
    BY DEF Processes, Apps
  <2> QED BY <1>1, <1>10, <2>1 DEF PostNowhere, TypeOK, faults
<1>11. CASE UNCHANGED vars
  BY <1>11 DEF TypeOK, vars, inner, faults
<1>12. ASSUME NEW a \in Apps, NeverReturns(a) PROVE TypeOK'
  BY <1>12 DEF NeverReturns, TypeOK, inner
<1> QED BY <1>3, <1>4, <1>5, <1>6, <1>7, <1>8, <1>9, <1>10, <1>11, <1>12 DEF Next

-----------------------------------------------------------------------------
(***************************************************************************)
(* The calls still to be made.                                             *)
(***************************************************************************)
LEMMA NoCalls == ASSUME NEW h PROVE InOrder(<< >>, h) /\ Called(<< >>) = {}
BY DEF InOrder, Called

LEMMA StageInit == ASSUME Init PROVE StageInv
BY NoCalls DEF Init, StageInv, Todo

LEMMA StageNext == ASSUME TypeOK, StageInv, [Next]_vars PROVE StageInv'
<1>1. stages \in Seq(StageSet)
  BY DEF TypeOK, StageSet
<1>2. RunCtrl \in Processes /\ RunCtrl \notin Apps /\ Apps # {} /\ Trigger \in Apps
  BY RunControlAssumption DEF Processes, Apps
<1>3. CASE BeginCreate
  <2>1. handler' = "CREATE" /\ state' = state /\ halted' = halted
        /\ Accepts(RunControlTable, state[RunCtrl], "CREATE")
    BY <1>3 DEF BeginCreate, faults
  <2>2. \A a : CommandFor("CREATE", a) = "CREATE" /\ Rank("CREATE", a) = 1
    BY DEF CommandFor, Rank
  <2>3. InOrder(<<Stage("CREATE", Apps)>>, "CREATE")
    BY <1>2, <2>2 DEF InOrder, Stage
  <2>4. InOrder(stages', handler')
    BY <1>3, <2>1, <2>3, NoCalls DEF BeginCreate
  <2> QED BY <2>1, <2>2, <2>4 DEF StageInv
<1>4. ASSUME NEW c \in Commands, Begin(c) PROVE StageInv'
  <2>1. /\ handler' = c /\ c # "CREATE" /\ state' = state /\ client' = client
        /\ stages' = Program(c) /\ halted' = (halted \/ c = "HALT")
        /\ Accepts(RunControlTable, state[RunCtrl], c)
    BY <1>4 DEF Begin
  <2>2. c \in Handlers \ {"CREATE"}
    BY <2>1, RunControlSteps DEF Handlers
  <2>3. InOrder(stages', handler') /\ Called(stages') = {a \in Discovered(Apps) : Rank(c, a) > 0}
    BY <2>1, <2>2, ProgramInOrder
  <2>4. ASSUME NEW a \in Called(stages'), NEW b \in Apps, client[b] # "none",
               Rank(c, a) < Rank(c, b)
        PROVE  b \in Called(stages')
    <3>1. Rank(c, b) > 0
      BY <2>4, RankType
    <3> QED BY <2>3, <2>4, <3>1 DEF Discovered
  <2>5. c # "none"
    BY <2>2 DEF Handlers
  <2> QED BY <2>1, <2>3, <2>4, <2>5 DEF StageInv, Todo
<1>5. CASE Call
  <2>1. PICK a \in Apps :
          /\ Calls(a) /\ state'[RunCtrl] = state[RunCtrl]
          /\ client' = client \/ handler = "CREATE"
    <3>1. PICK a \in Apps :
            /\ Calls(a)
            /\ \A p \in Processes \ {a} : state'[p] = state[p]
            /\ \/ Discover(a)
               \/ CallInVain(a)
               \/ a \in Builders /\ (BuilderConfigure(a) \/ BuilderOther(a))
               \/ a \in Servers /\ (ServerConfigure(a) \/ ServerHalt(a) \/ ServerOther(a))
               \/ a = Trigger /\ (TriggerConfigure \/ TriggerHalt \/ TriggerOther)
      BY <1>5, CallCases
    <3>2. client' = client \/ handler = "CREATE"
      BY <3>1
      DEF Discover, CallInVain, BuilderConfigure, BuilderOther, ServerConfigure, ServerHalt,
          ServerOther, TriggerConfigure, TriggerHalt, TriggerOther, Executes, ExecutesOrDies
    <3> QED BY <1>2, <3>1, <3>2
  <2>2. UNCHANGED <<handler, halted>> /\ stages # << >>
    BY <2>1 DEF Calls, faults
  <2>3. InOrder(stages', handler) /\ Called(stages') = Todo \ {a} /\ a \in Todo
        /\ \A b \in Todo : Rank(handler, a) <= Rank(handler, b)
    BY <1>1, <2>1, CallTakesOne DEF StageInv
  <2>4. ASSUME NEW d \in Called(stages'), NEW b \in Apps, client'[b] # "none",
               Rank(handler, d) < Rank(handler, b)
        PROVE  b \in Called(stages')
    <3>1. client[b] # "none"
      <4>1. handler # "CREATE"
        BY <2>4 DEF Rank
      <4> QED BY <2>1, <2>4, <4>1
    <3>2. d \in Todo /\ b \in Todo
      BY <2>3, <2>4, <3>1 DEF StageInv
    <3>3. b # a
      BY <2>3, <2>4, <3>2, RankType
    <3> QED BY <2>3, <3>2, <3>3
  <2> QED BY <2>1, <2>2, <2>3, <2>4 DEF StageInv, Todo
<1>6. CASE End
  <2>1. stages' = << >> /\ handler' = "none"
    BY <1>6 DEF End
  <2> QED BY <2>1, NoCalls DEF StageInv, Todo
<1>7. ASSUME NEW s \in States \ {"DOWN"}, ForceState(s) PROVE StageInv'
  <2>1. stages' = << >> /\ handler' = "none"
    BY <1>7 DEF ForceState, StageInv
  <2> QED BY <2>1, NoCalls DEF StageInv, Todo
<1>8. ASSUME NEW p \in Processes, Crash(p) PROVE StageInv'
  <2>1. CASE p = RunCtrl
    <3>1. stages' = << >> /\ handler' = "none"
      BY <1>8, <2>1 DEF Crash, Forget
    <3> QED BY <3>1, NoCalls DEF StageInv, Todo
  <2>2. CASE p # RunCtrl
    <3>1. UNCHANGED <<stages, handler, client, halted>> /\ state'[RunCtrl] = state[RunCtrl]
      BY <1>2, <1>8, <2>2 DEF Crash, Forget, TypeOK
    <3> QED BY <3>1 DEF StageInv, Todo
  <2> QED BY <2>1, <2>2
<1>9. ASSUME NEW p \in Processes, Respawn(p) PROVE StageInv'
  <2>1. CASE p = RunCtrl
    <3>1. handler = "none"
      BY <1>9, <2>1, RunControlSteps DEF Respawn, StageInv
    <3>2. stages' = << >> /\ handler' = "none"
      BY <1>9, <3>1 DEF Respawn, StageInv
    <3> QED BY <3>2, NoCalls DEF StageInv, Todo
  <2>2. CASE p # RunCtrl
    <3>1. UNCHANGED <<stages, handler, client, halted>> /\ state'[RunCtrl] = state[RunCtrl]
      BY <1>2, <1>9, <2>2 DEF Respawn, TypeOK, faults
    <3> QED BY <3>1 DEF StageInv, Todo
  <2> QED BY <2>1, <2>2
<1>10. CASE PostNowhere
  <2>1. UNCHANGED <<stages, handler, client, halted>> /\ state'[RunCtrl] = state[RunCtrl]
    BY <1>2, <1>10 DEF PostNowhere, TypeOK, faults
  <2> QED BY <2>1 DEF StageInv, Todo
<1>11. CASE UNCHANGED vars
  BY <1>11 DEF StageInv, Todo, vars, faults
<1>12. ASSUME NEW a \in Apps, NeverReturns(a) PROVE StageInv'
  BY <1>12 DEF NeverReturns, StageInv, Todo
<1> QED BY <1>3, <1>4, <1>5, <1>6, <1>7, <1>8, <1>9, <1>10, <1>11, <1>12 DEF Next

-----------------------------------------------------------------------------
(***************************************************************************)
(* What the applications hold.                                             *)
(***************************************************************************)
LEMMA ResourceInit == ASSUME Init PROVE ResourceInv
BY DEF Init, ResourceInv, Processes, Apps, Ready

\* A call of the command c, accepted or not, keeps what application a holds in
\* line with its state.
LEMMA ResourceCall ==
  ASSUME TypeOK, StageInv, ResourceInv, Call PROVE ResourceInv'
<1>1. PICK a \in Apps :
        /\ Calls(a)
        /\ state' \in [Processes -> States]
        /\ \A p \in Processes \ {a} : state'[p] = state[p]
        /\ \/ Discover(a)
           \/ CallInVain(a)
           \/ a \in Builders /\ (BuilderConfigure(a) \/ BuilderOther(a))
           \/ a \in Servers /\ (ServerConfigure(a) \/ ServerHalt(a) \/ ServerOther(a))
           \/ a = Trigger /\ (TriggerConfigure \/ TriggerHalt \/ TriggerOther)
  BY CallCases
<1>2. /\ state \in [Processes -> States] /\ a \in Processes /\ halted' = halted
      /\ bound \subseteq Builders /\ senders \subseteq Servers
      /\ Builders \subseteq Apps /\ Servers \subseteq Apps /\ Trigger \in Apps
      /\ Apps \subseteq Processes
  BY <1>1 DEF TypeOK, Calls, faults, Apps, Processes
<1>3. /\ a \in Builders => a \notin Servers /\ a # Trigger
      /\ a \in Servers => a # Trigger
  BY TableOf
<1>4. ~halted => Current # "HALT"
  <2>1. stages \in Seq(StageSet) /\ InOrder(stages, handler)
    BY DEF TypeOK, StageSet, StageInv
  <2>2. Current = CommandFor(handler, a)
    BY <1>1, <2>1, CallTakesOne
  <2> QED BY <2>2 DEF StageInv, CommandFor
<1> DEFINE t == Target(Table(a), state[a], Current)
<1>5. ASSUME UNCHANGED inner, state'[a] \in Ready <=> state[a] \in Ready PROVE ResourceInv'
  BY <1>1, <1>2, <1>5 DEF ResourceInv, inner
<1>6. ASSUME Accepts(Table(a), state[a], Current)
      PROVE  /\ t \in Ready => \/ Current = "CONFIGURE" /\ t = "CONFIGURED"
                              \/ state[a] \in Ready
             /\ state[a] \in Ready => t \in Ready \/ Current = "HALT"
             /\ Current \in {"HALT", "INITIALISE"} => t \notin Ready
             /\ Current = "CONFIGURE" => t = "CONFIGURED"
  <2>1. CASE a \in Servers
    BY <1>6, <2>1, ServerSteps, TableOf DEF Ready
  <2>2. CASE a \notin Servers
    BY <1>6, <2>2, SimpleSteps, TableOf DEF Ready
  <2> QED BY <2>1, <2>2
<1> HIDE DEF t
<1>7. ASSUME Executes(a, FALSE)
      PROVE  state'[a] = t /\ Accepts(Table(a), state[a], Current)
  BY <1>2, <1>7 DEF Executes, ProcessCommand, t
<1>8. CASE Discover(a)
  <2>1. state'[a] = ProcessCommand(Table(a), state[a], "CREATE", FALSE) /\ UNCHANGED inner
    BY <1>2, <1>8 DEF Discover
  <2>2. state'[a] \in Ready <=> state[a] \in Ready
    BY <2>1, AppSteps DEF ProcessCommand, Ready
  <2> QED BY <1>5, <2>1, <2>2
<1>9. CASE CallInVain(a)
  BY <1>5, <1>9 DEF CallInVain
<1>10. CASE a \in Builders /\ BuilderConfigure(a)
  <2>1. /\ Current = "CONFIGURE" /\ UNCHANGED <<senders, registered, publisher>>
        /\ Accepts(Table(a), state[a], Current)
        /\ bound' = IF a \in Complete THEN bound \cup {a} ELSE bound
        /\ state'[a] = IF a \in Complete /\ a \in bound THEN state[a] ELSE t
    BY <1>2, <1>10 DEF BuilderConfigure, Executes, ProcessCommand, t
  <2>2. t = "CONFIGURED"
    BY <1>6, <2>1
  <2>3. CASE a \in Complete /\ a \in bound
    BY <1>5, <2>1, <2>3 DEF inner
  <2>4. CASE ~(a \in Complete /\ a \in bound)
    BY <1>1, <1>2, <1>3, <1>10, <2>1, <2>2, <2>4 DEF ResourceInv, Ready
  <2> QED BY <2>3, <2>4
<1>11. CASE a \in Builders /\ BuilderOther(a)
  <2>1. UNCHANGED inner /\ state'[a] = t /\ Accepts(Table(a), state[a], Current)
        /\ Current # "CONFIGURE"
    BY <1>7, <1>11 DEF BuilderOther
  <2>2. CASE halted
    BY <1>1, <1>2, <1>3, <1>6, <1>11, <2>1, <2>2 DEF ResourceInv, inner
  <2>3. CASE ~halted
    BY <1>4, <1>5, <1>6, <2>1, <2>3
  <2> QED BY <2>2, <2>3
<1>12. CASE a \in Servers /\ ServerConfigure(a)
  <2>1. /\ Current = "CONFIGURE" /\ UNCHANGED <<bound, publisher>>
        /\ senders' = IF a \in Complete THEN senders \cup {a} ELSE senders \ {a}
        /\ registered' = IF a \in Complete THEN registered \cup {a} ELSE registered
        /\ a \in Complete => Executes(a, FALSE)
    BY <1>12 DEF ServerConfigure
  <2>2. a \in Complete => state'[a] = "CONFIGURED"
    BY <1>6, <1>7, <2>1
  <2> QED BY <1>1, <1>2, <1>3, <1>12, <2>1, <2>2 DEF ResourceInv, Ready
<1>13. CASE a \in Servers /\ ServerHalt(a)
  <2>1. /\ UNCHANGED <<bound, registered, publisher>> /\ senders' = senders \ {a}
        /\ a \in Complete => Executes(a, FALSE) /\ Current = "HALT"
    BY <1>13 DEF ServerHalt, NoSubscriber
  <2>2. a \in Complete => state'[a] \notin Ready
    BY <1>6, <1>7, <2>1
  <2> QED BY <1>1, <1>2, <1>3, <1>13, <2>1, <2>2 DEF ResourceInv
<1>14. CASE a \in Servers /\ ServerOther(a)
  <2>1. UNCHANGED inner /\ Current \in {"INITIALISE", "START", "STOP"}
    BY <1>14 DEF ServerOther
  <2>2. CASE Executes(a, FALSE)
    BY <1>5, <1>6, <1>7, <2>1, <2>2
  <2>3. CASE a \notin Complete
    BY <1>1, <1>2, <1>3, <1>14, <2>1, <2>3 DEF ResourceInv, inner
  <2> QED BY <1>14, <2>2, <2>3 DEF ServerOther, NoSubscriber
<1>15. CASE a = Trigger /\ TriggerConfigure
  <2>1. /\ UNCHANGED <<bound, senders, registered>> /\ state'[a] = "CONFIGURED"
        /\ publisher' = IF Trigger \in Complete /\ publisher = "null" THEN "live" ELSE publisher
    BY <1>6, <1>7, <1>15 DEF TriggerConfigure
  <2> QED BY <1>1, <1>2, <1>3, <1>15, <2>1 DEF ResourceInv, Ready
<1>16. CASE a = Trigger /\ TriggerHalt
  <2>1. UNCHANGED <<bound, senders, registered>> /\ halted
    BY <1>4, <1>16 DEF TriggerHalt
  <2> QED BY <1>1, <1>2, <1>3, <1>16, <2>1 DEF ResourceInv
<1>17. CASE a = Trigger /\ TriggerOther
  BY <1>5, <1>6, <1>7, <1>17 DEF TriggerOther
<1> QED BY <1>1, <1>8, <1>9, <1>10, <1>11, <1>12, <1>13, <1>14, <1>15, <1>16, <1>17

LEMMA ResourceNext == ASSUME TypeOK, StageInv, ResourceInv, [Next]_vars PROVE ResourceInv'
<1>1. /\ RunCtrl \in Processes /\ RunCtrl \notin Apps /\ Trigger \in Apps
      /\ Builders \subseteq Apps /\ Servers \subseteq Apps /\ Apps \subseteq Processes
      /\ state \in [Processes -> States] /\ bound \subseteq Builders /\ senders \subseteq Servers
      /\ Trigger \notin Builders /\ Trigger \notin Servers
  BY RunControlAssumption DEF Processes, Apps, TypeOK
<1>2. ASSUME \A a \in Apps : state'[a] = state[a], UNCHANGED inner, halted => halted'
      PROVE  ResourceInv'
  <2>1. /\ \A s \in Servers : state'[s] = state[s]
        /\ \A b \in Builders : state'[b] = state[b]
        /\ state'[Trigger] = state[Trigger]
    BY <1>1, <1>2
  <2> QED BY <1>1, <1>2, <2>1 DEF ResourceInv, inner
<1>3. CASE BeginCreate
  BY <1>2, <1>3 DEF BeginCreate, faults
<1>4. ASSUME NEW c \in Commands, Begin(c) PROVE ResourceInv'
  BY <1>2, <1>4 DEF Begin
<1>5. CASE Call
  BY <1>5, ResourceCall
<1>6. CASE End
  BY <1>1, <1>2, <1>6 DEF End, faults
<1>7. ASSUME NEW s \in States \ {"DOWN"}, ForceState(s) PROVE ResourceInv'
  BY <1>1, <1>2, <1>7 DEF ForceState
<1>8. ASSUME NEW p \in Processes, Crash(p) PROVE ResourceInv'
  <2>1. /\ bound' = bound \ {p} /\ senders' = senders \ {p} /\ registered' = registered
        /\ publisher' = IF p = Trigger THEN "null" ELSE publisher
        /\ state'[p] \notin Ready /\ halted' = halted
        /\ \A q \in Processes \ {p} : state'[q] = state[q]
    BY <1>1, <1>8 DEF Crash, Forget, Ready
  <2> QED BY <1>1, <2>1 DEF ResourceInv
<1>9. ASSUME NEW p \in Processes, Respawn(p) PROVE ResourceInv'
  <2>1. /\ state'[p] \notin Ready /\ state[p] \notin Ready
        /\ \A q \in Processes \ {p} : state'[q] = state[q]
        /\ UNCHANGED <<inner, halted>>
    BY <1>1, <1>9 DEF Respawn, Ready, faults
  <2> QED BY <1>1, <2>1 DEF ResourceInv, inner
<1>10. CASE PostNowhere
  <2>1. /\ state[Trigger] \in Ready /\ publisher # "live" /\ publisher' = "null"
        /\ state'[Trigger] \notin Ready
        /\ \A q \in Processes \ {Trigger} : state'[q] = state[q]
        /\ UNCHANGED <<bound, senders, registered, halted>>
    BY <1>1, <1>10 DEF PostNowhere, Ready, faults
  <2> QED BY <1>1, <2>1 DEF ResourceInv
<1>11. CASE UNCHANGED vars
  BY <1>2, <1>11 DEF vars, inner
<1>12. ASSUME NEW a \in Apps, NeverReturns(a) PROVE ResourceInv'
  BY <1>2, <1>12 DEF NeverReturns
<1> QED BY <1>3, <1>4, <1>5, <1>6, <1>7, <1>8, <1>9, <1>10, <1>11, <1>12 DEF Next

-----------------------------------------------------------------------------
(***************************************************************************)
(* Where the applications are.                                             *)
(***************************************************************************)
LEMMA HistoryGrows ==
  ASSUME TypeOK, [Next]_vars, Undisturbed'
  PROVE  /\ crashed \subseteq crashed' /\ Undisturbed
         /\ \A s : ~ForceState(s)
<1>1. forced \in Nat
  BY DEF TypeOK
<1>2. crashed \subseteq crashed' /\ (halted => halted') /\ (forced' = forced \/ forced' = forced + 1)
  <2>1. CASE Call
    <3>1. \E a \in Apps : Calls(a)
      BY <2>1, CallCases
    <3> QED BY <3>1 DEF Calls, faults
  <2>2. CASE BeginCreate \/ End \/ PostNowhere \/ UNCHANGED vars
    BY <2>2 DEF BeginCreate, End, PostNowhere, vars, faults
  <2>3. CASE \E c \in Commands : Begin(c)
    BY <2>3 DEF Begin
  <2>4. CASE \E s \in States \ {"DOWN"} : ForceState(s)
    BY <2>4 DEF ForceState
  <2>5. CASE \E p \in Processes : Crash(p) \/ Respawn(p)
    BY <2>5 DEF Crash, Respawn, faults
  <2>6. CASE \E a \in Apps : NeverReturns(a)
    BY <2>6 DEF NeverReturns
  <2> QED BY <2>1, <2>2, <2>3, <2>4, <2>5, <2>6 DEF Next
<1>3. \A s : ~ForceState(s)
  BY <1>1 DEF ForceState, Undisturbed
<1> QED BY <1>1, <1>2, <1>3 DEF Undisturbed

LEMMA PlaceInit == ASSUME Init PROVE PlaceInv
BY RunControlAssumption DEF Init, PlaceInv, InPlace, Place, Believed, Processes, Apps

\* The application that is called.
LEMMA PlaceCall ==
  ASSUME TypeOK, StageInv, ResourceInv, PlaceInv, Call, RunCtrl \notin crashed, Undisturbed
  PROVE  state'[RunCtrl] # "DOWN" /\ \A a \in Apps : InPlace(a)'
<1> DEFINE r == state[RunCtrl]  t == Target(RunControlTable, r, handler)
<1>1. PICK a \in Apps :
        /\ Calls(a)
        /\ state' \in [Processes -> States]
        /\ \A p \in Processes \ {a} : state'[p] = state[p]
        /\ \/ Discover(a)
           \/ CallInVain(a)
           \/ a \in Builders /\ (BuilderConfigure(a) \/ BuilderOther(a))
           \/ a \in Servers /\ (ServerConfigure(a) \/ ServerHalt(a) \/ ServerOther(a))
           \/ a = Trigger /\ (TriggerConfigure \/ TriggerHalt \/ TriggerOther)
  BY CallCases
<1>2. /\ state \in [Processes -> States] /\ Apps \subseteq Processes /\ a \in Processes
      /\ RunCtrl \in Processes /\ RunCtrl \notin Apps
      /\ client \in [Apps -> {"none", "found", "dead"}]
  BY RunControlAssumption DEF TypeOK, Processes, Apps
<1>3. /\ UNCHANGED <<handler, crashed>> /\ stages # << >> /\ state'[RunCtrl] = r
  BY <1>1, <1>2 DEF Calls, faults
<1>4. stages \in Seq(StageSet) /\ InOrder(stages, handler)
  BY DEF TypeOK, StageSet, StageInv
<1>5. /\ a \in Todo /\ Todo' = Todo \ {a}
      /\ Current = CommandFor(handler, a) /\ Rank(handler, a) > 0
  BY <1>1, <1>4, CallTakesOne DEF Todo
<1>6. handler # "none" /\ handler # "HALT" /\ Accepts(RunControlTable, r, handler)
  BY <1>3 DEF StageInv, Undisturbed
<1>7. /\ Accepts(Table(a), Believed(r, a), Current)
      /\ Target(Table(a), Believed(r, a), Current) = Believed(t, a)
  BY <1>5, <1>6, Follows
<1>8. r # "DOWN" /\ \A b \in Apps : InPlace(b)
  BY DEF PlaceInv
<1>9. ASSUME NEW b \in Apps \ {a} PROVE InPlace(b)'
  <2>1. client'[b] = client[b]
    BY <1>1, <1>2, <1>9
    DEF Discover, CallInVain, BuilderConfigure, BuilderOther, ServerConfigure, ServerHalt,
        ServerOther, TriggerConfigure, TriggerHalt, TriggerOther, Executes, ExecutesOrDies
  <2>2. state'[b] = state[b] /\ (b \in Todo' <=> b \in Todo)
    BY <1>1, <1>2, <1>5
  <2>3. Place(b)' = Place(b)
    BY <1>3, <2>2 DEF Place
  <2> QED BY <1>3, <1>8, <2>1, <2>2, <2>3 DEF InPlace
<1>10. /\ Place(a) = Believed(r, a) /\ Place(a)' = Believed(t, a) /\ a \notin Todo'
  BY <1>3, <1>5, <1>6 DEF Place
<1> HIDE DEF r, t
<1>11. /\ IF a \in crashed \/ a \notin Complete
            THEN state[a] \in Behind(a) \cup {Believed(r, a)}
            ELSE state[a] = Believed(r, a) /\ client[a] # "dead"
       /\ client[a] = "dead" => state[a] \in {"DOWN", "VOID"}
       /\ client[a] = "none" <=> r = "VOID"
  BY <1>5, <1>8, <1>10 DEF InPlace, r
<1> DEFINE InItsPlace ==
             /\ IF a \in crashed \/ a \notin Complete
                  THEN state'[a] \in Behind(a) \cup {Believed(t, a)}
                  ELSE state'[a] = Believed(t, a) /\ client'[a] # "dead"
             /\ client'[a] = "dead" => state'[a] \in {"DOWN", "VOID"}
             /\ client'[a] # "none"
<1>12. SUFFICES InItsPlace
  <2>1. InItsPlace => InPlace(a)'
    BY <1>3, <1>6, <1>10 DEF InPlace
  <2> QED BY <1>3, <1>8, <1>9, <2>1 DEF r
<1>13. /\ \A s : Accepts(Table(a), s, Current) => s # "DOWN" /\ (s = "VOID" <=> Current = "CREATE")
  BY AppSteps
<1>14. handler # "CREATE" => Current # "CREATE" /\ r # "VOID"
  BY <1>5, <1>6, RunControlSteps DEF CommandFor, r
<1>15. CASE Discover(a)
  <2>1. /\ handler = "CREATE"
        /\ state'[a] = ProcessCommand(Table(a), state[a], "CREATE", FALSE)
        /\ client'[a] = IF state[a] = "DOWN" THEN "dead" ELSE "found"
    BY <1>2, <1>15 DEF Discover
  <2>2. Current = "CREATE" /\ r = "VOID" /\ Believed(r, a) = "VOID"
    BY <1>5, <1>6, <2>1, RunControlSteps DEF CommandFor, Believed, r
  <2>3. state'[a] = IF state[a] = "VOID" THEN Believed(t, a) ELSE state[a]
    BY <1>7, <1>13, <2>1, <2>2 DEF ProcessCommand
  <2> QED BY <1>11, <2>1, <2>2, <2>3
<1>16. CASE CallInVain(a)
  <2>1. /\ handler # "CREATE" /\ state' = state /\ client' = client
        /\ client[a] = "dead" \/ ~Accepts(Table(a), state[a], Current)
    BY <1>16 DEF CallInVain
  <2> QED BY <1>7, <1>11, <1>14, <2>1 DEF Behind
<1>17. ASSUME handler # "CREATE", client' = client, client[a] = "found",
              Accepts(Table(a), state[a], Current),
              \/ state'[a] = Target(Table(a), state[a], Current)
              \/ state'[a] = "DOWN" /\ a \notin Complete
       PROVE  InItsPlace
  <2>1. CASE state[a] = "INITIALISED" /\ a \in Servers /\ a \notin Complete
    <3>1. Current = "CONFIGURE" /\ Target(Table(a), state[a], Current) = "CONFIGURED"
      BY <1>17, <2>1, TableOf, ServerSteps
    <3>2. Believed(t, a) = "CONFIGURED"
      <4>1. Accepts(ServerTable, Believed(r, a), "CONFIGURE")
            /\ Target(ServerTable, Believed(r, a), "CONFIGURE") = Believed(t, a)
        BY <1>7, <2>1, <3>1, TableOf
      <4> QED BY <4>1, ServerSteps
    <3> QED BY <1>17, <2>1, <3>1, <3>2 DEF Behind
  <2>2. CASE ~(state[a] = "INITIALISED" /\ a \in Servers /\ a \notin Complete)
    <3>1. state[a] = Believed(r, a)
      BY <1>11, <1>13, <1>14, <1>17, <2>2 DEF Behind
    <3> QED BY <1>7, <1>17, <3>1 DEF Behind
  <2> QED BY <2>1, <2>2
<1>18. ASSUME Executes(a, FALSE) PROVE InItsPlace
  <2>1. state'[a] = Target(Table(a), state[a], Current)
    BY <1>2, <1>18 DEF Executes, ProcessCommand
  <2> QED BY <1>17, <1>18, <2>1 DEF Executes
<1>19. CASE a \in Builders /\ BuilderConfigure(a)
  <2>1. /\ Executes(a, a \in Complete /\ a \in bound) /\ Current = "CONFIGURE"
    BY <1>19 DEF BuilderConfigure
  <2>2. ~(a \in Complete /\ a \in bound)
    <3> SUFFICES ASSUME a \in bound PROVE FALSE
      OBVIOUS
    <3>1. handler = "INITIALISE"
      BY <1>5, <1>19, <2>1, TableOf DEF CommandFor, Rank
    <3>2. r = "CREATED" /\ Believed(r, a) = "CREATED"
      BY <1>6, <3>1, RunControlSteps DEF Believed, r
    <3>3. state[a] \in Ready
      BY DEF ResourceInv, Undisturbed
    <3> QED BY <1>11, <3>2, <3>3 DEF Ready, Behind
  <2>3. state'[a] = Target(Table(a), state[a], Current)
    BY <1>2, <2>1, <2>2 DEF Executes, ProcessCommand
  <2> QED BY <1>17, <2>1, <2>3 DEF Executes
<1>20. CASE a \in Servers /\ ServerOther(a)
  <2>1. CASE Executes(a, FALSE)
    BY <1>18, <2>1
  <2>2. CASE ExecutesOrDies(a) /\ a \notin Complete
    <3>1. state'[a] = Target(Table(a), state[a], Current) \/ state'[a] = "DOWN"
      BY <1>2, <2>2 DEF ExecutesOrDies
    <3> QED BY <1>17, <2>2, <3>1 DEF ExecutesOrDies
  <2> QED BY <1>20, <2>1, <2>2 DEF ServerOther, NoSubscriber
<1>21. CASE TriggerHalt \/ ServerHalt(a)
  BY <1>5, <1>6, <1>21 DEF TriggerHalt, ServerHalt, CommandFor
<1>22. CASE a \in Servers /\ ServerConfigure(a)
  <2>1. CASE Executes(a, FALSE)
    BY <1>18, <2>1
  <2>2. CASE Executes(a, TRUE) /\ a \notin Complete
    <3>1. /\ Current = "CONFIGURE" /\ state'[a] = state[a] /\ client' = client
          /\ client[a] = "found" /\ Accepts(Table(a), state[a], Current)
      BY <1>2, <1>22, <2>2 DEF ServerConfigure, Executes, ProcessCommand
    <3>2. state[a] \in {"INITIALISED", "CONFIGURED"}
      BY <1>22, <3>1, TableOf, ServerSteps
    <3>3. Believed(t, a) = "CONFIGURED"
      <4>1. Accepts(ServerTable, Believed(r, a), "CONFIGURE")
            /\ Target(ServerTable, Believed(r, a), "CONFIGURE") = Believed(t, a)
        BY <1>7, <1>22, <3>1, TableOf DEF r, t
      <4> QED BY <4>1, ServerSteps
    <3> QED BY <1>22, <2>2, <3>1, <3>2, <3>3 DEF Behind
  <2> QED BY <1>22, <2>1, <2>2 DEF ServerConfigure
<1> QED BY <1>1, <1>15, <1>16, <1>18, <1>19, <1>20, <1>21, <1>22
        DEF BuilderOther, TriggerConfigure, TriggerOther

LEMMA PlaceNext ==
  ASSUME RunCtrl \in Complete, TypeOK, StageInv, ResourceInv, PlaceInv, [Next]_vars
  PROVE  PlaceInv'
<1> DEFINE AllInPlace == state'[RunCtrl] # "DOWN" /\ \A a \in Apps : InPlace(a)'
<1>1. SUFFICES ASSUME RunCtrl \notin crashed', Undisturbed' PROVE AllInPlace
  BY DEF PlaceInv
<1>2. RunCtrl \notin crashed /\ Undisturbed /\ \A s : ~ForceState(s)
  BY <1>1, HistoryGrows
<1>3. state[RunCtrl] # "DOWN" /\ \A a \in Apps : InPlace(a)
  BY <1>2 DEF PlaceInv
<1>4. /\ state \in [Processes -> States] /\ Apps \subseteq Processes
      /\ RunCtrl \in Processes /\ RunCtrl \notin Apps /\ Trigger \in Apps
      /\ Processes = Apps \cup {RunCtrl}
      /\ client \in [Apps -> {"none", "found", "dead"}]
  BY RunControlAssumption DEF TypeOK, Processes, Apps
<1>5. handler # "none" => handler # "HALT" /\ Accepts(RunControlTable, state[RunCtrl], handler)
  BY <1>2 DEF StageInv, Undisturbed
<1>6. \A a \in Apps : Place(a) # "DOWN"
  <2> TAKE a \in Apps
  <2>1. Believed(state[RunCtrl], a) # "DOWN"
    BY <1>3 DEF Believed
  <2>2. handler # "none" => Believed(Target(RunControlTable, state[RunCtrl], handler), a) # "DOWN"
    BY <1>5, Follows
  <2> QED BY <2>1, <2>2 DEF Place
<1>7. ASSUME NEW a \in Apps, state'[a] = state[a], client'[a] = client[a], Place(a)' = Place(a),
             a \in crashed' <=> a \in crashed,
             state'[RunCtrl] = "VOID" /\ (handler' = "none" \/ a \in Todo')
               <=> state[RunCtrl] = "VOID" /\ (handler = "none" \/ a \in Todo)
      PROVE  InPlace(a)'
  BY <1>3, <1>7 DEF InPlace
<1>8. CASE BeginCreate
  <2>1. /\ handler = "none" /\ handler' = "CREATE" /\ state' = state /\ crashed' = crashed
        /\ state[RunCtrl] = "VOID"
        /\ stages' = <<Stage("CREATE", Apps)>> /\ client' = [a \in Apps |-> "none"]
    BY <1>8, RunControlSteps DEF BeginCreate, faults
  <2>2. Todo' = Apps
    BY <2>1 DEF Todo, Called, Stage
  <2>3. ASSUME NEW a \in Apps PROVE InPlace(a)'
    <3>1. client[a] = "none" /\ client'[a] = "none"
      BY <1>3, <2>1 DEF InPlace
    <3>2. Place(a)' = Place(a)
      BY <2>1, <2>2 DEF Place
    <3> QED BY <1>7, <2>1, <2>2, <3>1, <3>2
  <2> QED BY <1>3, <2>1, <2>3
<1>9. ASSUME NEW c \in Commands, Begin(c) PROVE AllInPlace
  <2>1. /\ handler = "none" /\ handler' = c /\ c # "CREATE" /\ UNCHANGED <<state, client, crashed>>
        /\ stages' = Program(c) /\ halted' = (halted \/ c = "HALT")
        /\ Accepts(RunControlTable, state[RunCtrl], c)
    BY <1>9 DEF Begin
  <2>2. c \in Handlers \ {"CREATE"} /\ c # "none" /\ c # "HALT" /\ state[RunCtrl] # "VOID"
    BY <1>1, <2>1, RunControlSteps DEF Handlers, Undisturbed
  <2>3. Todo' = {a \in Discovered(Apps) : Rank(c, a) > 0}
    BY <2>1, <2>2, ProgramInOrder DEF Todo
  <2>4. ASSUME NEW a \in Apps PROVE InPlace(a)'
    <3>1. client[a] # "none"
      BY <1>3, <2>2 DEF InPlace
    <3>2. a \in Todo' <=> Rank(c, a) > 0
      BY <2>3, <3>1 DEF Discovered
    <3>3. Place(a) = Believed(state[RunCtrl], a)
      BY <2>1 DEF Place
    <3>4. Place(a)' = Place(a)
      <4>1. CASE Rank(c, a) > 0
        BY <2>1, <3>2, <3>3, <4>1 DEF Place
      <4>2. CASE Rank(c, a) = 0
        <5>1. Believed(Target(RunControlTable, state[RunCtrl], c), a) = Believed(state[RunCtrl], a)
          BY <2>1, <2>2, <4>2, Follows
        <5> QED BY <2>1, <2>2, <3>2, <3>3, <4>2, <5>1 DEF Place
      <4> QED BY <4>1, <4>2, RankType
    <3> QED BY <1>7, <2>1, <2>2, <3>4
  <2> QED BY <1>3, <2>1, <2>4
<1>10. CASE Call
  BY <1>2, <1>10, PlaceCall
<1>11. CASE End
  <2>1. /\ handler # "none" /\ handler' = "none" /\ stages = << >> /\ stages' = << >>
        /\ UNCHANGED <<client, crashed>>
        /\ state' = [state EXCEPT ![RunCtrl] = Target(RunControlTable, @, handler)]
    BY <1>11 DEF End, faults
  <2>2. state'[RunCtrl] = Target(RunControlTable, state[RunCtrl], handler)
        /\ \A a \in Apps : state'[a] = state[a]
    BY <1>4, <2>1
  <2>3. state'[RunCtrl] # "DOWN" /\ state'[RunCtrl] # "VOID"
    BY <1>5, <2>1, <2>2, RunControlSteps
  <2>4. Todo = {} /\ Todo' = {}
    BY <2>1, NoCalls DEF Todo
  <2>5. ASSUME NEW a \in Apps PROVE InPlace(a)'
    <3>1. Place(a)' = Place(a)
      BY <2>1, <2>2, <2>4 DEF Place
    <3> QED BY <1>7, <2>1, <2>2, <2>3, <2>4, <3>1
  <2> QED BY <2>3, <2>5
<1>12. ASSUME NEW p \in Processes, Crash(p) PROVE AllInPlace
  <2>1. /\ p # RunCtrl /\ p \in Apps /\ crashed' = crashed \cup {p}
        /\ UNCHANGED <<handler, stages, client>>
        /\ state' = [state EXCEPT ![p] = "DOWN"]
    BY <1>1, <1>4, <1>12 DEF Crash, Forget
  <2>2. state'[p] = "DOWN" /\ \A q \in Processes \ {p} : state'[q] = state[q]
    BY <1>4, <2>1
  <2>3. ASSUME NEW a \in Apps PROVE InPlace(a)'
    <3>1. Place(a)' = Place(a) /\ Todo' = Todo /\ state'[RunCtrl] = state[RunCtrl]
      BY <1>4, <2>1, <2>2 DEF Place, Todo
    <3>2. CASE a = p
      BY <1>3, <2>1, <2>2, <3>1, <3>2 DEF InPlace, Behind
    <3>3. CASE a # p
      BY <1>4, <1>7, <2>1, <2>2, <3>1, <3>3
    <3> QED BY <3>2, <3>3
  <2> QED BY <1>3, <1>4, <2>1, <2>2, <2>3
<1>13. ASSUME NEW p \in Processes, Respawn(p) PROVE AllInPlace
  <2>1. /\ p # RunCtrl /\ p \in Apps /\ state[p] = "DOWN"
        /\ UNCHANGED <<handler, stages, client, crashed>>
        /\ state' = [state EXCEPT ![p] = "VOID"]
    BY <1>3, <1>4, <1>13 DEF Respawn, faults
  <2>2. state'[p] = "VOID" /\ \A q \in Processes \ {p} : state'[q] = state[q]
    BY <1>4, <2>1
  <2>3. ASSUME NEW a \in Apps PROVE InPlace(a)'
    <3>1. Place(a)' = Place(a) /\ Todo' = Todo /\ state'[RunCtrl] = state[RunCtrl]
      BY <1>4, <2>1, <2>2 DEF Place, Todo
    <3>2. CASE a = p
      BY <1>3, <1>6, <2>1, <2>2, <3>1, <3>2 DEF InPlace, Behind
    <3>3. CASE a # p
      BY <1>4, <1>7, <2>1, <2>2, <3>1, <3>3
    <3> QED BY <3>2, <3>3
  <2> QED BY <1>3, <1>4, <2>1, <2>2, <2>3
<1>14. CASE PostNowhere
  <2>1. /\ state[Trigger] = "RUNNING" /\ publisher # "live"
        /\ UNCHANGED <<handler, stages, client, crashed>>
        /\ state' = [state EXCEPT ![Trigger] = "DOWN"]
    BY <1>14 DEF PostNowhere, faults
  <2>2. Trigger \notin Complete
    BY <1>2, <2>1 DEF ResourceInv, Undisturbed, Ready
  <2>3. state'[Trigger] = "DOWN" /\ \A q \in Processes \ {Trigger} : state'[q] = state[q]
    BY <1>4, <2>1
  <2>4. ASSUME NEW a \in Apps PROVE InPlace(a)'
    <3>1. Place(a)' = Place(a) /\ Todo' = Todo /\ state'[RunCtrl] = state[RunCtrl]
      BY <1>4, <2>1, <2>3 DEF Place, Todo
    <3>2. CASE a = Trigger
      BY <1>3, <2>1, <2>2, <2>3, <3>1, <3>2 DEF InPlace, Behind
    <3>3. CASE a # Trigger
      BY <1>4, <1>7, <2>1, <2>3, <3>1, <3>3
    <3> QED BY <3>2, <3>3
  <2> QED BY <1>3, <1>4, <2>3, <2>4
<1>15. CASE UNCHANGED vars
  <2>1. UNCHANGED <<state, handler, stages, client, crashed>>
    BY <1>15 DEF vars, faults
  <2>2. ASSUME NEW a \in Apps PROVE InPlace(a)'
    <3>1. Place(a)' = Place(a) /\ Todo' = Todo
      BY <2>1 DEF Place, Todo
    <3> QED BY <1>7, <2>1, <3>1
  <2> QED BY <1>3, <2>1, <2>2
<1>16. ASSUME NEW b \in Apps, NeverReturns(b) PROVE AllInPlace
  <2>1. UNCHANGED <<state, handler, stages, client, crashed>>
    BY <1>16 DEF NeverReturns
  <2>2. ASSUME NEW a \in Apps PROVE InPlace(a)'
    <3>1. Place(a)' = Place(a) /\ Todo' = Todo
      BY <2>1 DEF Place, Todo
    <3> QED BY <1>7, <2>1, <3>1
  <2> QED BY <1>3, <2>1, <2>2
<1> QED BY <1>2, <1>8, <1>9, <1>10, <1>11, <1>12, <1>13, <1>14, <1>15, <1>16 DEF Next

-----------------------------------------------------------------------------
(***************************************************************************)
(* Theorems.                                                               *)
(***************************************************************************)
\* Every variable keeps its type, and the calls of a handler are made in its
\* order to everybody they are for (exRunControl.cxx:264-431).
THEOREM StagesHold == Spec => [](TypeOK /\ StageInv)
<1>1. Init => TypeOK /\ StageInv
  BY TypeInit, StageInit
<1>2. TypeOK /\ StageInv /\ [Next]_vars => (TypeOK /\ StageInv)'
  BY TypeNext, StageNext
<1> QED BY <1>1, <1>2, PTL DEF Spec

\* Every variable keeps its type: no process is ever in a state that its
\* tables do not know (fsm::processCommand, fsm.cc:70-100).
THEOREM TypeCorrect == Spec => []TypeOK
BY StagesHold, PTL

\* What an application holds follows its state, whatever is commanded, forced
\* or left out of a configuration and whoever dies.
THEOREM ResourceInvariant == Spec => []ResourceInv
<1>1. Init => ResourceInv
  BY ResourceInit
<1>2. TypeOK /\ StageInv /\ ResourceInv /\ [Next]_vars => ResourceInv'
  BY ResourceNext
<1> QED BY <1>1, <1>2, StagesHold, PTL DEF Spec

\* A server has senders exactly while it is configured or running, and a
\* builder in one of these states is listening (exServer.cxx:51-147 and 293-305,
\* exBuilder.cxx:40-117).
THEOREM ResourcesMatchStatesHolds == Spec => []ResourcesMatchStates
<1>1. ResourceInv => ResourcesMatchStates
  BY DEF ResourceInv, ResourcesMatchStates, Ready
<1> QED BY <1>1, ResourceInvariant, PTL

\* Every application is where the run control believes it to be, or will be
\* once its handler has ended, if it has not yet called it.
THEOREM PlaceInvariant ==
  ASSUME RunCtrl \in Complete PROVE Spec => []PlaceInv
<1>1. Init => PlaceInv
  BY PlaceInit
<1>2. TypeOK /\ StageInv /\ ResourceInv /\ PlaceInv /\ [Next]_vars => PlaceInv'
  BY PlaceNext
<1> QED BY <1>1, <1>2, StagesHold, ResourceInvariant, PTL DEF Spec

\* Between two commands the run control is right about every application that
\* has not died and has a complete configuration, although it looks at no
\* answer (exRunControl.cxx:289-431); the others wait where they disturb nobody.
THEOREM StatesAgreeHolds ==
  ASSUME RunCtrl \in Complete PROVE Spec => []StatesAgree
<1>1. PlaceInv => StatesAgree
  <2> SUFFICES ASSUME PlaceInv, handler = "none", RunCtrl \notin crashed, Undisturbed,
                      NEW a \in Apps
               PROVE  IF a \in crashed \/ a \notin Complete
                        THEN state[a] \in Behind(a) \cup {Expected(a)}
                        ELSE state[a] = Expected(a)
    BY DEF StatesAgree
  <2>1. Place(a) = Expected(a)
    BY DEF Place, Believed, Expected
  <2> QED BY <2>1 DEF PlaceInv, InPlace
<1> QED BY <1>1, PlaceInvariant, PTL

\* In a run of which no process has died the builders listen, the servers have
\* their senders and the trigger its publisher, where the configuration is
\* complete.
THEOREM RunIsRealHolds ==
  ASSUME RunCtrl \in Complete PROVE Spec => []RunIsReal
<1>1. TypeOK /\ ResourceInv /\ PlaceInv => RunIsReal
  <2> SUFFICES ASSUME TypeOK, ResourceInv, PlaceInv, handler = "none",
                      state[RunCtrl] = "RUNNING", crashed = {}, Undisturbed
               PROVE  /\ \A a \in Apps \cap Complete : state[a] = "RUNNING"
                      /\ Builders \cap Complete \subseteq bound
                      /\ senders = Servers \cap Complete
                      /\ Trigger \in Complete => publisher = "live"
    BY DEF RunIsReal
  <2>1. ASSUME NEW a \in Apps \cap Complete PROVE state[a] = "RUNNING"
    <3>1. Place(a) = "RUNNING"
      BY DEF Place, Believed
    <3> QED BY <3>1 DEF PlaceInv, InPlace
  <2>2. Builders \subseteq Apps /\ Servers \subseteq Apps /\ Trigger \in Apps
    BY DEF Apps
  <2> QED BY <2>1, <2>2 DEF ResourceInv, Ready, Undisturbed
<1> QED BY <1>1, StagesHold, ResourceInvariant, PlaceInvariant, PTL

-----------------------------------------------------------------------------
(***************************************************************************)
(* The run control keeps the order of RunOrder.                            *)
(***************************************************************************)
Up(apps) == {a \in apps \cap Complete : state[a] = "RUNNING"}

\* In a handler of a run control that nothing has disturbed: who has been
\* called is where the handler takes it, who has not is where it was.
LEMMA Progress ==
  ASSUME StageInv, PlaceInv, handler # "none", crashed = {}, Undisturbed
  PROVE  LET r == state[RunCtrl]
             t == Target(RunControlTable, r, handler)
         IN  /\ \/ handler = "CREATE" /\ r = "VOID" /\ t = "CREATED"
                \/ handler = "INITIALISE" /\ r = "CREATED" /\ t = "INITIALISED"
                \/ handler = "CONFIGURE" /\ r \in {"INITIALISED", "CONFIGURED"} /\ t = "CONFIGURED"
                \/ handler = "START" /\ r = "CONFIGURED" /\ t = "RUNNING"
                \/ handler = "STOP" /\ r = "RUNNING" /\ t = "CONFIGURED"
             /\ \A a \in Apps :
                  /\ a \in Todo => state[a] \in Behind(a) \cup {Believed(r, a)}
                  /\ a \notin Todo => state[a] \in Behind(a) \cup {Believed(t, a)}
                  /\ a \in Complete =>
                       state[a] = IF a \in Todo THEN Believed(r, a) ELSE Believed(t, a)
<1> DEFINE r == state[RunCtrl]  t == Target(RunControlTable, r, handler)
<1>1. Accepts(RunControlTable, r, handler) /\ handler # "HALT"
  BY DEF StageInv, Undisturbed
<1>2. \/ handler = "CREATE" /\ r = "VOID" /\ t = "CREATED"
      \/ handler = "INITIALISE" /\ r = "CREATED" /\ t = "INITIALISED"
      \/ handler = "CONFIGURE" /\ r \in {"INITIALISED", "CONFIGURED"} /\ t = "CONFIGURED"
      \/ handler = "START" /\ r = "CONFIGURED" /\ t = "RUNNING"
      \/ handler = "STOP" /\ r = "RUNNING" /\ t = "CONFIGURED"
  BY <1>1, RunControlSteps
<1>3. ASSUME NEW a \in Apps
      PROVE  /\ a \in Todo => state[a] \in Behind(a) \cup {Believed(r, a)}
             /\ a \notin Todo => state[a] \in Behind(a) \cup {Believed(t, a)}
             /\ a \in Complete => state[a] = IF a \in Todo THEN Believed(r, a) ELSE Believed(t, a)
  BY DEF PlaceInv, InPlace, Place
<1> QED BY <1>2, <1>3

\* START and STOP in their order.
LEMMA InTurn ==
  ASSUME TypeOK, StageInv, ResourceInv, PlaceInv, crashed = {}, Undisturbed,
         NEW a \in Apps, Calls(a), handler # "none"
  PROVE  /\ Current = "CONFIGURE" /\ a \in Servers => Up(Builders) = {} /\ Up(Servers) = {}
         /\ Current = "START" /\ a \in Builders =>
              /\ registered = Servers \cap Complete /\ Up(Servers) = {}
              /\ state[Trigger] # "RUNNING"
         /\ Current = "START" /\ a \in Servers =>
              Up(Builders) = Builders \cap Complete /\ state[Trigger] # "RUNNING"
         /\ Current = "START" /\ a = Trigger =>
              Up(Builders) = Builders \cap Complete /\ Up(Servers) = Servers \cap Complete
         /\ Current = "STOP" /\ a \in Servers => state[Trigger] # "RUNNING"
         /\ Current = "STOP" /\ a \in Builders =>
              Up(Servers) = {} /\ state[Trigger] # "RUNNING"
<1> DEFINE r == state[RunCtrl]  t == Target(RunControlTable, r, handler)
<1>1. stages \in Seq(StageSet) /\ InOrder(stages, handler)
  BY DEF TypeOK, StageSet, StageInv
<1>2. /\ a \in Todo /\ Current = CommandFor(handler, a) /\ Rank(handler, a) > 0
      /\ \A b \in Todo : Rank(handler, a) <= Rank(handler, b)
  BY <1>1, CallTakesOne
<1>3. /\ Builders \subseteq Apps /\ Servers \subseteq Apps /\ Trigger \in Apps
      /\ Builders \cap Servers = {} /\ Trigger \notin Builders \cup Servers
  BY RunControlAssumption DEF Apps
<1>4. /\ \/ handler = "CREATE" /\ r = "VOID" /\ t = "CREATED"
         \/ handler = "INITIALISE" /\ r = "CREATED" /\ t = "INITIALISED"
         \/ handler = "CONFIGURE" /\ r \in {"INITIALISED", "CONFIGURED"} /\ t = "CONFIGURED"
         \/ handler = "START" /\ r = "CONFIGURED" /\ t = "RUNNING"
         \/ handler = "STOP" /\ r = "RUNNING" /\ t = "CONFIGURED"
      /\ \A b \in Apps :
           /\ b \in Todo => state[b] \in Behind(b) \cup {Believed(r, b)}
           /\ b \notin Todo => state[b] \in Behind(b) \cup {Believed(t, b)}
           /\ b \in Complete =>
                state[b] = IF b \in Todo THEN Believed(r, b) ELSE Believed(t, b)
  BY Progress
<1> HIDE DEF r, t
<1>5. \A b \in Apps : r # "VOID" /\ Rank(handler, a) < Rank(handler, b) => b \in Todo
  <2>1. \A b \in Apps : r # "VOID" => client[b] # "none"
    BY DEF PlaceInv, InPlace, r
  <2> QED BY <1>2, <2>1 DEF StageInv
<1>6. \A b \in Apps : Rank(handler, b) < Rank(handler, a) => b \notin Todo
  BY <1>2, RankType
<1>7. CASE handler = "CONFIGURE"
  <2>1. \A b \in Apps : state[b] # "RUNNING"
    BY <1>4, <1>7 DEF Believed, Behind
  <2> QED BY <1>2, <1>3, <1>7, <2>1 DEF Up, CommandFor
<1>8. CASE handler = "START"
  <2>1. r = "CONFIGURED" /\ t = "RUNNING" /\ Current = "START"
    BY <1>2, <1>4, <1>8 DEF CommandFor
  <2>2. \A b \in Apps : Believed(r, b) = "CONFIGURED" /\ Believed(t, b) = "RUNNING"
    BY <2>1 DEF Believed
  <2>3. /\ \A b \in Builders : Rank(handler, b) = 1
        /\ \A b \in Servers : Rank(handler, b) = 2
        /\ Rank(handler, Trigger) = 3
    BY <1>3, <1>8 DEF Rank
  <2>4. \A b \in Apps : /\ b \in Todo => state[b] # "RUNNING"
                        /\ b \notin Todo /\ b \in Complete => state[b] = "RUNNING"
                        /\ b \in Complete => state[b] \in Ready
    BY <1>4, <2>2 DEF Ready, Behind
  <2>5. CASE a \in Builders
    <3>1. Trigger \in Todo /\ \A b \in Servers : b \in Todo
      BY <1>3, <1>5, <2>1, <2>3, <2>5
    <3>2. registered = Servers \cap Complete
      <4>1. senders = Servers \cap Complete
        BY <1>3, <2>4 DEF ResourceInv
      <4> QED BY <4>1 DEF ResourceInv, TypeOK
    <3> QED BY <1>3, <2>1, <2>4, <2>5, <3>1, <3>2 DEF Up
  <2>6. CASE a \in Servers
    <3>1. Trigger \in Todo /\ \A b \in Builders : b \notin Todo
      BY <1>3, <1>5, <1>6, <2>1, <2>3, <2>6
    <3> QED BY <1>3, <2>1, <2>4, <2>6, <3>1 DEF Up
  <2>7. CASE a = Trigger
    <3>1. \A b \in Builders \cup Servers : b \notin Todo
      BY <1>3, <1>6, <2>3, <2>7
    <3> QED BY <1>3, <2>1, <2>4, <2>7, <3>1 DEF Up
  <2> QED BY <2>5, <2>6, <2>7, TableOf
<1>9. CASE handler = "STOP"
  <2>1. r = "RUNNING" /\ t = "CONFIGURED" /\ Current = "STOP"
    BY <1>2, <1>4, <1>9 DEF CommandFor
  <2>2. \A b \in Apps : b \notin Todo => state[b] # "RUNNING"
    BY <1>4, <2>1 DEF Believed, Behind
  <2>3. /\ Rank(handler, Trigger) = 1
        /\ \A b \in Servers : Rank(handler, b) = 2
        /\ \A b \in Builders : Rank(handler, b) = 3
    BY <1>3, <1>9 DEF Rank
  <2>4. a \in Servers => Trigger \notin Todo
    BY <1>3, <1>6, <2>3
  <2>5. a \in Builders => Trigger \notin Todo /\ \A b \in Servers : b \notin Todo
    BY <1>3, <1>6, <2>3
  <2> QED BY <1>3, <2>1, <2>2, <2>4, <2>5 DEF Up
<1>10. CASE handler \in {"CREATE", "INITIALISE"}
  BY <1>2, <1>3, <1>10 DEF CommandFor
<1> QED BY <1>4, <1>7, <1>8, <1>9, <1>10

LEMMA Moves ==
  ASSUME NEW a \in Apps, NEW s, NEW c, Accepts(Table(a), s, c), c # "HALT"
  PROVE  LET t == Target(Table(a), s, c) IN
         /\ t = "RUNNING" <=> c = "START"
         /\ s = "RUNNING" <=> c = "STOP"
<1>1. CASE a \in Servers
  BY <1>1, TableOf, ServerSteps
<1>2. CASE a \notin Servers
  BY <1>2, TableOf, SimpleSteps
<1> QED BY <1>1, <1>2

\* One call is a step of RunOrder, or none.
LEMMA OrderCall ==
  ASSUME TypeOK, StageInv, ResourceInv, PlaceInv, Call, crashed = {}, Undisturbed
  PROVE  Order!Next \/ UNCHANGED Order!vars
<1>1. PICK a \in Apps :
        /\ Calls(a)
        /\ state' \in [Processes -> States]
        /\ \A p \in Processes \ {a} : state'[p] = state[p]
        /\ \/ Discover(a)
           \/ CallInVain(a)
           \/ a \in Builders /\ (BuilderConfigure(a) \/ BuilderOther(a))
           \/ a \in Servers /\ (ServerConfigure(a) \/ ServerHalt(a) \/ ServerOther(a))
           \/ a = Trigger /\ (TriggerConfigure \/ TriggerHalt \/ TriggerOther)
  BY CallCases
<1>2. /\ state \in [Processes -> States] /\ Apps \subseteq Processes /\ a \in Processes
      /\ Builders \subseteq Apps /\ Servers \subseteq Apps /\ Trigger \in Apps
      /\ Builders \cap Servers = {} /\ Trigger \notin Builders \cup Servers
  BY RunControlAssumption DEF TypeOK, Processes, Apps
<1>3. stages \in Seq(StageSet) /\ InOrder(stages, handler) /\ handler # "none" /\ handler # "HALT"
  BY <1>1 DEF TypeOK, StageSet, StageInv, Calls, Undisturbed
<1>4. Current # "HALT" /\ (Current = "CREATE" => handler = "CREATE")
  BY <1>1, <1>3, CallTakesOne DEF CommandFor
<1>5. ASSUME UNCHANGED registered, state'[a] = "RUNNING" <=> state[a] = "RUNNING"
      PROVE  UNCHANGED Order!vars
  <2>1. \A b \in Apps : state'[b] = "RUNNING" <=> state[b] = "RUNNING"
    BY <1>1, <1>2, <1>5
  <2>2. Up(Builders)' = Up(Builders) /\ Up(Servers)' = Up(Servers)
        /\ (state'[Trigger] = "RUNNING") = (state[Trigger] = "RUNNING")
    BY <1>2, <2>1 DEF Up
  <2> QED BY <1>5, <2>2 DEF Order!vars, Up
<1>6. ASSUME UNCHANGED registered, a \notin Complete, a # Trigger PROVE UNCHANGED Order!vars
  <2>1. Up(Builders)' = Up(Builders) /\ Up(Servers)' = Up(Servers)
        /\ (state'[Trigger] = "RUNNING") = (state[Trigger] = "RUNNING")
    BY <1>1, <1>2, <1>6 DEF Up
  <2> QED BY <1>6, <2>1 DEF Order!vars, Up
<1>7. ASSUME Executes(a, FALSE)
      PROVE  /\ state'[a] = "RUNNING" <=> Current = "START"
             /\ state[a] = "RUNNING" <=> Current = "STOP"
  <2>1. /\ Accepts(Table(a), state[a], Current)
        /\ state'[a] = Target(Table(a), state[a], Current)
    BY <1>2, <1>7 DEF Executes, ProcessCommand
  <2> QED BY <1>4, <2>1, Moves
<1>8. CASE Discover(a)
  <2>1. state'[a] = ProcessCommand(Table(a), state[a], "CREATE", FALSE) /\ UNCHANGED registered
    BY <1>2, <1>8 DEF Discover, inner
  <2>2. state'[a] = "RUNNING" <=> state[a] = "RUNNING"
    BY <2>1, Moves DEF ProcessCommand
  <2> QED BY <1>5, <2>1, <2>2
<1>9. CASE CallInVain(a)
  BY <1>5, <1>9 DEF CallInVain, inner
<1>10. CASE a \in Builders /\ BuilderConfigure(a)
  <2>1. /\ Current = "CONFIGURE" /\ UNCHANGED registered
        /\ Accepts(Table(a), state[a], Current)
        /\ state'[a] \in {state[a], Target(Table(a), state[a], Current)}
    BY <1>2, <1>10 DEF BuilderConfigure, Executes, ProcessCommand
  <2>2. state'[a] # "RUNNING" /\ state[a] # "RUNNING"
    BY <2>1, Moves
  <2> QED BY <1>5, <2>1, <2>2
<1>11. CASE a \in Builders /\ BuilderOther(a)
  <2>1. /\ UNCHANGED registered
        /\ state'[a] = "RUNNING" <=> Current = "START"
        /\ state[a] = "RUNNING" <=> Current = "STOP"
    BY <1>7, <1>11 DEF BuilderOther, inner
  <2>2. CASE a \in Complete /\ Current = "START"
    <3>1. /\ Up(Builders)' = Up(Builders) \cup {a} /\ Up(Servers)' = Up(Servers)
          /\ (state'[Trigger] = "RUNNING") = (state[Trigger] = "RUNNING")
      BY <1>1, <1>2, <1>11, <2>1, <2>2 DEF Up
    <3>2. registered = Servers \cap Complete /\ Up(Servers) = {} /\ state[Trigger] # "RUNNING"
      BY <1>1, <1>3, <1>11, <2>2, InTurn
    <3>3. Order!StartBuilder(a)
      BY <2>1, <3>1, <3>2 DEF Order!StartBuilder, Up
    <3> QED BY <1>11, <2>2, <3>3 DEF Order!Next
  <2>3. CASE a \in Complete /\ Current = "STOP"
    <3>1. /\ Up(Builders)' = Up(Builders) \ {a} /\ Up(Servers)' = Up(Servers)
          /\ (state'[Trigger] = "RUNNING") = (state[Trigger] = "RUNNING")
      BY <1>1, <1>2, <1>11, <2>1, <2>3 DEF Up
    <3>2. Up(Servers) = {} /\ state[Trigger] # "RUNNING"
      BY <1>1, <1>3, <1>11, <2>3, InTurn
    <3>3. Order!StopBuilder(a)
      BY <2>1, <3>1, <3>2 DEF Order!StopBuilder, Up
    <3> QED BY <1>11, <2>3, <3>3 DEF Order!Next
  <2>4. CASE a \notin Complete \/ Current \notin {"START", "STOP"}
    BY <1>2, <1>5, <1>6, <1>11, <2>1, <2>4
  <2> QED BY <2>2, <2>3, <2>4
<1>12. CASE a \in Servers /\ ServerConfigure(a)
  <2>0. /\ Current = "CONFIGURE"
        /\ registered' = IF a \in Complete THEN registered \cup {a} ELSE registered
        /\ Accepts(Table(a), state[a], Current)
        /\ state'[a] \in {state[a], Target(Table(a), state[a], Current)}
    BY <1>2, <1>12 DEF ServerConfigure, Executes, ProcessCommand
  <2>1. /\ Current = "CONFIGURE" /\ state'[a] # "RUNNING" /\ state[a] # "RUNNING"
        /\ registered' = IF a \in Complete THEN registered \cup {a} ELSE registered
    BY <2>0, Moves
  <2>2. CASE a \in Complete
    <3>1. /\ Up(Builders)' = Up(Builders) /\ Up(Servers)' = Up(Servers)
          /\ (state'[Trigger] = "RUNNING") = (state[Trigger] = "RUNNING")
      BY <1>1, <1>2, <1>12, <2>1 DEF Up
    <3>2. Up(Builders) = {} /\ Up(Servers) = {}
      BY <1>1, <1>3, <1>12, <2>1, InTurn
    <3>3. Order!Register(a)
      BY <2>1, <2>2, <3>1, <3>2 DEF Order!Register, Up
    <3> QED BY <1>12, <2>2, <3>3 DEF Order!Next
  <2>3. CASE a \notin Complete
    BY <1>5, <2>1, <2>3
  <2> QED BY <2>2, <2>3
<1>13. CASE a \in Servers /\ ServerOther(a)
  <2>1. UNCHANGED registered /\ Current \in {"INITIALISE", "START", "STOP"}
    BY <1>13 DEF ServerOther, inner
  <2>2. CASE a \notin Complete
    BY <1>2, <1>6, <1>13, <2>1, <2>2
  <2>3. CASE a \in Complete
    <3>1. /\ state'[a] = "RUNNING" <=> Current = "START"
          /\ state[a] = "RUNNING" <=> Current = "STOP"
      BY <1>7, <1>13, <2>1, <2>3 DEF ServerOther, NoSubscriber
    <3>2. CASE Current = "START"
      <4>1. /\ Up(Builders)' = Up(Builders) /\ Up(Servers)' = Up(Servers) \cup {a}
            /\ (state'[Trigger] = "RUNNING") = (state[Trigger] = "RUNNING")
        BY <1>1, <1>2, <1>13, <2>3, <3>1, <3>2 DEF Up
      <4>2. Up(Builders) = Builders \cap Complete /\ state[Trigger] # "RUNNING"
        BY <1>1, <1>3, <1>13, <3>2, InTurn
      <4>3. Order!StartServer(a)
        BY <2>1, <4>1, <4>2 DEF Order!StartServer, Up
      <4> QED BY <1>13, <2>3, <4>3 DEF Order!Next
    <3>3. CASE Current = "STOP"
      <4>1. /\ Up(Builders)' = Up(Builders) /\ Up(Servers)' = Up(Servers) \ {a}
            /\ (state'[Trigger] = "RUNNING") = (state[Trigger] = "RUNNING")
        BY <1>1, <1>2, <1>13, <2>3, <3>1, <3>3 DEF Up
      <4>2. state[Trigger] # "RUNNING"
        BY <1>1, <1>3, <1>13, <3>3, InTurn
      <4>3. Order!StopServer(a)
        BY <2>1, <4>1, <4>2 DEF Order!StopServer, Up
      <4> QED BY <1>13, <2>3, <4>3 DEF Order!Next
    <3>4. CASE Current = "INITIALISE"
      BY <1>5, <2>1, <3>1, <3>4
    <3> QED BY <2>1, <3>2, <3>3, <3>4
  <2> QED BY <2>2, <2>3
<1>14. CASE a = Trigger /\ (TriggerConfigure \/ TriggerOther)
  <2>1. /\ UNCHANGED registered
        /\ Current \in {"CONFIGURE", "START", "STOP"}
        /\ state'[a] = "RUNNING" <=> Current = "START"
        /\ state[a] = "RUNNING" <=> Current = "STOP"
    BY <1>7, <1>14 DEF TriggerConfigure, TriggerOther, inner
  <2>2. Up(Builders)' = Up(Builders) /\ Up(Servers)' = Up(Servers)
    BY <1>1, <1>2, <1>14 DEF Up
  <2>3. CASE Current = "START"
    <3>1. Up(Builders) = Builders \cap Complete /\ Up(Servers) = Servers \cap Complete
      BY <1>1, <1>3, <1>14, <2>3, InTurn
    <3>2. Order!StartTrigger
      BY <1>14, <2>1, <2>2, <2>3, <3>1 DEF Order!StartTrigger, Up
    <3> QED BY <3>2 DEF Order!Next
  <2>4. CASE Current = "STOP"
    <3>1. Order!StopTrigger
      BY <1>14, <2>1, <2>2, <2>4 DEF Order!StopTrigger, Up
    <3> QED BY <3>1 DEF Order!Next
  <2>5. CASE Current = "CONFIGURE"
    BY <1>5, <2>1, <2>5
  <2> QED BY <2>1, <2>3, <2>4, <2>5
<1>15. ~(a \in Servers /\ ServerHalt(a)) /\ ~TriggerHalt
  BY <1>4 DEF ServerHalt, TriggerHalt
<1> QED BY <1>1, <1>8, <1>9, <1>10, <1>11, <1>12, <1>13, <1>14, <1>15

LEMMA OrderNext ==
  ASSUME TypeOK, StageInv, ResourceInv, PlaceInv, [Next]_vars, crashed' = {}, Undisturbed'
  PROVE  Order!Next \/ UNCHANGED Order!vars
<1>1. crashed = {} /\ Undisturbed /\ \A s : ~ForceState(s)
  BY HistoryGrows
<1>2. /\ state \in [Processes -> States] /\ Apps \subseteq Processes
      /\ Builders \subseteq Apps /\ Servers \subseteq Apps /\ Trigger \in Apps /\ RunCtrl \notin Apps
      /\ Trigger \notin Builders \cup Servers
  BY RunControlAssumption DEF TypeOK, Processes, Apps
<1>3. ASSUME registered' = registered,
             \A a \in Apps : state'[a] = "RUNNING" <=> state[a] = "RUNNING"
      PROVE  UNCHANGED Order!vars
  <2>1. Up(Builders)' = Up(Builders) /\ Up(Servers)' = Up(Servers)
        /\ (state'[Trigger] = "RUNNING") = (state[Trigger] = "RUNNING")
    BY <1>2, <1>3 DEF Up
  <2> QED BY <1>3, <2>1 DEF Order!vars, Up
<1>4. CASE BeginCreate
  BY <1>3, <1>4 DEF BeginCreate, inner
<1>5. ASSUME NEW c \in Commands, Begin(c) PROVE UNCHANGED Order!vars
  BY <1>3, <1>5 DEF Begin, inner
<1>6. CASE Call
  BY <1>1, <1>6, OrderCall
<1>7. CASE End
  BY <1>2, <1>3, <1>7 DEF End, inner
<1>8. ASSUME NEW p \in Processes PROVE ~Crash(p)
  BY DEF Crash
<1>9. ASSUME NEW p \in Processes, Respawn(p) PROVE UNCHANGED Order!vars
  BY <1>2, <1>3, <1>9 DEF Respawn, inner
<1>10. CASE PostNowhere
  <2>1. /\ state'[Trigger] # "RUNNING" /\ registered' = registered
        /\ \A p \in Processes \ {Trigger} : state'[p] = state[p]
    BY <1>2, <1>10 DEF PostNowhere
  <2>2. Up(Builders)' = Up(Builders) /\ Up(Servers)' = Up(Servers)
    BY <1>2, <2>1 DEF Up
  <2>3. Order!StopTrigger
    BY <2>1, <2>2 DEF Order!StopTrigger, Up
  <2> QED BY <2>3 DEF Order!Next
<1>11. CASE UNCHANGED vars
  BY <1>3, <1>11 DEF vars, inner
<1>12. ASSUME NEW a \in Apps, NeverReturns(a) PROVE UNCHANGED Order!vars
  BY <1>3, <1>12 DEF NeverReturns, inner
<1> QED BY <1>1, <1>4, <1>5, <1>6, <1>7, <1>8, <1>9, <1>10, <1>11, <1>12 DEF Next

\* Until a process dies or the operator sends HALT or FORCESTATE the run
\* control implements RunOrder, the order that the event builder relies on: the
\* builders before the servers before the trigger at START, the reverse at
\* STOP, and registrations between two runs (exRunControl.cxx:337-403).
THEOREM KeepsOrderHolds ==
  ASSUME RunCtrl \in Complete PROVE Spec => KeepsOrder
<1>1. Init => Order!Init
  BY DEF Init, Order!Init, Processes, Apps
<1>2. TypeOK /\ StageInv /\ ResourceInv /\ PlaceInv /\ [Next]_vars
        => [crashed' = {} /\ Undisturbed' => Order!Next]_(Order!vars)
  BY OrderNext
<1> QED BY <1>1, <1>2, StagesHold, ResourceInvariant, PlaceInvariant, PTL DEF Spec, KeepsOrder
=============================================================================
