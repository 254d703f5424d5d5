-------------------------- MODULE TriggerChainProofs --------------------------
(***************************************************************************)
(* Theorems about TriggerChain, for any servers, clients, sizes of bursts, *)
(* number of runs and lost messages.                                       *)
(*                                                                         *)
(* ThreadInv says who may be running when: no burst is sent outside of a   *)
(* run of all the servers.  OrderInv puts the bursts a server still has to *)
(* read behind what it has published and before what the trigger will send *)
(* next; KnownInv says of all the triggers on their way what SameEvents    *)
(* says of those published.  BacklogInv follows the event numbers of one   *)
(* run in which nothing is lost: the unread bursts of a server join on to  *)
(* one another up to the trigger's own event number, and a client that was *)
(* asked is not far behind.  An NTRG command in a run would change the     *)
(* size of a burst between its post and the advance (~NtrgAnytime).        *)
(***************************************************************************)
EXTENDS TriggerChain, WellFoundedInduction, TLAPS

Bursts == [event : Nat, bx : Nat, ntrg : Nat \ {0}]

ChainType ==
  /\ TypeOK
  /\ ntrg \in Ntrgs \cup {Ntrg} /\ lost \in Nat /\ runs \in Nat
  /\ up \in BOOLEAN /\ leftover \in BOOLEAN
  /\ wire \in [Servers -> Seq(Bursts)]
  /\ burst \in [Servers -> Bursts \cup {NoBurst}]
  /\ \A s \in Servers :
       /\ sstate[s] = "CONFIGURED" => poller[s] = "none"
       /\ poller[s] = "fill" <=> burst[s] # NoBurst
  /\ published \subseteq Nat \X Nat

ThreadInv ==
  /\ tstate # "RUNNING" => thread = "none" /\ ~stopping
  /\ tstate = "RUNNING" => joining = {} /\ \A s \in Servers : sstate[s] = "RUNNING"
  /\ up => joining = {} /\ ~stopping
  /\ \A s \in joining : sstate[s] = "RUNNING"

\* What the trigger sends next starts here.
NextBx == IF thread = "advance" THEN bx + ntrg ELSE bx
NextEvent == IF thread = "advance" THEN event + ntrg ELSE event

OrderInv ==
  \A s \in Servers :
    /\ lastKey[s] < NextBx
    /\ \A i \in DOMAIN wire[s] :
         /\ lastKey[s] < wire[s][i].bx
         /\ wire[s][i].bx + wire[s][i].ntrg <= NextBx
         /\ \A j \in DOMAIN wire[s] : i < j => wire[s][i].bx + wire[s][i].ntrg <= wire[s][j].bx
    /\ poller[s] = "fill" =>
         /\ lastKey[s] < burst[s].bx
         /\ burst[s].bx + burst[s].ntrg <= NextBx
         /\ \A i \in DOMAIN wire[s] : burst[s].bx + burst[s].ntrg <= wire[s][i].bx

\* The triggers of a burst, by key and event number, and those that anybody
\* has been told of.
TriggersOf(b) ==
  {p \in Nat \X Nat : b.bx <= p[1] /\ p[1] < b.bx + b.ntrg /\ p[1] - b.bx = p[2] - b.event}

Known(p) ==
  \/ p \in published
  \/ \E s \in Servers :
       p \in TriggersOf(burst[s]) \/ \E i \in DOMAIN wire[s] : p \in TriggersOf(wire[s][i])

KnownInv ==
  \A p \in Nat \X Nat : Known(p) =>
    /\ p[1] < NextBx
    /\ \A q \in Nat \X Nat : Known(q) /\ p[1] = q[1] => p[2] = q[2]

\* Nothing has been lost and no server has begun a run with unread bursts.
Clean == lost = 0 /\ ~leftover

\* The first event server s has not yet published.
First(s) ==
  IF poller[s] = "fill" THEN burst[s].event
  ELSE IF wire[s] # <<>> THEN wire[s][1].event ELSE NextEvent

\* The bursts of server s join on to one another, up to the trigger's event.
Contiguous(s) ==
  /\ \A i \in DOMAIN wire[s] :
       wire[s][i].event + wire[s][i].ntrg
         = IF i = Len(wire[s]) THEN NextEvent ELSE wire[s][i + 1].event
  /\ poller[s] = "fill" =>
       burst[s].event + burst[s].ntrg
         = IF wire[s] = <<>> THEN NextEvent ELSE wire[s][1].event

\* Server s has nothing to do and has published nothing.
Fresh(s) == wire[s] = <<>> /\ poller[s] # "fill" /\ stat[s] = 0

StreamInv ==
  Clean =>
    /\ up /\ tstate = "CONFIGURED" => \A s \in Servers : sstate[s] = "RUNNING" => Fresh(s)
    /\ tstate = "RUNNING" =>
         /\ ns0 = 0
         /\ \A s \in Servers : Contiguous(s) /\ stat[s] <= First(s)
         /\ thread = "start" => event = 0 /\ \A s \in Servers : Fresh(s)

\* What asking the clients is for.
LagInv ==
  Clean /\ tstate = "RUNNING" => \A c \in Clients :
    /\ NextEvent - stat[c] <= 3 * ntrg
    /\ thread = "check" /\ c \notin toAsk => event - stat[c] <= 2 * ntrg
    /\ thread = "post" => event - stat[c] <= 2 * ntrg

BacklogInv == StreamInv /\ LagInv

-----------------------------------------------------------------------------
(***************************************************************************)
(* The steps, each with all that it is in SoftTrigger and DataServer.      *)
(***************************************************************************)
LEMMA NtrgPositive ==
  ASSUME ChainType PROVE ntrg \in Nat \ {0}
BY SoftTriggerAssumption DEF ChainType

LEMMA TypeInit == Init => ChainType
<1> SUFFICES ASSUME Init PROVE ChainType
  OBVIOUS
<1> USE DEF Init, TriggerInit, ServerInit
<1>1. TriggerTypeOK
  <2>1. stopping \in BOOLEAN /\ running \in BOOLEAN /\ paused \in BOOLEAN /\ waiting \in BOOLEAN
    BY Zenon
  <2>2. event \in Nat /\ bx \in Nat /\ ntrg \in Nat /\ ns0 \in Nat
    BY SoftTriggerAssumption
  <2> QED BY <2>1, <2>2 DEF TriggerTypeOK
<1>2. ServerTypeOK
  BY DEF ServerTypeOK
<1>3. wire \in [Servers -> Seq(Bursts)] /\ published \subseteq Nat \X Nat
  OBVIOUS
<1> QED BY <1>1, <1>2, <1>3 DEF ChainType, TypeOK

LEMMA TypeNext ==
  ASSUME ChainType, [Next]_vars PROVE ChainType'
<1> USE SoftTriggerAssumption DEF ChainType, TypeOK, TriggerTypeOK, ServerTypeOK,
        shared, trigger, web, server, history, rest
<1>1. CASE BeginRun
  BY <1>1 DEF BeginRun
<1>2. CASE StartTrigger
  <2>1. running' \in BOOLEAN /\ paused' \in BOOLEAN /\ waiting' \in BOOLEAN
    BY <1>2, Zenon DEF StartTrigger, TriggerStart
  <2> QED BY <1>2, <2>1 DEF StartTrigger, TriggerStart
<1>3. CASE StopTrigger
  <2>1. ASSUME NEW halt \in BOOLEAN, TriggerStop(halt), UNCHANGED <<server, history, rest>>, up' = FALSE
        PROVE  ChainType'
    <3>1. halting' \in BOOLEAN
      BY <2>1, Zenon DEF TriggerStop
    <3> QED BY <2>1, <3>1 DEF TriggerStop
  <2> QED BY <1>3, <2>1 DEF StopTrigger
<1>4. CASE Configure
  <2>1. CASE TriggerConfigure /\ UNCHANGED <<server, history, rest>>
    BY <2>1 DEF TriggerConfigure
  <2>2. CASE TriggerHalt /\ UNCHANGED <<server, history, rest>>
    BY <2>2 DEF TriggerHalt, Destroy
  <2>3. ASSUME NEW s \in Servers, ServerConfigure(s), UNCHANGED <<trigger, rest>>
        PROVE  ChainType'
    BY <2>3 DEF ServerConfigure
  <2> QED BY <1>4, <2>1, <2>2, <2>3 DEF Configure
<1>5. ASSUME NEW s \in Servers, StartServer(s) PROVE ChainType'
  BY <1>5 DEF StartServer, ServerStart
<1>6. ASSUME NEW s \in Servers, StopServer(s) PROVE ChainType'
  BY <1>6 DEF StopServer, ServerStop
<1>7. CASE Command
  BY SMTT(30), <1>7 DEF Command, Pause, SetNtrg
<1>8. CASE TriggerThread
  <2> USE <1>8 DEF TriggerThread
  <2>1. ASSUME NEW c \in Clients, AskStart(c) PROVE ChainType'
    BY <2>1 DEF AskStart
  <2>2. ASSUME NEW c \in Clients, AskStatus(c) PROVE ChainType'
    BY <2>2 DEF AskStatus
  <2>3. CASE EnterLoop
    BY <2>3 DEF EnterLoop
  <2>4. CASE NextPeriod
    BY <2>4 DEF NextPeriod
  <2>5. CASE Ready
    BY <2>5 DEF Ready
  <2>6. CASE Advance
    BY SMTT(30), <2>6 DEF Advance
  <2>7. ASSUME NEW missed \in SUBSET Servers, Post(missed) PROVE ChainType'
    <3>1. Burst(event, bx, ntrg) \in Bursts
      BY NtrgPositive DEF Burst, Bursts
    <3>2. wire' \in [Servers -> Seq(Bursts)]
      BY <2>7, <3>1 DEF Post
    <3>3. lost' \in Nat
      BY <2>7 DEF Post
    <3> QED BY <2>7, <3>2, <3>3 DEF Post
  <2>8. CASE PostDies
    BY <2>8 DEF PostDies
  <2> QED BY <2>1, <2>2, <2>3, <2>4, <2>5, <2>6, <2>7, <2>8 DEF PublishingThread
<1>9. ASSUME NEW s \in Servers, ServerThread(s) PROVE ChainType'
  <2> USE <1>9 DEF ServerThread
  <2>1. CASE NextPoll(s)
    BY <2>1 DEF NextPoll
  <2>2. CASE PollTimeout(s)
    BY <2>2 DEF PollTimeout
  <2>3. CASE ReceiveBurst(s)
    <3>1. Head(wire[s]) \in Bursts /\ Tail(wire[s]) \in Seq(Bursts)
      BY <2>3 DEF ReceiveBurst
    <3>2. Head(wire[s]) # NoBurst
      BY <3>1 DEF Bursts, NoBurst, Burst
    <3> QED BY <2>3, <3>1, <3>2 DEF ReceiveBurst
  <2>4. CASE FillEvent(s)
    <3> DEFINE b == burst[s]
    <3>1. b \in Bursts \cup {NoBurst}
      OBVIOUS
    <3>2. b.event \in Nat /\ b.bx \in Nat /\ b.ntrg \in Nat
      BY <3>1 DEF Bursts, NoBurst, Burst
    <3>3. Key(b) \in Nat /\ <<Key(b), b.event>> \in Nat \X Nat
      BY SMTT(30), <3>2, TriggerWireAssumption DEF Key
    <3>4. burst'[s] \in Bursts \cup {NoBurst}
      <4>1. CASE b.ntrg = 1
        BY <2>4, <4>1 DEF FillEvent
      <4>2. CASE b.ntrg # 1
        <5>1. b.ntrg # 0
          BY <2>4 DEF FillEvent, Bursts
        <5> QED BY SMTT(30), <2>4, <4>2, <3>1, <3>2 DEF FillEvent, Bursts, Burst
      <4> QED BY <4>1, <4>2
    <3>5. lastKey' \in [Servers -> Nat \cup {-1}] /\ stat' \in [Servers -> Nat]
      BY <2>4, <3>2, <3>3 DEF FillEvent
    <3>6. burst' \in [Servers -> Bursts \cup {NoBurst}]
      BY <2>4, <3>4 DEF FillEvent
    <3>7. published' \subseteq Nat \X Nat
      BY <2>4, <3>3 DEF FillEvent
    <3>8. poller' \in [Servers -> {"none", "loop", "poll", "fill"}]
      BY <2>4 DEF FillEvent
    <3>9. \A r \in Servers : poller'[r] = "fill" <=> burst'[r] # NoBurst
      <4>1. ASSUME b.ntrg # 1 PROVE burst'[s] # NoBurst
        <5>1. b.ntrg - 1 # 0
          BY <3>2, <4>1
        <5> QED BY <2>4, <4>1, <5>1 DEF FillEvent, NoBurst, Burst
      <4> QED BY <2>4, <4>1 DEF FillEvent
    <3> HIDE DEF b
    <3> QED BY <2>4, <3>5, <3>6, <3>7, <3>8, <3>9 DEF FillEvent
  <2> QED BY <2>1, <2>2, <2>3, <2>4 DEF PollThread
<1>10. CASE Joined
  <2>1. CASE TriggerStopped /\ UNCHANGED <<server, history, rest>>
    <3>1. /\ UNCHANGED <<shared, event, ntrg, thread, ns0, toAsk, running, waiting>>
          /\ stopping' = FALSE /\ halting' = FALSE /\ paused' = TRUE
          /\ bx' \in Nat /\ publisher' \in {"live", "deleted"}
          /\ tstate' \in {"CREATED", "CONFIGURED", "DOWN"}
      BY <2>1 DEF TriggerStopped, Destroy
    <3>2. stopping' \in BOOLEAN /\ halting' \in BOOLEAN /\ running' \in BOOLEAN /\ paused' \in BOOLEAN
          /\ waiting' \in BOOLEAN
      BY <3>1
    <3> QED BY <2>1, <3>1, <3>2
  <2>2. ASSUME NEW s \in Servers, ServerStopped(s), UNCHANGED <<trigger, rest>> PROVE ChainType'
    BY <2>2 DEF ServerStopped
  <2> QED BY <1>10, <2>1, <2>2 DEF Joined
<1>11. CASE UNCHANGED vars
  BY <1>11 DEF vars
<1> QED
  BY <1>1, <1>2, <1>3, <1>4, <1>5, <1>6, <1>7, <1>8, <1>9, <1>10, <1>11 DEF Next, RunCommand
-----------------------------------------------------------------------------
(***************************************************************************)
(* Who runs when.                                                          *)
(***************************************************************************)

\* A step of the trigger's thread, but its death in a post, leaves all that the
\* commands change alone (lost may grow), and may only end, in a run, what it
\* has begun.
LEMMA TriggerThreadFrame ==
  ASSUME ChainType, TriggerThread, ~PostDies
  PROVE  /\ UNCHANGED <<web, paused, ntrg, stat, up, server, history, rest>>
         /\ thread # "none"
<1> USE DEF TriggerThread, web, shared
<1>1. ASSUME NEW c \in Clients, AskStart(c) \/ AskStatus(c)
      PROVE  UNCHANGED <<web, paused, ntrg, stat, up>> /\ thread # "none"
  BY <1>1 DEF AskStart, AskStatus
<1>2. CASE EnterLoop \/ NextPeriod \/ Ready \/ Advance
  BY <1>2 DEF EnterLoop, NextPeriod, Ready, Advance
<1>3. ASSUME NEW missed \in SUBSET Servers, Post(missed)
      PROVE  UNCHANGED <<web, paused, ntrg, stat, up>> /\ thread # "none"
  BY <1>3 DEF Post
<1> QED BY <1>1, <1>2, <1>3 DEF PublishingThread

\* A step of a server's poll thread leaves the state machines alone.
LEMMA ServerThreadFrame ==
  ASSUME NEW s \in Servers, ServerThread(s)
  PROVE  /\ UNCHANGED <<trigger, rest, sstate, joining, polling, lost, up>>
         /\ poller[s] # "none"
BY DEF ServerThread, PollThread, NextPoll, PollTimeout, ReceiveBurst, FillEvent, shared

LEMMA ThreadInit == Init => ThreadInv
BY DEF Init, TriggerInit, ServerInit, ThreadInv

LEMMA ThreadNext ==
  ASSUME ChainType, ThreadInv, [Next]_vars PROVE ThreadInv'
<1> USE DEF ThreadInv, shared, trigger, web, server, history, rest
<1>1. CASE BeginRun
  BY <1>1 DEF BeginRun, Stopped, ChainType, TypeOK, ServerTypeOK
<1>2. CASE StartTrigger
  BY <1>2 DEF StartTrigger, TriggerStart
<1>3. CASE StopTrigger
  BY <1>3 DEF StopTrigger, TriggerStop
<1>4. CASE Configure
  BY <1>4 DEF Configure, TriggerConfigure, TriggerHalt, Destroy, ServerConfigure
<1>5. ASSUME NEW s \in Servers, StartServer(s) PROVE ThreadInv'
  BY <1>5 DEF StartServer, ServerStart, ChainType, TypeOK, ServerTypeOK
<1>6. ASSUME NEW s \in Servers, StopServer(s) PROVE ThreadInv'
  BY <1>6 DEF StopServer, ServerStop
<1>7. CASE Command
  BY <1>7 DEF Command, Pause, SetNtrg
<1>8. CASE TriggerThread
  <2>1. CASE PostDies
    BY <1>8, <2>1 DEF TriggerThread, PostDies
  <2> QED BY <1>8, <2>1, TriggerThreadFrame
<1>9. ASSUME NEW s \in Servers, ServerThread(s) PROVE ThreadInv'
  BY <1>9, ServerThreadFrame
<1>10. CASE TriggerStopped /\ UNCHANGED <<server, history, rest>>
  BY <1>10 DEF TriggerStopped, Destroy
<1>11. ASSUME NEW s \in Servers, ServerStopped(s), UNCHANGED <<trigger, rest>> PROVE ThreadInv'
  BY <1>11 DEF ServerStopped, ChainType, TypeOK, ServerTypeOK
<1>12. CASE UNCHANGED vars
  BY <1>12 DEF vars
<1> QED
  BY <1>1, <1>2, <1>3, <1>4, <1>5, <1>6, <1>7, <1>8, <1>9, <1>10, <1>11, <1>12
  DEF Next, RunCommand, Joined

LEMMA Threads == Spec => [](ChainType /\ ThreadInv)
<1>1. Init => ChainType /\ ThreadInv
  BY TypeInit, ThreadInit
<1>2. ChainType /\ ThreadInv /\ [Next]_vars => (ChainType /\ ThreadInv)'
  BY TypeNext, ThreadNext
<1> QED BY <1>1, <1>2, PTL DEF Spec

\* A state of the trigger and the servers has its type, and bursts on their
\* way are of at least one trigger.
THEOREM TypeCorrect == Spec => []TypeOK
<1>1. ChainType => TypeOK
  BY DEF ChainType
<1> QED BY <1>1, Threads, PTL

\* A burst is sent only while every server is running, whatever is lost, how
\* often runs are started and when NTRG commands come: the joins of
\* softTrigger::stop and exServer::stop and the order of the run control.
THEOREM PostsToRunningHolds == Spec => PostsToRunning
<1>1. ASSUME ChainType, ThreadInv, [Next]_vars, thread = "post", thread' = "advance"
      PROVE  \A s \in Servers : sstate[s] = "RUNNING"
  BY <1>1 DEF ChainType, TypeOK, TriggerTypeOK, ThreadInv
<1>2. ChainType /\ ThreadInv /\ [Next]_vars =>
        [thread = "post" /\ thread' = "advance" => \A s \in Servers : sstate[s] = "RUNNING"]_vars
  BY <1>1
<1> QED BY <1>2, Threads, PTL DEF Spec, PostsToRunning

-----------------------------------------------------------------------------
(***************************************************************************)
(* Keys and event numbers.                                                 *)
(***************************************************************************)
\* All the triggers are numbered 0..MaxKey, and the builder's 32 bits keep
\* the numbers apart.
KeysFit == MaxKey < WordSize

RangeInv == NextBx <= MaxKey + 1 /\ (thread = "post" => bx + ntrg <= MaxKey + 1)

\* HALT ends what is said of the keys.
LiveInv == OrderInv /\ KnownInv /\ RangeInv
DataInv == publisher = "live" => LiveInv

LEMMA SmallModulus ==
  ASSUME NEW x \in Nat, NEW w \in Nat \ {0}, x < w PROVE x % w = x
OBVIOUS

LEMMA DataKept ==
  ASSUME LiveInv, UNCHANGED <<wire, burst, lastKey, published>>, NextBx' = NextBx,
         \A s \in Servers : poller'[s] = "fill" => poller[s] = "fill",
         thread' = "post" => bx' + ntrg' <= MaxKey + 1
  PROVE  LiveInv'
<1>1. OrderInv'
  BY DEF LiveInv, OrderInv
<1>2. KnownInv'
  BY DEF LiveInv, KnownInv, Known
<1>3. RangeInv'
  BY DEF LiveInv, RangeInv
<1> QED BY <1>1, <1>2, <1>3 DEF LiveInv

\* What server s still has to read and to publish.
LEMMA BurstTyped ==
  ASSUME ChainType, NEW s \in Servers
  PROVE  /\ burst[s].event \in Nat /\ burst[s].bx \in Nat /\ burst[s].ntrg \in Nat
         /\ wire[s] \in Seq(Bursts)
         /\ \A i \in DOMAIN wire[s] :
              wire[s][i].event \in Nat /\ wire[s][i].bx \in Nat /\ wire[s][i].ntrg \in Nat \ {0}
         /\ lastKey[s] \in Int
<1>1. burst[s] \in Bursts \cup {NoBurst} /\ wire[s] \in Seq(Bursts)
  BY DEF ChainType
<1>2. \A i \in DOMAIN wire[s] : wire[s][i] \in Bursts
  BY <1>1
<1>3. lastKey[s] \in Int
  BY DEF ChainType, TypeOK, ServerTypeOK
<1> QED BY <1>1, <1>2, <1>3 DEF Bursts, NoBurst, Burst

LEMMA ServerConfigureData ==
  ASSUME ChainType, LiveInv, NEW s \in Servers, ServerConfigure(s), UNCHANGED trigger
  PROVE  LiveInv'
<1>1. UNCHANGED <<burst, lastKey, published, poller>> /\ NextBx' = NextBx
  BY DEF ServerConfigure, server, history, trigger, NextBx
<1>2. \A r \in Servers : wire'[r] = IF r = s THEN <<>> ELSE wire[r]
  BY DEF ServerConfigure, ChainType
<1>3. OrderInv'
  BY <1>1, <1>2 DEF LiveInv, OrderInv
<1>4. KnownInv'
  <2>1. \A p : Known(p)' => Known(p)
    BY <1>1, <1>2 DEF Known
  <2> QED BY <1>1, <2>1 DEF LiveInv, KnownInv
<1>5. RangeInv'
  BY <1>1 DEF LiveInv, RangeInv, trigger
<1> QED BY <1>3, <1>4, <1>5 DEF LiveInv

LEMMA ReceiveBurstData ==
  ASSUME ChainType, LiveInv, NEW s \in Servers, ReceiveBurst(s), UNCHANGED trigger
  PROVE  LiveInv'
<1>1. UNCHANGED <<lastKey, published>> /\ NextBx' = NextBx
  BY DEF ReceiveBurst, history, trigger, NextBx
<1>2. /\ burst'[s] = wire[s][1] /\ poller'[s] = "fill" /\ wire[s] # <<>>
      /\ wire'[s] = Tail(wire[s])
      /\ \A r \in Servers \ {s} : burst'[r] = burst[r] /\ wire'[r] = wire[r] /\ poller'[r] = poller[r]
  BY DEF ReceiveBurst, ChainType, TypeOK, ServerTypeOK
<1>3. /\ 1 \in DOMAIN wire[s] /\ Len(wire'[s]) = Len(wire[s]) - 1
      /\ \A i \in DOMAIN wire'[s] : i + 1 \in DOMAIN wire[s] /\ wire'[s][i] = wire[s][i + 1]
      /\ \A i \in DOMAIN wire'[s] : i \in Nat /\ 1 < i + 1
      /\ wire[s] \in Seq(Bursts)
  BY <1>2, BurstTyped
<1>4. OrderInv'
  <2> SUFFICES ASSUME NEW r \in Servers
      PROVE  /\ lastKey[r] < NextBx
             /\ \A i \in DOMAIN wire'[r] :
                  /\ lastKey[r] < wire'[r][i].bx
                  /\ wire'[r][i].bx + wire'[r][i].ntrg <= NextBx
                  /\ \A j \in DOMAIN wire'[r] : i < j => wire'[r][i].bx + wire'[r][i].ntrg <= wire'[r][j].bx
             /\ poller'[r] = "fill" =>
                  /\ lastKey[r] < burst'[r].bx
                  /\ burst'[r].bx + burst'[r].ntrg <= NextBx
                  /\ \A i \in DOMAIN wire'[r] : burst'[r].bx + burst'[r].ntrg <= wire'[r][i].bx
    BY <1>1 DEF OrderInv
  <2>1. CASE r # s
    BY <1>2, <2>1 DEF LiveInv, OrderInv
  <2>2. CASE r = s
    <3>1. /\ lastKey[s] < NextBx
          /\ \A i \in DOMAIN wire[s] :
               /\ lastKey[s] < wire[s][i].bx
               /\ wire[s][i].bx + wire[s][i].ntrg <= NextBx
               /\ \A j \in DOMAIN wire[s] : i < j => wire[s][i].bx + wire[s][i].ntrg <= wire[s][j].bx
      BY DEF LiveInv, OrderInv
    <3>2. ASSUME NEW i \in DOMAIN wire'[s]
          PROVE  /\ lastKey[s] < wire'[s][i].bx
                 /\ wire'[s][i].bx + wire'[s][i].ntrg <= NextBx
                 /\ burst'[s].bx + burst'[s].ntrg <= wire'[s][i].bx
      BY <1>2, <1>3, <3>1
    <3>3. ASSUME NEW i \in DOMAIN wire'[s], NEW j \in DOMAIN wire'[s], i < j
          PROVE  wire'[s][i].bx + wire'[s][i].ntrg <= wire'[s][j].bx
      <4>1. i + 1 \in DOMAIN wire[s] /\ j + 1 \in DOMAIN wire[s] /\ i + 1 < j + 1
        BY <1>3, <3>3
      <4> QED BY <1>3, <3>1, <4>1
    <3>4. lastKey[s] < burst'[s].bx /\ burst'[s].bx + burst'[s].ntrg <= NextBx
      BY <1>2, <1>3, <3>1
    <3> QED BY <2>2, <3>1, <3>2, <3>3, <3>4
  <2> QED BY <2>1, <2>2
<1>5. KnownInv'
  <2>1. ASSUME NEW p, Known(p)' PROVE Known(p)
    <3>1. ASSUME NEW r \in Servers, p \in TriggersOf(burst'[r]) PROVE Known(p)
      BY <1>2, <1>3, <3>1 DEF Known
    <3>2. ASSUME NEW r \in Servers, NEW i \in DOMAIN wire'[r], p \in TriggersOf(wire'[r][i]) PROVE Known(p)
      <4>1. CASE r = s
        <5>1. i + 1 \in DOMAIN wire[s] /\ p \in TriggersOf(wire[s][i + 1])
          BY <1>3, <3>2, <4>1
        <5> QED BY <5>1 DEF Known
      <4>2. CASE r # s
        BY <1>2, <3>2, <4>2 DEF Known
      <4> QED BY <4>1, <4>2
    <3> QED BY <1>1, <2>1, <3>1, <3>2 DEF Known
  <2> QED BY <1>1, <2>1 DEF LiveInv, KnownInv
<1>6. RangeInv'
  BY <1>1 DEF LiveInv, RangeInv, trigger
<1> QED BY <1>4, <1>5, <1>6 DEF LiveInv

LEMMA FillEventData ==
  ASSUME KeysFit, ChainType, LiveInv, NEW s \in Servers, FillEvent(s), UNCHANGED trigger
  PROVE  LiveInv'
<1> DEFINE b == burst[s]
<1>1. UNCHANGED wire /\ NextBx' = NextBx
  BY DEF FillEvent, trigger, NextBx
<1>2. /\ poller[s] = "fill" /\ lastKey'[s] = Key(b)
      /\ published' = published \cup {<<Key(b), b.event>>}
      /\ b.ntrg = 1 => burst'[s] = NoBurst /\ poller'[s] = "loop"
      /\ b.ntrg # 1 => burst'[s] = Burst(b.event + 1, b.bx + 1, b.ntrg - 1)
      /\ \A r \in Servers \ {s} : burst'[r] = burst[r] /\ lastKey'[r] = lastKey[r] /\ poller'[r] = poller[r]
  BY DEF FillEvent, ChainType, TypeOK, ServerTypeOK
<1>3. b.event \in Nat /\ b.bx \in Nat /\ b.ntrg \in Nat \ {0} /\ NextBx \in Nat
  BY SMTT(30), <1>2, NtrgPositive DEF ChainType, TypeOK, TriggerTypeOK, Bursts, NoBurst, Burst, NextBx
<1>0. Key(b) = b.bx
  <2>1. b.bx + b.ntrg <= NextBx /\ NextBx <= MaxKey + 1
    BY <1>2 DEF LiveInv, OrderInv, RangeInv
  <2>2. b.bx < WordSize
    BY <1>3, <2>1, TriggerWireAssumption DEF KeysFit
  <2> QED BY <1>3, <2>2, SmallModulus, TriggerWireAssumption DEF Key
<1> HIDE DEF b
<1>4. OrderInv'
  <2> SUFFICES ASSUME NEW r \in Servers
      PROVE  /\ lastKey'[r] < NextBx
             /\ \A i \in DOMAIN wire[r] :
                  /\ lastKey'[r] < wire[r][i].bx
                  /\ wire[r][i].bx + wire[r][i].ntrg <= NextBx
                  /\ \A j \in DOMAIN wire[r] : i < j => wire[r][i].bx + wire[r][i].ntrg <= wire[r][j].bx
             /\ poller'[r] = "fill" =>
                  /\ lastKey'[r] < burst'[r].bx
                  /\ burst'[r].bx + burst'[r].ntrg <= NextBx
                  /\ \A i \in DOMAIN wire[r] : burst'[r].bx + burst'[r].ntrg <= wire[r][i].bx
    BY <1>1 DEF OrderInv
  <2>1. CASE r # s
    BY <1>2, <2>1 DEF LiveInv, OrderInv
  <2>2. CASE r = s
    <3>1. /\ b.bx + b.ntrg <= NextBx
          /\ \A i \in DOMAIN wire[s] : b.bx + b.ntrg <= wire[s][i].bx
          /\ \A i \in DOMAIN wire[s] :
               /\ wire[s][i].bx + wire[s][i].ntrg <= NextBx
               /\ \A j \in DOMAIN wire[s] : i < j => wire[s][i].bx + wire[s][i].ntrg <= wire[s][j].bx
      BY <1>2 DEF LiveInv, OrderInv, b
    <3>2. b.bx < NextBx /\ \A i \in DOMAIN wire[s] : b.bx < wire[s][i].bx
      BY <1>3, <3>1, BurstTyped
    <3>3. ASSUME poller'[s] = "fill"
          PROVE  b.bx < burst'[s].bx /\ burst'[s].bx + burst'[s].ntrg = b.bx + b.ntrg
      BY <1>2, <1>3, <3>3 DEF Burst
    <3> QED BY <1>0, <1>2, <2>2, <3>1, <3>2, <3>3
  <2> QED BY <2>1, <2>2
<1>5. KnownInv'
  <2>1. \A p \in TriggersOf(burst'[s]) : p \in TriggersOf(b)
    BY <1>2, <1>3 DEF TriggersOf, NoBurst, Burst
  <2>2. <<b.bx, b.event>> \in TriggersOf(b)
    BY <1>3 DEF TriggersOf
  <2>3. \A p : Known(p)' => Known(p)
    BY <1>0, <1>1, <1>2, <2>1, <2>2 DEF Known, b
  <2> QED BY <1>1, <2>3 DEF LiveInv, KnownInv
<1>6. RangeInv'
  BY <1>1 DEF LiveInv, RangeInv, trigger
<1> QED BY <1>4, <1>5, <1>6 DEF LiveInv

LEMMA PostData ==
  ASSUME ChainType, LiveInv, NEW missed \in SUBSET Servers, Post(missed),
         UNCHANGED <<server, history>>
  PROVE  LiveInv'
<1> DEFINE b == Burst(event, bx, ntrg)
<1>1. UNCHANGED <<burst, lastKey, published, poller>>
  BY DEF server, history
<1>2. NextBx = bx /\ NextBx' = bx + ntrg /\ bx \in Nat /\ ntrg \in Nat \ {0}
  BY NtrgPositive DEF Post, NextBx, ChainType, TypeOK, TriggerTypeOK
<1>3. \A r \in Servers : wire'[r] = wire[r] \/ wire'[r] = Append(wire[r], b)
  BY DEF Post
<1>4. b.bx = bx /\ b.ntrg = ntrg /\ b.event = event /\ event \in Nat
  BY DEF Burst, ChainType, TypeOK, TriggerTypeOK
<1> HIDE DEF b
<1>5. OrderInv'
  <2> SUFFICES ASSUME NEW r \in Servers
      PROVE  /\ lastKey[r] < NextBx'
             /\ \A i \in DOMAIN wire'[r] :
                  /\ lastKey[r] < wire'[r][i].bx
                  /\ wire'[r][i].bx + wire'[r][i].ntrg <= NextBx'
                  /\ \A j \in DOMAIN wire'[r] : i < j => wire'[r][i].bx + wire'[r][i].ntrg <= wire'[r][j].bx
             /\ poller[r] = "fill" =>
                  /\ lastKey[r] < burst[r].bx
                  /\ burst[r].bx + burst[r].ntrg <= NextBx'
                  /\ \A i \in DOMAIN wire'[r] : burst[r].bx + burst[r].ntrg <= wire'[r][i].bx
    BY <1>1 DEF OrderInv
  <2>1. /\ lastKey[r] < bx
        /\ \A i \in DOMAIN wire[r] :
             /\ lastKey[r] < wire[r][i].bx
             /\ wire[r][i].bx + wire[r][i].ntrg <= bx
             /\ \A j \in DOMAIN wire[r] : i < j => wire[r][i].bx + wire[r][i].ntrg <= wire[r][j].bx
        /\ poller[r] = "fill" =>
             /\ lastKey[r] < burst[r].bx
             /\ burst[r].bx + burst[r].ntrg <= bx
             /\ \A i \in DOMAIN wire[r] : burst[r].bx + burst[r].ntrg <= wire[r][i].bx
    BY <1>2 DEF LiveInv, OrderInv
  <2>2. CASE wire'[r] = wire[r]
    <3>1. \A i \in DOMAIN wire[r] : wire[r][i].bx \in Nat /\ wire[r][i].ntrg \in Nat
      BY BurstTyped
    <3>2. burst[r].bx \in Nat /\ burst[r].ntrg \in Nat /\ lastKey[r] \in Int
      BY BurstTyped
    <3> QED BY <1>2, <2>1, <2>2, <3>1, <3>2
  <2>3. CASE wire'[r] = Append(wire[r], b)
    <3>1. /\ wire[r] \in Seq(Bursts)
          /\ \A i \in DOMAIN wire'[r] :
               \/ i \in DOMAIN wire[r] /\ wire'[r][i] = wire[r][i]
               \/ i = Len(wire[r]) + 1 /\ wire'[r][i] = b
          /\ \A i \in DOMAIN wire[r] : i < Len(wire[r]) + 1 /\ i \in Nat
      BY <2>3, BurstTyped
    <3>2. \A i \in DOMAIN wire[r] : wire[r][i].bx \in Nat /\ wire[r][i].ntrg \in Nat
      BY BurstTyped
    <3>3. ASSUME NEW i \in DOMAIN wire'[r]
          PROVE  lastKey[r] < wire'[r][i].bx /\ wire'[r][i].bx + wire'[r][i].ntrg <= NextBx'
      <4>1. CASE i \in DOMAIN wire[r] /\ wire'[r][i] = wire[r][i]
        <5>1. /\ lastKey[r] < wire[r][i].bx
              /\ wire[r][i].bx + wire[r][i].ntrg <= bx
          BY <2>1, <4>1
        <5>2. wire[r][i].bx \in Nat /\ wire[r][i].ntrg \in Nat
          BY <3>2, <4>1
        <5> QED BY <1>2, <1>4, <4>1, <5>1, <5>2
      <4>2. CASE wire'[r][i] = b
        BY <1>2, <1>4, <2>1, <4>2
      <4> QED BY <3>1, <3>3, <4>1, <4>2
    <3>4. ASSUME NEW i \in DOMAIN wire'[r], NEW j \in DOMAIN wire'[r], i < j
          PROVE  wire'[r][i].bx + wire'[r][i].ntrg <= wire'[r][j].bx
      <4>1. i \in Nat /\ j \in Nat /\ j <= Len(wire[r]) + 1 /\ Len(wire[r]) \in Nat
        BY <3>1, <2>3
      <4>2. i \in DOMAIN wire[r] /\ wire'[r][i] = wire[r][i]
        BY <3>1, <3>4, <4>1
      <4> QED BY <1>2, <1>4, <2>1, <3>1, <3>2, <3>4, <4>2
    <3>5. lastKey[r] < NextBx'
      BY <1>2, <2>1, BurstTyped
    <3>6. ASSUME poller[r] = "fill"
          PROVE  /\ lastKey[r] < burst[r].bx
                 /\ burst[r].bx + burst[r].ntrg <= NextBx'
                 /\ \A i \in DOMAIN wire'[r] : burst[r].bx + burst[r].ntrg <= wire'[r][i].bx
      BY <1>2, <1>4, <2>1, <3>1, <3>6, BurstTyped
    <3> QED BY <3>3, <3>4, <3>5, <3>6
  <2> QED BY <1>3, <2>2, <2>3
<1>6. KnownInv'
  <2>1. ASSUME NEW p, Known(p)' PROVE Known(p) \/ p \in TriggersOf(b)
    <3>1. ASSUME NEW r \in Servers, NEW i \in DOMAIN wire'[r], p \in TriggersOf(wire'[r][i])
          PROVE  p \in TriggersOf(b) \/ \E j \in DOMAIN wire[r] : p \in TriggersOf(wire[r][j])
      <4>1. wire[r] \in Seq(Bursts)
        BY BurstTyped
      <4> QED BY <1>3, <3>1, <4>1
    <3> QED BY <1>1, <2>1, <3>1 DEF Known
  <2>2. \A p \in TriggersOf(b) : p \in Nat \X Nat /\ bx <= p[1] /\ p[1] < NextBx' /\ p[1] - bx = p[2] - event
    BY <1>2, <1>4 DEF TriggersOf
  <2>3. \A p \in Nat \X Nat : Known(p) => p[1] < bx
    BY <1>2 DEF LiveInv, KnownInv
  <2>4. ASSUME NEW p \in Nat \X Nat, NEW q \in Nat \X Nat, Known(p)', Known(q)'
        PROVE  p[1] < NextBx' /\ (p[1] = q[1] => p[2] = q[2])
    <3> p[1] \in Nat /\ p[2] \in Nat /\ q[1] \in Nat /\ q[2] \in Nat
      OBVIOUS
    <3>1. Known(p) \/ p \in TriggersOf(b)
      BY <2>1, <2>4
    <3>2. Known(q) \/ q \in TriggersOf(b)
      BY <2>1, <2>4
    <3>3. CASE Known(p) /\ Known(q)
      BY <1>2, <3>3 DEF LiveInv, KnownInv
    <3>4. CASE p \in TriggersOf(b) /\ q \in TriggersOf(b)
      BY <2>2, <1>2, <1>4, <3>4
    <3>5. CASE Known(p) /\ q \in TriggersOf(b)
      BY <2>2, <2>3, <1>2, <3>5
    <3>6. CASE p \in TriggersOf(b) /\ Known(q)
      BY <2>2, <2>3, <1>2, <3>6
    <3> QED BY <3>1, <3>2, <3>3, <3>4, <3>5, <3>6
  <2> QED BY <2>4 DEF KnownInv
<1>7. RangeInv'
  BY <1>2 DEF LiveInv, RangeInv, Post
<1> QED BY <1>5, <1>6, <1>7 DEF LiveInv

LEMMA DataInit == Init => LiveInv
<1> SUFFICES ASSUME Init PROVE LiveInv
  OBVIOUS
<1>1. NextBx = 0
  BY DEF Init, TriggerInit, NextBx
<1>2. /\ \A s \in Servers : wire[s] = <<>> /\ lastKey[s] = -1 /\ poller[s] = "none" /\ burst[s] = NoBurst
      /\ published = {}
  BY DEF Init, ServerInit
<1>3. OrderInv
  BY <1>1, <1>2 DEF OrderInv
<1>4. \A p : ~Known(p)
  BY <1>2 DEF Known, TriggersOf, NoBurst, Burst
<1>5. RangeInv
  BY <1>1, TriggerWireAssumption DEF RangeInv, Init, TriggerInit
<1> QED BY <1>3, <1>4, <1>5 DEF LiveInv, KnownInv

\* Until a HALT, that is.
LEMMA LiveNext ==
  ASSUME ~NtrgAnytime, KeysFit, ChainType, ThreadInv, LiveInv, [Next]_vars,
         publisher = "live", publisher' = "live"
  PROVE  LiveInv'
<1> USE DEF shared, trigger, web, server, history, rest
<1>1. CASE BeginRun
  <2>1. NextBx' = NextBx
    BY <1>1 DEF BeginRun, NextBx
  <2> QED BY <1>1, <2>1, DataKept DEF BeginRun, LiveInv, RangeInv
<1>2. CASE StartTrigger
  <2>1. NextBx' = NextBx
    BY <1>2 DEF StartTrigger, TriggerStart, NextBx, ThreadInv
  <2> QED BY <1>2, <2>1, DataKept DEF StartTrigger, TriggerStart
<1>3. CASE StopTrigger
  <2>1. UNCHANGED <<wire, burst, lastKey, published, poller, thread, bx, ntrg>>
    BY <1>3 DEF StopTrigger, TriggerStop
  <2>2. NextBx' = NextBx
    BY <2>1 DEF NextBx
  <2> QED BY <2>1, <2>2, DataKept DEF LiveInv, RangeInv
<1>4. CASE Configure
  <2>1. CASE TriggerConfigure /\ UNCHANGED <<server, history>>
    <3>1. thread' = thread /\ thread = "none" /\ UNCHANGED <<wire, bx>>
      BY <2>1 DEF TriggerConfigure, ThreadInv
    <3>2. NextBx' = NextBx
      BY <3>1 DEF NextBx
    <3> QED BY <2>1, <3>1, <3>2, DataKept
  <2>2. ASSUME TriggerHalt PROVE FALSE
    BY <2>2 DEF TriggerHalt, Destroy
  <2> QED BY <1>4, <2>1, <2>2, ServerConfigureData DEF Configure
<1>5. ASSUME NEW s \in Servers, StartServer(s) PROVE LiveInv'
  <2>1. NextBx' = NextBx
    BY <1>5 DEF StartServer, ServerStart, NextBx
  <2>2. \A r \in Servers : poller'[r] = "fill" => poller[r] = "fill"
    BY <1>5 DEF StartServer, ServerStart, ChainType, TypeOK, ServerTypeOK
  <2>3. UNCHANGED <<wire, burst, lastKey, published, thread, bx, ntrg>>
    BY <1>5 DEF StartServer, ServerStart
  <2> QED BY <2>1, <2>2, <2>3, DataKept DEF LiveInv, RangeInv
<1>6. ASSUME NEW s \in Servers, StopServer(s) PROVE LiveInv'
  <2>1. UNCHANGED <<wire, burst, lastKey, published, poller, thread, bx, ntrg>>
    BY <1>6 DEF StopServer, ServerStop
  <2>2. NextBx' = NextBx
    BY <2>1 DEF NextBx
  <2> QED BY <2>1, <2>2, DataKept DEF LiveInv, RangeInv
<1>7. CASE Command
  <2>1. UNCHANGED <<server, history, wire, bx, thread>> /\ (thread # "none" => ntrg' = ntrg)
    BY <1>7 DEF Command, Pause, SetNtrg, ThreadInv
  <2>2. NextBx' = NextBx
    BY <2>1 DEF NextBx
  <2> QED BY <2>1, <2>2, DataKept DEF LiveInv, RangeInv
<1>8. CASE TriggerThread
  <2> USE <1>8 DEF TriggerThread
  <2>1. ASSUME NEW c \in Clients, AskStart(c) \/ AskStatus(c) PROVE LiveInv'
    <3>1. UNCHANGED <<wire, bx>> /\ thread # "advance" /\ thread' # "advance" /\ thread' # "post"
      BY <2>1 DEF AskStart, AskStatus
    <3>2. NextBx' = NextBx
      BY <3>1 DEF NextBx
    <3> QED BY <3>1, <3>2, DataKept
  <2>2. CASE EnterLoop \/ NextPeriod \/ Ready
    <3>1. UNCHANGED <<wire, bx>> /\ thread # "advance" /\ thread' # "advance"
      BY <2>2 DEF EnterLoop, NextPeriod, Ready
    <3>2. NextBx' = NextBx
      BY <3>1 DEF NextBx
    <3>3. thread' = "post" => bx' + ntrg' <= MaxKey + 1
      <4>1. bx \in Nat /\ ntrg \in Nat /\ MaxKey \in Nat
        BY TriggerWireAssumption DEF ChainType, TypeOK, TriggerTypeOK
      <4> QED BY <2>2, <4>1 DEF EnterLoop, NextPeriod, Ready, LastKey
    <3> QED BY <3>1, <3>2, <3>3, DataKept
  <2>3. CASE Advance
    <3>1. NextBx' = NextBx
      BY <2>3 DEF Advance, NextBx
    <3> QED BY <2>3, <3>1, DataKept DEF Advance
  <2>4. ASSUME NEW missed \in SUBSET Servers, Post(missed) PROVE LiveInv'
    BY <2>4, PostData
  <2>5. ASSUME PostDies PROVE FALSE
    BY <2>5 DEF PostDies
  <2> QED BY <2>1, <2>2, <2>3, <2>4, <2>5 DEF PublishingThread
<1>9. ASSUME NEW s \in Servers, ServerThread(s) PROVE LiveInv'
  <2>1. CASE NextPoll(s) \/ PollTimeout(s)
    <3>1. UNCHANGED <<wire, burst, lastKey, published, thread, bx, ntrg>>
      BY <1>9, <2>1 DEF ServerThread, NextPoll, PollTimeout
    <3>2. NextBx' = NextBx
      BY <3>1 DEF NextBx
    <3>3. \A r \in Servers : poller'[r] = "fill" => poller[r] = "fill"
      BY <2>1 DEF NextPoll, PollTimeout, ChainType, TypeOK, ServerTypeOK
    <3> QED BY <3>1, <3>2, <3>3, DataKept DEF LiveInv, RangeInv
  <2> QED BY <1>9, <2>1, ReceiveBurstData, FillEventData DEF ServerThread, PollThread
<1>10. CASE TriggerStopped /\ UNCHANGED <<server, history, rest>>
  <2>1. UNCHANGED <<wire, thread, bx, ntrg>>
    BY <1>10 DEF TriggerStopped, Destroy
  <2>2. NextBx' = NextBx
    BY <2>1 DEF NextBx
  <2> QED BY <1>10, <2>1, <2>2, DataKept DEF LiveInv, RangeInv
<1>11. ASSUME NEW s \in Servers, ServerStopped(s), UNCHANGED <<trigger, rest>> PROVE LiveInv'
  <2>1. UNCHANGED <<wire, burst, lastKey, published, poller>>
    BY <1>11 DEF ServerStopped
  <2>2. NextBx' = NextBx
    BY <1>11 DEF NextBx
  <2> QED BY <1>11, <2>1, <2>2, DataKept DEF LiveInv, RangeInv
<1>12. CASE UNCHANGED vars
  <2>1. NextBx' = NextBx
    BY <1>12 DEF vars, NextBx
  <2> QED BY <1>12, <2>1, DataKept DEF vars, LiveInv, RangeInv
<1> QED
  BY <1>1, <1>2, <1>3, <1>4, <1>5, <1>6, <1>7, <1>8, <1>9, <1>10, <1>11, <1>12
  DEF Next, RunCommand, Joined

\* A deleted publisher is never made again: configure finds a pointer to it.
LEMMA PublisherNext ==
  ASSUME [Next]_vars, publisher' = "live" PROVE publisher = "live"
<1> USE DEF shared, trigger, web, server, history, rest
<1>1. CASE RunCommand
  BY <1>1 DEF RunCommand, BeginRun, StartTrigger, TriggerStart, StopTrigger, TriggerStop, Configure,
     TriggerConfigure, TriggerHalt, Destroy, StartServer, StopServer
<1>2. CASE Command
  BY <1>2 DEF Command, Pause, SetNtrg
<1>3. CASE TriggerThread
  BY <1>3 DEF TriggerThread, PublishingThread, AskStart, AskStatus, EnterLoop, NextPeriod, Ready,
     Post, PostDies, Advance
<1>4. CASE Joined
  BY <1>4 DEF Joined, TriggerStopped, Destroy
<1> QED BY <1>1, <1>2, <1>3, <1>4 DEF Next, ServerThread, vars

LEMMA DataNext ==
  ASSUME ~NtrgAnytime, KeysFit, ChainType, ThreadInv, DataInv, [Next]_vars
  PROVE  DataInv'
BY LiveNext, PublisherNext DEF DataInv

\* Of all the triggers published, waiting in a server or on their way to one,
\* each server's come in the order of their keys, and a key is of one event,
\* until the trigger is halted.
THEOREM ChainInvariant ==
  ASSUME ~NtrgAnytime, KeysFit PROVE Spec => [](ChainType /\ ThreadInv /\ DataInv)
<1>1. Init => DataInv
  BY DataInit DEF DataInv
<1>2. ChainType /\ ThreadInv /\ DataInv /\ [Next]_vars => DataInv'
  BY DataNext
<1> QED BY <1>1, <1>2, Threads, PTL DEF Spec

\* Fragments with one key are of one event, over all the runs of the trigger,
\* whatever was lost, left unread or configured again: only HALT sets bx back
\* (softTrigger.cxx:272), while every START does it with the event number.  NTRG
\* commands come between the runs, and there are fewer than 2^32 triggers.
THEOREM SameEventsHolds == ASSUME ~NtrgAnytime, KeysFit PROVE Spec => []SameEvents
<1>1. ChainType /\ DataInv => SameEvents
  BY DEF ChainType, DataInv, LiveInv, KnownInv, Known, SameEvents, OneEventPerKey
<1> QED BY <1>1, ChainInvariant, PTL

\* Every server feeds the event builder keys in increasing order, over all the
\* runs until the trigger is halted, and only while it is running (checkTrigger,
\* exServer.cxx:186-203), under the same conditions.
THEOREM FeedsInOrderHolds == ASSUME ~NtrgAnytime, KeysFit PROVE Spec => FeedsInOrder
<1>1. ASSUME ChainType, DataInv, [Next]_vars, NEW s \in Servers, Publishes(s)
      PROVE  sstate[s] = "RUNNING" /\ (publisher = "live" => Key(burst[s]) > lastKey[s])
  <2>1. sstate[s] = "RUNNING"
    BY <1>1 DEF Publishes, ChainType, TypeOK, ServerTypeOK
  <2>2. ASSUME publisher = "live" PROVE Key(burst[s]) > lastKey[s]
    <3>1. poller[s] = "fill" /\ burst[s] \in Bursts
      BY <1>1 DEF Publishes, ChainType
    <3>2. /\ lastKey[s] < burst[s].bx
          /\ burst[s].bx + burst[s].ntrg <= NextBx /\ NextBx <= MaxKey + 1 /\ NextBx \in Nat
      BY <1>1, <2>2, <3>1, NtrgPositive
      DEF DataInv, LiveInv, OrderInv, RangeInv, NextBx, ChainType, TypeOK, TriggerTypeOK
    <3>3. burst[s].bx \in Nat /\ burst[s].ntrg \in Nat \ {0} /\ lastKey[s] \in Int
      BY <1>1, <3>1, BurstTyped DEF Bursts
    <3>4. burst[s].bx < WordSize
      BY <3>2, <3>3, TriggerWireAssumption DEF KeysFit
    <3>5. Key(burst[s]) = burst[s].bx
      BY <3>3, <3>4, SmallModulus, TriggerWireAssumption DEF Key
    <3> QED BY <3>2, <3>3, <3>5
  <2> QED BY <2>1, <2>2
<1>2. ChainType /\ DataInv /\ [Next]_vars =>
        [\A s \in Servers : Publishes(s) =>
           /\ sstate[s] = "RUNNING"
           /\ publisher = "live" => Key(burst[s]) > lastKey[s]]_vars
  BY <1>1
<1> QED BY <1>2, ChainInvariant, PTL DEF Spec, FeedsInOrder

-----------------------------------------------------------------------------
(***************************************************************************)
(* How much a server has still to do.  Unread adds up the bursts of a wire *)
(* by recursion over its length: what it comes to is proved by induction,  *)
(* in the form the provers can apply, for a set of numbers.                *)
(***************************************************************************)
LEMMA LessIsWellFounded == IsWellFoundedOn({p \in Nat \X Nat : p[1] < p[2]}, Nat)
BY NatLessThanWellFounded, Zenon DEF OpToRel

LEMMA Induction ==
  ASSUME NEW T \in SUBSET Nat, 0 \in T, \A n \in T : n + 1 \in T
  PROVE  T = Nat
<1>1. SUFFICES ASSUME Nat \ T # {} PROVE FALSE
  OBVIOUS
<1>2. PICK n \in Nat \ T : \A m \in Nat \ T : ~ (<<m, n>> \in {p \in Nat \X Nat : p[1] < p[2]})
  BY <1>1, LessIsWellFounded, WFMin, Zenon
<1>3. \A m \in Nat \ T : ~(m < n)
  BY <1>2
<1>4. n # 0
  OBVIOUS
<1>5. n - 1 \in T
  BY <1>3, <1>4
<1> QED BY <1>5

\* The recursive function in Unread.
Pending(w, a) ==
  CHOOSE f : f = [i \in 0..Len(w) |-> IF i = 0 THEN a ELSE f[i-1] + w[i].ntrg]

LEMMA UnreadIsPending ==
  ASSUME NEW s \in Servers
  PROVE  Unread(s) = Pending(wire[s], burst[s].ntrg)[Len(wire[s])]
BY DEF Unread, Pending

LEMMA PendingDefined ==
  ASSUME NEW w \in Seq(Bursts), NEW a \in Nat
  PROVE  Pending(w, a) = [i \in 0..Len(w) |-> IF i = 0 THEN a ELSE Pending(w, a)[i-1] + w[i].ntrg]
<1> DEFINE Fits(f, n) == f = [i \in 0..n |-> IF i = 0 THEN a ELSE f[i-1] + w[i].ntrg]
           T == {n \in Nat : \E f : Fits(f, n)}
<1>1. 0 \in T
  <2>1. Fits([i \in 0..0 |-> a], 0)
    OBVIOUS
  <2> QED BY <2>1
<1>2. ASSUME NEW n \in T PROVE n + 1 \in T
  <2>1. n \in Nat
    OBVIOUS
  <2>2. PICK f : Fits(f, n)
    BY <1>2
  <2> DEFINE g == [i \in 0..(n + 1) |-> IF i = n + 1 THEN f[n] + w[n + 1].ntrg ELSE f[i]]
  <2>3. ASSUME NEW i \in 0..(n + 1) PROVE g[i] = IF i = 0 THEN a ELSE g[i-1] + w[i].ntrg
    <3>1. CASE i = n + 1
      BY <2>1, <3>1
    <3>2. CASE i = 0
      BY <2>1, <2>2, <3>2
    <3>3. CASE i \in 1..n
      <4>1. i \in 0..n /\ i # 0 /\ i # n + 1 /\ i - 1 \in 0..n /\ i - 1 # n + 1 /\ i - 1 \in 0..(n + 1)
        BY <2>1, <3>3
      <4>2. f[i] = f[i-1] + w[i].ntrg
        BY <2>2, <4>1
      <4> QED BY <4>1, <4>2
    <3> QED BY <2>1, <3>1, <3>2, <3>3
  <2>4. Fits(g, n + 1)
    <3>1. g = [i \in 0..(n + 1) |-> g[i]]
      OBVIOUS
    <3> HIDE DEF g
    <3> QED BY <2>3, <3>1
  <2> HIDE DEF Fits, g
  <2> QED BY <2>1, <2>4
<1>3. Len(w) \in T
  <2> HIDE DEF T
  <2>1. T = Nat
    <3>1. T \subseteq Nat
      BY DEF T
    <3> QED BY <1>1, <1>2, <3>1, Induction
  <2> QED BY <2>1
<1>4. \E f : Fits(f, Len(w))
  BY <1>3
<1>5. Fits(Pending(w, a), Len(w))
  BY <1>4, Zenon DEF Pending
<1> QED BY <1>5

LEMMA PendingTelescopes ==
  ASSUME NEW w \in Seq(Bursts), NEW a \in Nat, NEW first \in Nat,
         \A i \in DOMAIN w : i < Len(w) => w[i].event + w[i].ntrg = w[i + 1].event,
         w # <<>> => w[1].event = first + a,
         NEW top \in Nat,
         w # <<>> => w[Len(w)].event + w[Len(w)].ntrg = top,
         w = <<>> => top = first + a
  PROVE  Pending(w, a)[Len(w)] = top - first
<1> DEFINE f == Pending(w, a)
           T == {n \in Nat : n <= Len(w) =>
                   f[n] = IF n = 0 THEN a ELSE w[n].event + w[n].ntrg - first}
<1>1. f = [i \in 0..Len(w) |-> IF i = 0 THEN a ELSE f[i-1] + w[i].ntrg]
  BY PendingDefined
<1>2. ASSUME NEW i \in DOMAIN w PROVE w[i].event \in Nat /\ w[i].ntrg \in Nat
  <2>1. w[i] \in Bursts
    OBVIOUS
  <2> QED BY <2>1 DEF Bursts
<1> HIDE DEF f
<1>3. 0 \in T
  BY <1>1
<1>4. ASSUME NEW n \in T PROVE n + 1 \in T
  <2> SUFFICES ASSUME n + 1 <= Len(w)
      PROVE  f[n + 1] = w[n + 1].event + w[n + 1].ntrg - first
    OBVIOUS
  <2>1. n \in Nat /\ n + 1 \in DOMAIN w /\ n + 1 \in 0..Len(w) /\ n + 1 # 0 /\ (n + 1) - 1 = n
    OBVIOUS
  <2>2. f[n + 1] = f[n] + w[n + 1].ntrg
    BY <1>1, <2>1
  <2>3. CASE n = 0
    BY <1>1, <1>2, <2>1, <2>2, <2>3
  <2>4. CASE n # 0
    <3>1. n \in DOMAIN w /\ n < Len(w)
      BY <2>1, <2>4
    <3>2. f[n] = w[n].event + w[n].ntrg - first /\ w[n].event + w[n].ntrg = w[n + 1].event
      BY <2>4, <3>1
    <3>3. PICK e \in Nat, k \in Nat : e = w[n + 1].event /\ k = w[n + 1].ntrg
      BY <1>2, <2>1
    <3>4. f[n] = e - first
      <4>1. PICK d \in Nat, m \in Nat : d = w[n].event /\ m = w[n].ntrg
        BY <1>2, <3>1
      <4>2. f[n] = d + m - first /\ d + m = e
        BY <3>2, <3>3, <4>1
      <4> QED BY <4>2
    <3>5. f[n + 1] = (e - first) + k
      BY <2>2, <3>3, <3>4
    <3>6. f[n + 1] = e + k - first
      BY <3>5
    <3> QED BY <3>3, <3>6
  <2> QED BY <2>3, <2>4
<1>5. Len(w) \in T
  <2> HIDE DEF T
  <2>1. T = Nat
    <3>1. T \subseteq Nat
      BY DEF T
    <3> QED BY <1>3, <1>4, <3>1, Induction
  <2> QED BY <2>1
<1>6. f[Len(w)] = IF Len(w) = 0 THEN a ELSE w[Len(w)].event + w[Len(w)].ntrg - first
  BY <1>5
<1>7. CASE w = <<>>
  <2>1. Len(w) = 0
    BY <1>7
  <2>2. f[Len(w)] = a /\ top = first + a
    BY <1>6, <1>7, <2>1
  <2> QED BY <2>2 DEF f
<1>8. CASE w # <<>>
  <2>1. Len(w) \in DOMAIN w /\ Len(w) # 0
    BY <1>8
  <2>2. PICK e \in Nat, n \in Nat : e = w[Len(w)].event /\ n = w[Len(w)].ntrg
    BY <1>2, <2>1
  <2>3. f[Len(w)] = e + n - first
    BY <1>6, <2>1, <2>2
  <2>4. e + n = top
    BY <1>8, <2>2
  <2> QED BY <2>3, <2>4 DEF f
<1> QED BY <1>7, <1>8

-----------------------------------------------------------------------------
(***************************************************************************)
(* One run without losses.                                                 *)
(***************************************************************************)
\* 3 * _ntrg does not overflow uint32_t.
Small == \A n \in Ntrgs \cup {Ntrg} : 3 * n < WordSize

LEMMA NextEventType ==
  ASSUME ChainType PROVE NextEvent \in Nat
BY NtrgPositive DEF ChainType, TypeOK, TriggerTypeOK, NextEvent

LEMMA FirstBound ==
  ASSUME ChainType, NEW s \in Servers, Contiguous(s)
  PROVE  First(s) \in Nat /\ First(s) <= NextEvent
<1> USE BurstTyped, NextEventType
<1> DEFINE w == wire[s]  T == {n \in Nat : n < Len(w) => w[Len(w) - n].event <= NextEvent}
<1>1. w \in Seq(Bursts)
  OBVIOUS
<1>2. \A i \in DOMAIN w : w[i].event + w[i].ntrg = IF i = Len(w) THEN NextEvent ELSE w[i + 1].event
  BY DEF Contiguous
<1>3. \A i \in DOMAIN w : w[i].event \in Nat /\ w[i].ntrg \in Nat
  OBVIOUS
<1> HIDE DEF w
<1>4. 0 \in T
  BY SMTT(30), <1>1, <1>2, <1>3
<1>5. ASSUME NEW n \in T PROVE n + 1 \in T
  <2> SUFFICES ASSUME n + 1 < Len(w) PROVE w[Len(w) - (n + 1)].event <= NextEvent
    OBVIOUS
  <2> DEFINE i == Len(w) - (n + 1)
  <2>1. i \in DOMAIN w /\ i # Len(w) /\ i + 1 \in DOMAIN w /\ i + 1 = Len(w) - n
    BY <1>1
  <2>2. w[i + 1].event <= NextEvent
    <3>1. n < Len(w) /\ w[Len(w) - n].event <= NextEvent
      BY <1>1
    <3> QED BY <2>1, <3>1
  <2> HIDE DEF i
  <2>3. w[i].event <= NextEvent
    BY <1>2, <1>3, <2>1, <2>2
  <2> QED BY <2>3 DEF i
<1>6. w # <<>> => w[1].event \in Nat /\ w[1].event <= NextEvent
  <2> SUFFICES ASSUME w # <<>> PROVE w[1].event \in Nat /\ w[1].event <= NextEvent
    OBVIOUS
  <2>1. T = Nat
    <3> HIDE DEF T
    <3>1. T \subseteq Nat
      BY DEF T
    <3> QED BY <1>4, <1>5, <3>1, Induction
  <2>2. Len(w) - 1 \in Nat /\ Len(w) - 1 < Len(w) /\ Len(w) - (Len(w) - 1) = 1 /\ 1 \in DOMAIN w
    BY <1>1
  <2> QED BY <1>3, <2>1, <2>2
<1>7. CASE poller[s] = "fill"
  BY <1>6, <1>7 DEF First, Contiguous, w
<1>8. CASE poller[s] # "fill"
  BY <1>6, <1>8 DEF First, w
<1> QED BY <1>7, <1>8

\* What a step has to leave alone for the wires to keep.
LEMMA StreamKept ==
  ASSUME UNCHANGED <<wire, burst>>, NextEvent' = NextEvent,
         \A s \in Servers : poller'[s] = "fill" <=> poller[s] = "fill"
  PROVE  \A s \in Servers : First(s)' = First(s) /\ (Contiguous(s) => Contiguous(s)')
BY DEF First, Contiguous

LEMMA BacklogInit == Init => BacklogInv
BY DEF Init, TriggerInit, ServerInit, BacklogInv, StreamInv, LagInv, Fresh

\* Between the runs there is nothing to say.
LEMMA BacklogIdle ==
  ASSUME tstate' # "RUNNING", up' = FALSE PROVE BacklogInv'
BY DEF BacklogInv, StreamInv, LagInv

LEMMA StartTriggerBacklog ==
  ASSUME ChainType, BacklogInv, StartTrigger PROVE BacklogInv'
<1>1. /\ UNCHANGED <<wire, stat, lost, up, burst, poller, leftover, ntrg>>
      /\ tstate = "CONFIGURED" /\ up /\ tstate' = "RUNNING" /\ \A s \in Servers : sstate[s] = "RUNNING"
      /\ event' = 0 /\ ns0' = 0 /\ thread' = "start"
  BY DEF StartTrigger, TriggerStart, shared, server, history, rest
<1>2. NextEvent' = 0
  BY <1>1 DEF NextEvent
<1>3. ASSUME Clean' PROVE \A s \in Servers : Fresh(s) /\ Fresh(s)'
  BY <1>1, <1>3 DEF Clean, BacklogInv, StreamInv, Fresh
<1>4. StreamInv'
  BY <1>1, <1>2, <1>3 DEF StreamInv, Contiguous, First, Fresh
<1>5. LagInv'
  <2> SUFFICES ASSUME Clean', NEW c \in Clients PROVE NextEvent' - stat'[c] <= 3 * ntrg'
    BY <1>1 DEF LagInv
  <2>1. stat'[c] = 0
    BY <1>3, SoftTriggerAssumption DEF Fresh
  <2> QED BY <1>1, <1>2, <2>1, NtrgPositive
<1> QED BY <1>4, <1>5 DEF BacklogInv

LEMMA StartServerBacklog ==
  ASSUME ChainType, ThreadInv, BacklogInv, NEW s \in Servers, StartServer(s) PROVE BacklogInv'
<1>1. /\ UNCHANGED <<wire, lost, up, tstate>> /\ leftover' = (leftover \/ wire[s] # <<>>)
      /\ sstate[s] = "CONFIGURED"
      /\ stat'[s] = 0 /\ poller'[s] = "loop"
      /\ \A r \in Servers \ {s} :
           stat'[r] = stat[r] /\ poller'[r] = poller[r] /\ sstate'[r] = sstate[r]
  BY DEF StartServer, ServerStart, trigger, web, ChainType, TypeOK, ServerTypeOK
<1>2. tstate # "RUNNING"
  BY <1>1 DEF ThreadInv
<1>3. ASSUME Clean', up, tstate = "CONFIGURED", NEW r \in Servers, sstate'[r] = "RUNNING"
      PROVE  Fresh(r)'
  <2>1. Clean /\ wire[s] = <<>>
    BY <1>1, <1>3 DEF Clean
  <2>2. CASE r = s
    BY <1>1, <2>1, <2>2 DEF Fresh
  <2>3. CASE r # s
    BY <1>1, <1>3, <2>1, <2>3 DEF Fresh, BacklogInv, StreamInv
  <2> QED BY <2>2, <2>3
<1> QED BY <1>1, <1>2, <1>3 DEF BacklogInv, StreamInv, LagInv

\* Steps of the trigger other than a post.
LEMMA TriggerBacklog ==
  ASSUME ChainType, BacklogInv,
         UNCHANGED <<tstate, ntrg, wire, stat, lost, leftover, burst, poller, sstate>>,
         up' => up, NextEvent' = NextEvent, ns0' = ns0,
         thread' = "start" => thread = "start" /\ event' = event,
         \A c \in Clients : Clean /\ tstate = "RUNNING" =>
           /\ thread' = "check" /\ c \notin toAsk' => event' - stat[c] <= 2 * ntrg
           /\ thread' = "post" => event' - stat[c] <= 2 * ntrg
  PROVE  BacklogInv'
<1>1. StreamInv'
  BY StreamKept DEF BacklogInv, StreamInv, Fresh, Clean
<1>2. LagInv'
  BY DEF BacklogInv, LagInv, Clean
<1> QED BY <1>1, <1>2 DEF BacklogInv

LEMMA AskStartBacklog ==
  ASSUME ChainType, BacklogInv, NEW c \in Clients, AskStart(c), UNCHANGED <<server, history, rest>>
  PROVE  BacklogInv'
<1>1. /\ UNCHANGED <<tstate, ntrg, wire, stat, lost, up, leftover, burst, poller, sstate, event, thread>>
      /\ thread = "start" /\ ns0' = stat[c] /\ c \in Servers
  BY SoftTriggerAssumption DEF AskStart, web, shared, server, history, rest
<1>2. NextEvent' = NextEvent
  BY <1>1 DEF NextEvent
<1>3. ASSUME Clean, tstate = "RUNNING" PROVE ns0' = 0
  BY <1>1, <1>3 DEF BacklogInv, StreamInv, Fresh
<1>4. StreamInv'
  BY <1>1, <1>2, <1>3, StreamKept DEF BacklogInv, StreamInv, Fresh, Clean
<1>5. LagInv'
  BY <1>1, <1>2 DEF BacklogInv, LagInv, Clean
<1> QED BY <1>4, <1>5 DEF BacklogInv

LEMMA AskStatusBacklog ==
  ASSUME Small, ChainType, BacklogInv, NEW c \in Clients, AskStatus(c),
         UNCHANGED <<server, history, rest>>
  PROVE  BacklogInv'
<1>1. /\ UNCHANGED <<tstate, ntrg, wire, stat, lost, up, leftover, burst, poller, sstate, event, ns0>>
      /\ thread = "check" /\ c \in Servers
      /\ IF TooLate(stat[c]) THEN thread' = "loop" ELSE thread' = thread /\ toAsk' = toAsk \ {c}
  BY SoftTriggerAssumption DEF AskStatus, web, shared, server, history, rest
<1>2. NextEvent' = NextEvent /\ NextEvent = event
  BY <1>1 DEF NextEvent
<1>3. ASSUME Clean, tstate = "RUNNING", ~TooLate(stat[c]) PROVE event - stat[c] <= 2 * ntrg
  <2>1. ns0 = 0 /\ stat[c] <= First(c) /\ First(c) <= NextEvent
    BY <1>1, <1>3, FirstBound DEF BacklogInv, StreamInv
  <2>2. event \in Nat /\ ntrg \in Nat /\ stat[c] \in Nat /\ WordSize \in Nat \ {0} /\ First(c) \in Nat
    BY <1>1, <1>3, NtrgPositive, TriggerWireAssumption, FirstBound
    DEF ChainType, TypeOK, TriggerTypeOK, ServerTypeOK, BacklogInv, StreamInv
  <2>3. event - stat[c] \in Nat /\ event - stat[c] < WordSize
    <3>1. event - stat[c] <= 3 * ntrg
      BY <1>2, <1>3 DEF BacklogInv, LagInv
    <3>2. 3 * ntrg < WordSize
      BY DEF Small, ChainType
    <3> QED BY <1>2, <2>1, <2>2, <3>1, <3>2
  <2>4. (event - (stat[c] - ns0)) = event - stat[c]
    BY <2>1, <2>2
  <2>5. (event - stat[c]) % WordSize = event - stat[c]
    BY <2>2, <2>3, SmallModulus
  <2>6. event - stat[c] > 2 * ntrg => TooLate(stat[c])
    BY <2>4, <2>5 DEF TooLate
  <2> QED BY <1>3, <2>2, <2>6
<1>4. \A d \in Clients : Clean /\ tstate = "RUNNING" =>
        /\ thread' = "check" /\ d \notin toAsk' => event' - stat[d] <= 2 * ntrg
        /\ thread' = "post" => event' - stat[d] <= 2 * ntrg
  BY <1>1, <1>3 DEF BacklogInv, LagInv
<1> QED BY <1>1, <1>2, <1>4, TriggerBacklog

LEMMA PostBacklog ==
  ASSUME ChainType, ThreadInv, BacklogInv, NEW missed \in SUBSET Servers, Post(missed),
         UNCHANGED <<server, history, rest>>
  PROVE  BacklogInv'
<1> DEFINE b == Burst(event, bx, ntrg)
<1>1. /\ UNCHANGED <<tstate, ntrg, stat, up, leftover, burst, poller, sstate, event, ns0>>
      /\ thread = "post" /\ thread' = "advance"
      /\ lost' = lost + IF missed = {} THEN 0 ELSE 1
      /\ missed = {} => \A s \in Servers : wire'[s] = Append(wire[s], b)
  BY DEF Post, web, server, history, rest
<1>2. NextEvent = event /\ NextEvent' = event + ntrg /\ event \in Nat /\ ntrg \in Nat \ {0}
  BY <1>1, NtrgPositive DEF NextEvent, ChainType, TypeOK, TriggerTypeOK
<1>3. b.event = event /\ b.ntrg = ntrg
  BY DEF Burst
<1>4. ASSUME Clean' PROVE Clean /\ missed = {}
  BY <1>1, <1>4 DEF Clean, ChainType
<1> HIDE DEF b
<1>5. tstate = "RUNNING"
  BY <1>1 DEF ThreadInv, ChainType, TypeOK, TriggerTypeOK
<1>6. ASSUME Clean', NEW s \in Servers
      PROVE  Contiguous(s)' /\ First(s)' = First(s) /\ stat[s] <= First(s)
  <2>1. Contiguous(s) /\ stat[s] <= First(s)
    BY <1>4, <1>5, <1>6 DEF BacklogInv, StreamInv
  <2>2. /\ wire[s] \in Seq(Bursts) /\ wire'[s] = Append(wire[s], b)
        /\ Len(wire'[s]) = Len(wire[s]) + 1 /\ wire'[s] # <<>> /\ wire'[s][Len(wire[s]) + 1] = b
        /\ \A i \in DOMAIN wire[s] : wire'[s][i] = wire[s][i] /\ i # Len(wire[s]) + 1
        /\ \A i \in DOMAIN wire'[s] : i \in DOMAIN wire[s] \/ i = Len(wire[s]) + 1
    <3>1. wire[s] \in Seq(Bursts) /\ wire'[s] = Append(wire[s], b)
      BY <1>1, <1>4, <1>6, BurstTyped
    <3> QED BY <3>1
  <2>3. /\ wire[s] = <<>> => wire'[s][1] = b
        /\ wire[s] # <<>> => wire'[s][1] = wire[s][1]
    BY <2>2
  <2>4. First(s)' = First(s)
    BY <1>1, <1>2, <1>3, <2>2, <2>3 DEF First
  <2>5. ASSUME NEW i \in DOMAIN wire'[s]
        PROVE  wire'[s][i].event + wire'[s][i].ntrg
                 = IF i = Len(wire'[s]) THEN NextEvent' ELSE wire'[s][i + 1].event
    <3>1. CASE i = Len(wire[s]) + 1
      BY <1>2, <1>3, <2>2, <3>1
    <3>2. CASE i \in DOMAIN wire[s] /\ i # Len(wire[s])
      <4>1. i + 1 \in DOMAIN wire[s]
        BY <2>2, <3>2
      <4> QED BY <2>1, <2>2, <3>2, <4>1 DEF Contiguous
    <3>3. CASE i = Len(wire[s]) /\ i \in DOMAIN wire[s]
      BY <1>2, <1>3, <2>1, <2>2, <3>3 DEF Contiguous
    <3> QED BY <2>2, <3>1, <3>2, <3>3
  <2>6. poller[s] = "fill" => burst[s].event + burst[s].ntrg = wire'[s][1].event
    BY <1>2, <1>3, <2>1, <2>3 DEF Contiguous
  <2> QED BY <1>1, <2>1, <2>2, <2>4, <2>5, <2>6 DEF Contiguous
<1>7. StreamInv'
  BY <1>1, <1>4, <1>5, <1>6 DEF BacklogInv, StreamInv
<1>8. LagInv'
  <2> SUFFICES ASSUME Clean', NEW c \in Clients PROVE NextEvent' - stat[c] <= 3 * ntrg
    BY <1>1 DEF LagInv
  <2>1. event - stat[c] <= 2 * ntrg
    BY <1>1, <1>4, <1>5 DEF BacklogInv, LagInv
  <2>2. stat[c] \in Nat
    BY SoftTriggerAssumption DEF ChainType, TypeOK, ServerTypeOK
  <2> QED BY <1>2, <2>1, <2>2
<1> QED BY <1>7, <1>8 DEF BacklogInv

\* The death of the trigger ends the run for the backlog.
LEMMA PostDiesBacklog ==
  ASSUME PostDies PROVE BacklogInv'
BY DEF PostDies, BacklogInv, StreamInv, LagInv

LEMMA TriggerThreadBacklog ==
  ASSUME Small, ChainType, ThreadInv, BacklogInv, TriggerThread PROVE BacklogInv'
<1> USE DEF TriggerThread, web, shared, server, history, rest
<1>1. ASSUME NEW c \in Clients, AskStart(c) \/ AskStatus(c) PROVE BacklogInv'
  BY <1>1, AskStartBacklog, AskStatusBacklog
<1>2. CASE EnterLoop \/ NextPeriod \/ Ready
  <2>1. thread # "advance" /\ thread' # "advance" /\ event' = event
    BY <1>2 DEF EnterLoop, NextPeriod, Ready
  <2>2. NextEvent' = NextEvent
    BY <2>1 DEF NextEvent
  <2>3. \A c \in Clients : Clean /\ tstate = "RUNNING" =>
           /\ thread' = "check" /\ c \notin toAsk' => event' - stat[c] <= 2 * ntrg
           /\ thread' = "post" => event' - stat[c] <= 2 * ntrg
    BY <1>2 DEF EnterLoop, NextPeriod, Ready, BacklogInv, LagInv
  <2>4. thread' # "start"
    BY <1>2 DEF EnterLoop, NextPeriod, Ready
  <2> QED BY <1>2, <2>2, <2>3, <2>4, TriggerBacklog DEF EnterLoop, NextPeriod, Ready
<1>3. CASE Advance
  <2>1. NextEvent' = NextEvent /\ thread' = "loop"
    BY <1>3 DEF NextEvent, Advance
  <2> QED BY <1>3, <2>1, TriggerBacklog DEF Advance
<1>4. ASSUME NEW missed \in SUBSET Servers, Post(missed) PROVE BacklogInv'
  BY <1>4, PostBacklog
<1> QED BY <1>1, <1>2, <1>3, <1>4, PostDiesBacklog DEF PublishingThread

LEMMA ReceiveBurstBacklog ==
  ASSUME ChainType, ThreadInv, BacklogInv, NEW s \in Servers, ReceiveBurst(s),
         UNCHANGED <<trigger, rest>>
  PROVE  BacklogInv'
<1>1. /\ UNCHANGED <<tstate, ntrg, stat, lost, up, leftover, sstate, event, ns0, thread, toAsk>>
      /\ NextEvent' = NextEvent
      /\ poller[s] = "poll" /\ wire[s] # <<>>
  BY DEF ReceiveBurst, trigger, web, rest, history, NextEvent
<1>2. /\ burst'[s] = wire[s][1] /\ poller'[s] = "fill" /\ wire'[s] = Tail(wire[s])
      /\ \A r \in Servers \ {s} : burst'[r] = burst[r] /\ wire'[r] = wire[r] /\ poller'[r] = poller[r]
  BY DEF ReceiveBurst, ChainType, TypeOK, ServerTypeOK
<1>3. sstate[s] = "RUNNING" /\ ~Fresh(s)
  BY <1>1 DEF ChainType, TypeOK, ServerTypeOK, Fresh
<1>4. ASSUME NEW r \in Servers, Contiguous(r) PROVE Contiguous(r)' /\ First(r)' = First(r)
  <2>1. CASE r # s
    BY <1>1, <1>2, <1>4, <2>1 DEF Contiguous, First
  <2>2. CASE r = s
    <3>1. /\ wire[s] \in Seq(Bursts) /\ 1 \in DOMAIN wire[s]
          /\ Len(wire'[s]) = Len(wire[s]) - 1
          /\ \A i \in DOMAIN wire'[s] : i \in Nat /\ i + 1 \in DOMAIN wire[s] /\ wire'[s][i] = wire[s][i + 1]
      BY <1>1, <1>2, BurstTyped
    <3>2. First(s)' = First(s)
      BY <1>1, <1>2 DEF First
    <3>3. ASSUME NEW i \in DOMAIN wire'[s]
          PROVE  wire'[s][i].event + wire'[s][i].ntrg
                   = IF i = Len(wire'[s]) THEN NextEvent ELSE wire'[s][i + 1].event
      <4>1. i + 1 \in DOMAIN wire[s] /\ wire'[s][i] = wire[s][i + 1] /\ (i = Len(wire'[s]) <=> i + 1 = Len(wire[s]))
        BY <3>1
      <4>2. wire[s][i + 1].event + wire[s][i + 1].ntrg
              = IF i + 1 = Len(wire[s]) THEN NextEvent ELSE wire[s][(i + 1) + 1].event
        BY <1>4, <2>2, <4>1 DEF Contiguous
      <4>3. i # Len(wire'[s]) => i + 1 \in DOMAIN wire'[s] /\ wire'[s][i + 1] = wire[s][(i + 1) + 1]
        BY <1>2, <3>1
      <4> QED BY <4>1, <4>2, <4>3
    <3>4. burst'[s].event + burst'[s].ntrg
            = IF wire'[s] = <<>> THEN NextEvent ELSE wire'[s][1].event
      <4>1. wire[s][1].event + wire[s][1].ntrg = IF 1 = Len(wire[s]) THEN NextEvent ELSE wire[s][1 + 1].event
        BY <1>4, <2>2, <3>1 DEF Contiguous
      <4>2. wire'[s] = <<>> <=> 1 = Len(wire[s])
        <5>1. wire'[s] \in Seq(Bursts) /\ Len(wire[s]) \in Nat
          BY <1>2, <3>1
        <5>2. wire'[s] = <<>> <=> Len(wire'[s]) = 0
          BY <5>1
        <5> QED BY <3>1, <5>1, <5>2
      <4>3. wire'[s] # <<>> => wire'[s][1] = wire[s][1 + 1]
        <5>1. wire'[s] \in Seq(Bursts)
          BY <1>2, <3>1
        <5>2. wire'[s] # <<>> => 1 \in DOMAIN wire'[s]
          BY <5>1
        <5> QED BY <3>1, <5>2
      <4> QED BY <1>2, <4>1, <4>2, <4>3
    <3> QED BY <1>1, <2>2, <3>2, <3>3, <3>4 DEF Contiguous
  <2> QED BY <2>1, <2>2
<1>5. StreamInv'
  BY <1>1, <1>2, <1>3, <1>4 DEF BacklogInv, StreamInv, Clean, Fresh
<1>6. LagInv'
  BY <1>1 DEF BacklogInv, LagInv, Clean
<1> QED BY <1>5, <1>6 DEF BacklogInv

LEMMA FillEventBacklog ==
  ASSUME ChainType, ThreadInv, BacklogInv, NEW s \in Servers, FillEvent(s),
         UNCHANGED <<trigger, rest>>
  PROVE  BacklogInv'
<1> DEFINE b == burst[s]
<1>1. /\ UNCHANGED <<tstate, ntrg, wire, lost, up, leftover, sstate, event, ns0, thread, toAsk>>
      /\ NextEvent' = NextEvent
  BY DEF FillEvent, trigger, web, rest, NextEvent
<1>2. /\ poller[s] = "fill" /\ stat'[s] = b.event
      /\ b.ntrg = 1 => burst'[s] = NoBurst /\ poller'[s] = "loop"
      /\ b.ntrg # 1 => burst'[s] = Burst(b.event + 1, b.bx + 1, b.ntrg - 1) /\ poller'[s] = "fill"
      /\ \A r \in Servers \ {s} : burst'[r] = burst[r] /\ stat'[r] = stat[r] /\ poller'[r] = poller[r]
  BY DEF FillEvent, ChainType, TypeOK, ServerTypeOK
<1>3. b.event \in Nat /\ b.ntrg \in Nat \ {0} /\ stat[s] \in Nat
  BY <1>2 DEF ChainType, TypeOK, ServerTypeOK, Bursts, NoBurst, Burst
<1>4. sstate[s] = "RUNNING" /\ ~Fresh(s)
  BY <1>2 DEF ChainType, TypeOK, ServerTypeOK, Fresh
<1>5. First(s) = b.event
  BY <1>2 DEF First
<1> HIDE DEF b
<1>6. ASSUME Contiguous(s) PROVE Contiguous(s)' /\ First(s)' = b.event + 1
  <2>1. b.event + b.ntrg = IF wire[s] = <<>> THEN NextEvent ELSE wire[s][1].event
    BY <1>2, <1>6 DEF Contiguous, b
  <2>2. CASE b.ntrg = 1
    BY <1>1, <1>2, <1>6, <2>1, <2>2 DEF Contiguous, First
  <2>3. CASE b.ntrg # 1
    <3>1. burst'[s].event = b.event + 1 /\ burst'[s].ntrg = b.ntrg - 1
      BY <1>2, <2>3 DEF Burst
    <3>2. burst'[s].event + burst'[s].ntrg = b.event + b.ntrg
      BY <1>3, <3>1
    <3> QED BY <1>1, <1>2, <1>6, <2>1, <2>3, <3>1, <3>2 DEF Contiguous, First
  <2> QED BY <2>2, <2>3
<1>7. ASSUME NEW r \in Servers \ {s}, Contiguous(r) PROVE Contiguous(r)' /\ First(r)' = First(r)
  BY <1>1, <1>2, <1>7 DEF Contiguous, First
<1>8. StreamInv'
  <2>1. ASSUME Clean, tstate = "RUNNING", NEW r \in Servers PROVE Contiguous(r)' /\ stat'[r] <= First(r)'
    <3>1. Contiguous(r) /\ stat[r] <= First(r)
      BY <2>1 DEF BacklogInv, StreamInv
    <3> QED BY <1>2, <1>3, <1>6, <1>7, <3>1
  <2> QED BY <1>1, <1>2, <1>4, <2>1 DEF BacklogInv, StreamInv, Clean, Fresh
<1>9. LagInv'
  <2> SUFFICES ASSUME Clean, tstate = "RUNNING", NEW c \in Clients
      PROVE  /\ NextEvent - stat'[c] <= 3 * ntrg
             /\ thread = "check" /\ c \notin toAsk => event - stat'[c] <= 2 * ntrg
             /\ thread = "post" => event - stat'[c] <= 2 * ntrg
    BY <1>1 DEF LagInv, Clean
  <2>1. stat[c] \in Nat /\ stat'[c] \in Nat /\ stat[c] <= stat'[c]
    <3>1. stat[s] <= b.event
      BY <1>5 DEF BacklogInv, StreamInv
    <3>2. c \in Servers /\ stat[c] \in Nat
      BY SoftTriggerAssumption DEF ChainType, TypeOK, ServerTypeOK
    <3> QED BY <1>2, <1>3, <3>1, <3>2
  <2>2. /\ NextEvent - stat[c] <= 3 * ntrg
        /\ thread = "check" /\ c \notin toAsk => event - stat[c] <= 2 * ntrg
        /\ thread = "post" => event - stat[c] <= 2 * ntrg
    BY DEF BacklogInv, LagInv
  <2>3. NextEvent \in Nat /\ event \in Nat /\ ntrg \in Nat
    BY NextEventType, NtrgPositive DEF ChainType, TypeOK, TriggerTypeOK
  <2> QED BY <2>1, <2>2, <2>3
<1> QED BY <1>8, <1>9 DEF BacklogInv

LEMMA BacklogNext ==
  ASSUME ~NtrgAnytime, Small, ChainType, ThreadInv, BacklogInv, [Next]_vars
  PROVE  BacklogInv'
<1> USE DEF shared, trigger, web, server, history, rest
<1>1. CASE BeginRun
  BY <1>1 DEF BeginRun, Stopped, BacklogInv, StreamInv, LagInv
<1>2. CASE StartTrigger
  BY <1>2, StartTriggerBacklog
<1>3. CASE StopTrigger
  <2>1. /\ UNCHANGED <<tstate, wire, stat, lost, leftover, burst, poller, sstate>>
        /\ UNCHANGED <<thread, event, ntrg, ns0, toAsk>>
        /\ up' = FALSE
    BY <1>3 DEF StopTrigger, TriggerStop
  <2>2. NextEvent' = NextEvent
    BY <2>1 DEF NextEvent
  <2>3. StreamInv'
    BY <2>1, <2>2, StreamKept DEF BacklogInv, StreamInv, Clean, Fresh
  <2>4. LagInv'
    BY <2>1, <2>2 DEF BacklogInv, LagInv, Clean
  <2> QED BY <2>3, <2>4 DEF BacklogInv
<1>4. CASE Configure
  <2>1. tstate' # "RUNNING" /\ up' = FALSE
    BY <1>4 DEF Configure, TriggerConfigure, TriggerHalt, Destroy, ServerConfigure, ChainType
  <2> QED BY <2>1, BacklogIdle
<1>5. ASSUME NEW s \in Servers, StartServer(s) PROVE BacklogInv'
  BY <1>5, StartServerBacklog
<1>6. ASSUME NEW s \in Servers, StopServer(s) PROVE BacklogInv'
  <2>1. tstate' # "RUNNING" /\ up' = FALSE
    BY <1>6 DEF StopServer, ServerStop, ChainType
  <2> QED BY <2>1, BacklogIdle
<1>7. CASE Command
  <2>1. ASSUME NEW value \in BOOLEAN, Pause(value), UNCHANGED <<server, history, rest>> PROVE BacklogInv'
    <3>1. NextEvent' = NextEvent
      BY <2>1 DEF Pause, NextEvent
    <3>2. \A c \in Clients : Clean /\ tstate = "RUNNING" =>
           /\ thread' = "check" /\ c \notin toAsk' => event' - stat[c] <= 2 * ntrg
           /\ thread' = "post" => event' - stat[c] <= 2 * ntrg
      BY <2>1 DEF Pause, BacklogInv, LagInv
    <3> QED BY <2>1, <3>1, <3>2, TriggerBacklog DEF Pause
  <2>2. ASSUME NEW n \in Ntrgs, SetNtrg(n), UNCHANGED <<server, history, rest>> PROVE BacklogInv'
    BY <2>2 DEF SetNtrg, BacklogInv, StreamInv, LagInv, Clean, Fresh
  <2> QED BY <1>7, <2>1, <2>2 DEF Command
<1>8. CASE TriggerThread
  BY <1>8, TriggerThreadBacklog
<1>9. ASSUME NEW s \in Servers, ServerThread(s) PROVE BacklogInv'
  <2>1. CASE NextPoll(s) \/ PollTimeout(s)
    <3>1. /\ UNCHANGED <<tstate, ntrg, wire, stat, lost, up, leftover, burst, sstate, event, ns0, thread, toAsk>>
          /\ NextEvent' = NextEvent
      BY <1>9, <2>1 DEF ServerThread, NextPoll, PollTimeout, NextEvent
    <3>2. \A r \in Servers : poller'[r] = "fill" <=> poller[r] = "fill"
      BY <2>1 DEF NextPoll, PollTimeout, ChainType, TypeOK, ServerTypeOK
    <3>3. StreamInv'
      BY <3>1, <3>2, StreamKept DEF BacklogInv, StreamInv, Clean, Fresh
    <3>4. LagInv'
      BY <3>1 DEF BacklogInv, LagInv, Clean
    <3> QED BY <3>3, <3>4 DEF BacklogInv
  <2> QED BY <1>9, <2>1, ReceiveBurstBacklog, FillEventBacklog DEF ServerThread, PollThread
<1>10. CASE TriggerStopped /\ UNCHANGED <<server, history, rest>>
  <2>1. tstate' # "RUNNING" /\ up' = FALSE
    BY <1>10 DEF TriggerStopped, Destroy, ThreadInv, ChainType
  <2> QED BY <2>1, BacklogIdle
<1>11. ASSUME NEW s \in Servers, ServerStopped(s), UNCHANGED <<trigger, rest>> PROVE BacklogInv'
  <2>1. tstate' # "RUNNING" /\ up' = FALSE
    BY <1>11 DEF ServerStopped, ThreadInv, ChainType, TypeOK, TriggerTypeOK
  <2> QED BY <2>1, BacklogIdle
<1>12. CASE UNCHANGED vars
  <2>1. NextEvent' = NextEvent
    BY <1>12 DEF vars, NextEvent
  <2>2. StreamInv'
    BY <1>12, <2>1, StreamKept DEF vars, BacklogInv, StreamInv, Clean, Fresh
  <2>3. LagInv'
    BY <1>12, <2>1 DEF vars, BacklogInv, LagInv, Clean
  <2> QED BY <2>2, <2>3 DEF BacklogInv
<1> QED
  BY <1>1, <1>2, <1>3, <1>4, <1>5, <1>6, <1>7, <1>8, <1>9, <1>10, <1>11, <1>12
  DEF Next, RunCommand, Joined

\* The unread bursts of a server add up to what lies between its event and the
\* trigger's.
LEMMA UnreadIs ==
  ASSUME ChainType, NEW s \in Servers, Contiguous(s)
  PROVE  Unread(s) = NextEvent - First(s)
<1> DEFINE w == wire[s]  a == burst[s].ntrg
<1>1. w \in Seq(Bursts) /\ a \in Nat /\ First(s) \in Nat /\ NextEvent \in Nat
  BY BurstTyped, FirstBound, NextEventType
<1>2. \A i \in DOMAIN w : w[i].event \in Nat /\ w[i].ntrg \in Nat
  BY BurstTyped
<1>3. poller[s] # "fill" => a = 0
  BY DEF ChainType, NoBurst, Burst
<1>4. burst[s].event \in Nat
  BY BurstTyped
<1>5. \A i \in DOMAIN w : i < Len(w) => w[i].event + w[i].ntrg = w[i + 1].event
  BY DEF Contiguous
<1>6. w # <<>> => w[1].event = First(s) + a
  <2>1. w # <<>> => w[1].event \in Nat
    BY <1>1, <1>2
  <2> QED BY <1>3, <1>4, <2>1 DEF Contiguous, First
<1>7. w # <<>> => w[Len(w)].event + w[Len(w)].ntrg = NextEvent
  <2>1. w # <<>> => Len(w) \in DOMAIN w
    BY <1>1
  <2> QED BY <2>1 DEF Contiguous
<1>8. w = <<>> => NextEvent = First(s) + a
  BY <1>1, <1>3, <1>4 DEF Contiguous, First
<1>9. Unread(s) = Pending(w, a)[Len(w)]
  BY UnreadIsPending
<1> HIDE DEF w, a
<1>10. Pending(w, a)[Len(w)] = NextEvent - First(s)
  BY <1>1, <1>5, <1>6, <1>7, <1>8, PendingTelescopes
<1> QED BY <1>9, <1>10

\* As long as no burst is lost or left over, asking the clients' STATUS keeps
\* every one of them within three bursts of the trigger
\* (softTrigger::publishingThread, softTrigger.cxx:200).
THEOREM BacklogBoundedHolds ==
  ASSUME ~NtrgAnytime, Small PROVE Spec => []BacklogBounded
<1>1. Init => BacklogInv
  BY BacklogInit
<1>2. ChainType /\ ThreadInv /\ BacklogInv /\ [Next]_vars => BacklogInv'
  BY BacklogNext
<1>3. ASSUME ChainType, BacklogInv PROVE BacklogBounded
  <2> SUFFICES ASSUME tstate = "RUNNING", Clean, NEW s \in Clients PROVE Unread(s) <= 3 * ntrg
    BY DEF BacklogBounded, Clean
  <2>1. s \in Servers
    BY SoftTriggerAssumption
  <2>2. Contiguous(s) /\ stat[s] <= First(s) /\ NextEvent - stat[s] <= 3 * ntrg
    BY <1>3, <2>1 DEF BacklogInv, StreamInv, LagInv
  <2>3. Unread(s) = NextEvent - First(s) /\ First(s) \in Nat
    BY <1>3, <2>1, <2>2, UnreadIs, FirstBound
  <2>4. stat[s] \in Nat /\ NextEvent \in Nat /\ ntrg \in Nat
    BY <1>3, <2>1, NextEventType, NtrgPositive DEF ChainType, TypeOK, ServerTypeOK
  <2> QED BY <2>2, <2>3, <2>4
<1> QED BY <1>1, <1>2, <1>3, Threads, PTL DEF Spec
=============================================================================
