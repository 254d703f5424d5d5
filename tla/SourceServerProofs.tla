-------------------------- MODULE SourceServerProofs --------------------------
EXTENDS SourceServer, TLAPS

(***************************************************************************)
(* Proofs about SourceServer.                                              *)
(*                                                                         *)
(* ServerInv is inductive for any sources, layouts of builders,            *)
(* configurations and triggers, whatever the builders do with what they    *)
(* are sent.  Its parts rest on one another in this order: ThreadInv says  *)
(* that in an undisturbed server the threads are those of the mode and     *)
(* that there are none where a join has gone through; AloneInv, that the   *)
(* threads of the stand-alone mode never get as far as a sender;           *)
(* QuietUnlessRunning and Survives follow, because what deletes a sender   *)
(* finds no thread; BurstInv says how far each source has come within a    *)
(* burst, which is WholeEvents outside of one.  There is one lemma for     *)
(* each action, with one step for each part.                               *)
(***************************************************************************)
(***************************************************************************)
(* What a step of the poll thread p leaves in at and task.                 *)
(***************************************************************************)
Gone(p, place, t) ==
  /\ at' \in [Pollers -> PollerAt] /\ task' \in [Pollers -> Task]
  /\ at'[p] = place /\ task'[p] = t
  /\ \A q \in Pollers \ {p} : at'[q] = at[q] /\ task'[q] = task[q]

LEMMA GoesThere ==
  ASSUME TypeOK, NEW p \in Pollers, NEW place \in PollerAt, NEW t \in Task, Goes(p, place, t)
  PROVE  Gone(p, place, t)
BY DEF TypeOK, Goes, Gone

LEMMA PollsIsTask ==
  ASSUME NEW i \in Nat
  PROVE  Polls(i) \in Task /\ Polls(i).of = i /\ Polls(i).src = 1
BY SourceServerAssumption DEF Polls, Task, Sources

\* A poll thread that runs in an undisturbed server is the only thread.
LEMMA OnlyPoller ==
  ASSUME ServerInv, ~switched, NEW p \in Pollers, at[p] # "none"
  PROVE  /\ \A q \in Pollers \ {p} : at[q] = "none"
         /\ \A s \in Sources : stream[s] = "none"
         /\ state \notin {"INITIALISED", "CONFIGURED"}
BY DEF ServerInv, QuietUnlessRunning

\* A bunch crossing cut to 32 bits is a number.
LEMMA GtcNat ==
  ASSUME NEW k \in Nat
  PROVE  Gtc(k) \in Nat
BY SourceServerAssumption DEF Gtc

LEMMA SurvivesKept ==
  ASSUME Survives, UNCHANGED <<state, layout, switched, subscriber>>
  PROVE  Survives'
BY DEF Survives, Instances, Builders

LEMMA SurvivesWithoutBuilders ==
  ASSUME Instances = {}, UNCHANGED layout
  PROVE  Survives'
BY DEF Survives, Instances, Builders

LEMMA NextPollStep ==
  ASSUME ServerInv, NEW p \in Pollers, NextPoll(p)
  PROVE  ServerInv'
<1> USE SourceServerAssumption DEF ServerInv, NextPoll, Alive, Idle, NoCopy, NoStat, Instances, Builders, control, poller, streamer, out, env
<1>1. TypeOK'
  BY DEF TypeOK, PollerAt, Task, Burst, Values
<1>2. ThreadInv'
  BY DEF TypeOK, Task, ThreadInv, QuietUnlessRunning
<1>3. AloneInv'
  BY DEF TypeOK, AloneInv, ThreadInv, QuietUnlessRunning
<1>4. QuietUnlessRunning'
  BY DEF TypeOK, QuietUnlessRunning, ThreadInv, AloneInv
<1>5. Survives'
  BY DEF TypeOK, Survives, ThreadInv, AloneInv
<1>6. BurstInv'
  BY SMTT(30) DEF TypeOK, Task, BurstInv, Busy, WholeEvents, QuietUnlessRunning, ThreadInv, AloneInv
<1>7. WholeEvents'
  BY DEF TypeOK, Task, BurstInv, Busy, WholeEvents, QuietUnlessRunning, ThreadInv, AloneInv
<1> QED BY <1>1, <1>2, <1>3, <1>4, <1>5, <1>6, <1>7

LEMMA PollTimeoutStep ==
  ASSUME ServerInv, NEW p \in Pollers, PollTimeout(p)
  PROVE  ServerInv'
<1> USE SourceServerAssumption DEF ServerInv, PollTimeout, Alive, Idle, NoCopy, NoStat, Instances, Builders, control, poller, streamer, out, env
<1>1. TypeOK'
  BY DEF TypeOK, PollerAt, Task, Burst, Values
<1>2. ThreadInv'
  BY DEF TypeOK, Task, ThreadInv, QuietUnlessRunning
<1>3. AloneInv'
  BY DEF TypeOK, AloneInv, ThreadInv, QuietUnlessRunning
<1>4. QuietUnlessRunning'
  BY DEF TypeOK, QuietUnlessRunning, ThreadInv, AloneInv
<1>5. Survives'
  BY DEF TypeOK, Survives, ThreadInv, AloneInv
<1>6. BurstInv'
  BY SMTT(30) DEF TypeOK, Task, BurstInv, Busy, WholeEvents, QuietUnlessRunning, ThreadInv, AloneInv
<1>7. WholeEvents'
  BY SMTT(30) DEF TypeOK, Task, BurstInv, Busy, WholeEvents, QuietUnlessRunning, ThreadInv, AloneInv
<1> QED BY <1>1, <1>2, <1>3, <1>4, <1>5, <1>6, <1>7

LEMMA ReceiveBurstStep ==
  ASSUME ServerInv, NEW p \in Pollers, ReceiveBurst(p)
  PROVE  ServerInv'
<1> DEFINE i == task[p].of
           burst == Head(inbox[i])
           taken == mode # "ALONE" /\ senders
           place == IF taken THEN "fill" ELSE "loop"
           t == IF taken THEN [task[p] EXCEPT !.left = burst.ntrg] ELSE task[p]
<1> USE DEF ServerInv
<1>1. Alive /\ at[p] = "poll" /\ i \in 1..MaxConfigures /\ task[p] \in Task
  BY DEF ReceiveBurst, TypeOK, ThreadInv
<1>2. inbox[i] \in Seq(Burst) /\ inbox[i] # <<>>
  BY <1>1 DEF ReceiveBurst, TypeOK
<1>3. burst \in Burst /\ Tail(inbox[i]) \in Seq(Burst)
  BY <1>2
<1>4. t \in Task /\ t.of = i /\ t.src = task[p].src /\ (place = "fill" => t.left > 0)
  <2>1. CASE taken
    <3>1. burst.ntrg \in Nat \ {0}
      BY <1>3 DEF Burst
    <3>2. t = [task[p] EXCEPT !.left = burst.ntrg]
      BY <2>1
    <3> QED BY <1>1, <3>1, <3>2 DEF Task
  <2>2. CASE ~taken
    BY <1>1, <2>2
  <2> QED BY <2>1, <2>2
<1>5. Goes(p, place, t)
  BY DEF ReceiveBurst
<1>6. Gone(p, place, t)
  BY <1>4, <1>5, GoesThere DEF PollerAt
<1>7. UNCHANGED <<layout, complete, state, web, mode, running, senders, subscriber, polling, stream,
                  lastEvt, copy, stat, sent, trig, changes, switched>>
  BY DEF ReceiveBurst, control, streamer, out, env
<1>8. event' \in Nat /\ bx' \in Nat
  <2>1. burst.event \in Nat /\ burst.bx \in Nat /\ burst.ntrg \in Nat
    BY <1>3 DEF Burst
  <2> HIDE DEF burst
  <2>2. \/ event' = event /\ bx' = bx
        \/ event' = burst.event /\ bx' = burst.bx
        \/ event' = burst.event + burst.ntrg /\ bx' = burst.bx + burst.ntrg
    BY <2>1 DEF ReceiveBurst, burst
  <2> QED BY <2>1, <2>2 DEF TypeOK
<1>9. inbox' \in [1..MaxConfigures -> Seq(Burst)]
  BY <1>1, <1>3 DEF ReceiveBurst, TypeOK
<1> HIDE DEF i, burst, taken, place, t
<1>10. TypeOK'
  BY <1>6, <1>7, <1>8, <1>9 DEF TypeOK, Gone
<1>11. place \in {"fill", "loop"} /\ t.src = task[p].src
  BY <1>4 DEF place
<1>12. ThreadInv'
  BY <1>1, <1>4, <1>6, <1>7, <1>11 DEF ThreadInv, Gone, Alive, i
<1>13. AloneInv'
  BY <1>1, <1>7, OnlyPoller DEF AloneInv
<1>14. QuietUnlessRunning'
  BY <1>1, <1>6, <1>7, <1>11, OnlyPoller DEF QuietUnlessRunning, Gone
<1>15. Survives'
  BY <1>7 DEF Survives, Instances, Builders
<1>16. ASSUME ~switched PROVE \A s \in Sources : sent[s] = sent[NSources]
  BY <1>1, <1>16, OnlyPoller, SourceServerAssumption DEF WholeEvents, Sources
<1>17. BurstInv'
  <2>1. ASSUME ~switched PROVE task[p].src = 1 /\ \A q \in Pollers \ {p} : ~Busy(q)
    BY <1>1, <2>1, OnlyPoller DEF BurstInv, Busy
  <2> QED
    BY <1>1, <1>6, <1>7, <1>11, <1>16, <2>1 DEF BurstInv, Busy, Gone, Alive, Sources
<1>18. WholeEvents'
  BY <1>7, <1>16 DEF WholeEvents
<1> QED BY <1>10, <1>12, <1>13, <1>14, <1>15, <1>17, <1>18

LEMMA FillEventStep ==
  ASSUME ServerInv, NEW p \in Pollers, FillEvent(p)
  PROVE  ServerInv'
<1> DEFINE t == [task[p] EXCEPT !.event = event, !.key = bx]
<1> USE DEF ServerInv
<1>1. Alive /\ at[p] = "fill" /\ task[p] \in Task
  BY DEF FillEvent, TypeOK
<1>2. /\ t \in Task /\ t.of = task[p].of /\ t.src = task[p].src /\ t.left = task[p].left
      /\ t.event = event /\ t.key = bx
  BY <1>1 DEF Task, TypeOK
<1>3. Gone(p, "send", t)
  BY <1>2, GoesThere DEF FillEvent, PollerAt
<1>4. UNCHANGED <<layout, complete, state, web, mode, running, senders, subscriber, polling, stream, inbox,
                  event, bx, lastEvt, copy, stat, sent, trig, changes, switched>>
  BY DEF FillEvent, control, streamer, out, env
<1> HIDE DEF t
<1>5. TypeOK'
  BY <1>3, <1>4 DEF TypeOK, Gone
<1>6. ThreadInv'
  BY <1>1, <1>2, <1>3, <1>4 DEF ThreadInv, Gone, Alive
<1>7. AloneInv'
  BY <1>1, <1>4, OnlyPoller DEF AloneInv
<1>8. QuietUnlessRunning'
  BY <1>1, <1>3, <1>4, OnlyPoller DEF QuietUnlessRunning, Gone
<1>9. Survives'
  BY <1>4 DEF Survives, Instances, Builders
<1>10. BurstInv'
  <2>1. ASSUME ~switched PROVE \A q \in Pollers \ {p} : at[q] = "none"
    BY <1>1, <2>1, OnlyPoller
  <2> QED BY <1>1, <1>2, <1>3, <1>4, <2>1 DEF BurstInv, Busy, Gone, Alive
<1>11. WholeEvents'
  BY <1>3 DEF WholeEvents, Gone
<1> QED BY <1>5, <1>6, <1>7, <1>8, <1>9, <1>10, <1>11

LEMMA SendStep ==
  ASSUME ServerInv, NEW p \in Pollers, Send(p)
  PROVE  ServerInv'
<1> DEFINE t == IF task[p].src < NSources THEN [task[p] EXCEPT !.src = @ + 1]
                ELSE IF task[p].left > 1 THEN [task[p] EXCEPT !.src = 1, !.left = @ - 1]
                ELSE Polls(task[p].of)
           place == IF task[p].src < NSources \/ task[p].left > 1 THEN "fill" ELSE "loop"
<1> USE DEF ServerInv
<1>1. Alive /\ at[p] = "send" /\ task[p] \in Task /\ task[p].left > 0
  BY DEF Send, TypeOK, ThreadInv
<1>2. task[p].src \in 1..NSources /\ task[p].left \in Nat
  BY <1>1 DEF Task, Sources
<1>3. Advance(p)
  BY DEF Send
<1>4. Goes(p, place, t)
  <2>1. CASE NextSource(p)
    BY <2>1 DEF NextSource
  <2>2. CASE NextTrigger(p)
    BY <1>2, <2>2 DEF NextTrigger
  <2>3. CASE EndOfBurst(p)
    BY <1>2, <2>3 DEF EndOfBurst
  <2> QED BY <1>3, <2>1, <2>2, <2>3 DEF Advance
<1>5. /\ task[p].src < NSources => event' = event /\ bx' = bx
      /\ task[p].src = NSources => event' = event + 1 /\ bx' = bx + 1
  BY <1>2, <1>3, SourceServerAssumption DEF Advance, NextSource, NextTrigger, EndOfBurst
<1>6. /\ t \in Task /\ t.of = task[p].of /\ (place = "fill" => t.left > 0)
      /\ task[p].src < NSources => place = "fill" /\ t.src = task[p].src + 1
      /\ task[p].src = NSources => t.src = 1
  <2>1. CASE task[p].src < NSources
    <3>1. t = [task[p] EXCEPT !.src = @ + 1] /\ place = "fill"
      BY <2>1
    <3>2. task[p].src + 1 \in Sources /\ task[p].src # NSources
      BY <1>2, <2>1, SourceServerAssumption DEF Sources
    <3>3. task[p].left > 0
      BY <1>1
    <3> HIDE DEF t, place
    <3> QED BY <1>1, <3>1, <3>2, <3>3 DEF Task
  <2>2. CASE task[p].src = NSources /\ task[p].left > 1
    <3>1. t = [task[p] EXCEPT !.src = 1, !.left = @ - 1] /\ place = "fill"
      BY <2>2, SourceServerAssumption
    <3>2. task[p].left - 1 \in Nat /\ task[p].left - 1 > 0 /\ 1 \in Sources
      BY <1>2, <2>2, SourceServerAssumption DEF Sources
    <3> QED BY <1>1, <2>2, <3>1, <3>2, SourceServerAssumption DEF Task
  <2>3. CASE task[p].src = NSources /\ ~(task[p].left > 1)
    <3>1. task[p].of \in Nat
      BY <1>1 DEF Task
    <3>2. t = Polls(task[p].of) /\ place = "loop"
      BY <2>3, SourceServerAssumption
    <3> HIDE DEF t, place
    <3> QED BY <2>3, <3>1, <3>2, PollsIsTask, SourceServerAssumption
  <2> QED BY <1>2, <2>1, <2>2, <2>3, SourceServerAssumption
<1>7. Gone(p, place, t)
  BY <1>4, <1>6, GoesThere DEF PollerAt
<1>8. UNCHANGED <<layout, complete, state, web, mode, running, senders, subscriber, polling, stream, inbox,
                  lastEvt, copy, trig, changes, switched>>
  BY DEF Send, control, streamer, env
<1>9. /\ stat' = [stat EXCEPT ![task[p].src] = task[p].event]
      /\ sent' = IF switched THEN sent
                 ELSE [sent EXCEPT ![task[p].src] = @ \cup {<<Gtc(task[p].key), task[p].event>>}]
  BY DEF Send, Publish
<1>10. place \in {"fill", "loop"}
  OBVIOUS
<1> HIDE DEF t, place
<1>11. TypeOK'
  <2>1. task[p].event \in Nat /\ task[p].key \in Nat
    BY <1>1 DEF Task
  <2>2. stat' \in [Sources -> Nat]
    BY <1>9, <2>1 DEF TypeOK
  <2>3. sent' \in [Sources -> SUBSET (Nat \X Nat)]
    <3>1. <<Gtc(task[p].key), task[p].event>> \in Nat \X Nat
      BY <2>1, GtcNat
    <3> QED BY <1>9, <3>1 DEF TypeOK
  <2>4. event' \in Nat /\ bx' \in Nat
    BY <1>2, <1>5, SourceServerAssumption DEF TypeOK
  <2> QED BY <1>7, <1>8, <2>2, <2>3, <2>4 DEF TypeOK, Gone
<1>12. ThreadInv'
  BY <1>1, <1>6, <1>7, <1>8, <1>10 DEF ThreadInv, Gone, Alive
<1>13. AloneInv'
  BY <1>1, <1>8, OnlyPoller DEF AloneInv
<1>14. QuietUnlessRunning'
  BY <1>1, <1>7, <1>8, <1>10, OnlyPoller DEF QuietUnlessRunning, Gone
<1>15. Survives'
  BY <1>8 DEF Survives, Instances, Builders
<1>16. CASE switched
  BY <1>8, <1>11, <1>12, <1>13, <1>14, <1>15, <1>16 DEF BurstInv, WholeEvents
<1>17. CASE ~switched
  <2> DEFINE e == {<<Gtc(bx), event>>}
             k == task[p].src
  <2>1. \A q \in Pollers \ {p} : at[q] = "none" /\ at'[q] = "none" /\ task'[q].src = 1
    BY <1>1, <1>7, <1>17, OnlyPoller DEF BurstInv, Busy, Gone
  <2>2. sent' = [sent EXCEPT ![k] = @ \cup e]
    BY <1>1, <1>9, <1>17 DEF BurstInv
  <2>3. \A s \in Sources : sent[s] = sent[NSources] \cup (IF s < k THEN e ELSE {})
    BY <1>1, <1>17 DEF BurstInv, Busy
  <2>4. \A s \in Sources : sent'[s] = IF s = k THEN sent[s] \cup e ELSE sent[s]
    BY <1>2, <2>2 DEF TypeOK, Sources
  <2>5. NSources \in Sources
    BY SourceServerAssumption DEF Sources
  <2> k \in 1..NSources /\ NSources \in Nat
    BY <1>2, SourceServerAssumption
  <2> HIDE DEF e, k
  <2>6. CASE k < NSources
    <3>1. sent'[NSources] = sent[NSources]
      <4>1. NSources # k
        BY <2>6
      <4> QED BY <2>4, <2>5, <4>1
    <3>2. \A s \in Sources : sent'[s] = sent'[NSources] \cup (IF s < k + 1 THEN e ELSE {})
      <4> TAKE s \in Sources
      <4>1. s \in Nat /\ k \in Nat
        BY DEF Sources
      <4>2. CASE s < k
        BY <2>3, <2>4, <3>1, <4>1, <4>2
      <4>3. CASE s = k
        <5>1. ~(s < k) /\ s < k + 1
          BY <4>1, <4>3
        <5>2. sent[s] = sent[NSources] \cup {}
          BY <2>3, <5>1
        <5> QED BY <2>4, <3>1, <4>3, <5>1, <5>2
      <4>4. CASE s > k
        <5>1. ~(s < k) /\ ~(s < k + 1) /\ s # k
          BY <4>1, <4>4
        <5>2. sent[s] = sent[NSources] \cup {}
          BY <2>3, <5>1
        <5> QED BY <2>4, <3>1, <5>1, <5>2
      <4> QED BY <4>1, <4>2, <4>3, <4>4
    <3>3. place = "fill" /\ task'[p].src = k + 1 /\ at'[p] = "fill" /\ bx' = bx /\ event' = event
      BY <1>5, <1>6, <1>7, <2>6 DEF Gone, k
    <3>4. BurstInv'
      BY <2>1, <3>2, <3>3 DEF BurstInv, Busy, e
    <3>5. WholeEvents'
      BY <3>3 DEF WholeEvents
    <3> QED BY <1>11, <1>12, <1>13, <1>14, <1>15, <3>4, <3>5
  <2>7. CASE k = NSources
    <3>1. \A s \in Sources : sent'[s] = sent[NSources] \cup e
      <4> TAKE s \in Sources
      <4>1. CASE s = k
        BY <2>4, <2>7, <4>1
      <4>2. CASE s # k
        <5>1. s < k
          BY <2>7, <4>2 DEF Sources
        <5> QED BY <2>3, <2>4, <4>2, <5>1
      <4> QED BY <4>1, <4>2
    <3>2. \A s \in Sources : sent'[s] = sent'[NSources]
      BY <2>5, <3>1
    <3>3. task'[p].src = 1 /\ at'[p] # "send"
      BY <1>6, <1>7, <1>10, <2>7 DEF Gone, k
    <3>4. BurstInv'
      BY <2>1, <3>2, <3>3 DEF BurstInv, Busy, Sources
    <3>5. WholeEvents'
      BY <3>2 DEF WholeEvents
    <3> QED BY <1>11, <1>12, <1>13, <1>14, <1>15, <3>4, <3>5
  <2> QED BY <2>6, <2>7
<1> QED BY <1>16, <1>17

LEMMA PollerDanglesStep ==
  ASSUME ServerInv, NEW p \in Pollers, PollerDangles(p)
  PROVE  ServerInv'
<1> USE DEF ServerInv
<1>1. Alive /\ at[p] = "dangling" /\ task[p] \in Task /\ task[p].of \in 1..MaxConfigures
  BY DEF PollerDangles, TypeOK, ThreadInv
<1>2. switched /\ switched' = switched
  BY <1>1 DEF PollerDangles, ThreadInv, env
<1>3. UNCHANGED <<layout, complete, web, mode, running, senders, subscriber, polling, stream, inbox, event,
                  bx, lastEvt, copy, stat, sent, trig, changes>>
  BY DEF PollerDangles, streamer, out, env
<1>4. CASE state' = "DOWN" /\ UNCHANGED poller
  BY <1>2, <1>3, <1>4 DEF poller, TypeOK, ThreadInv, Alive, AloneInv, QuietUnlessRunning,
     Survives, BurstInv, WholeEvents
<1>5. CASE Goes(p, "loop", Polls(task[p].of)) /\ UNCHANGED state
  <2>1. task[p].of \in Nat
    BY <1>1 DEF Task
  <2>2. Gone(p, "loop", Polls(task[p].of)) /\ Polls(task[p].of).of = task[p].of
    BY <1>5, <2>1, PollsIsTask, GoesThere DEF PollerAt
  <2>3. TypeOK'
    BY <1>3, <1>2, <1>5, <2>2 DEF TypeOK, Gone
  <2>4. ThreadInv'
    BY <1>1, <1>2, <1>3, <1>5, <2>2 DEF ThreadInv, Gone, Alive
  <2> QED BY <1>2, <1>5, <2>3, <2>4 DEF AloneInv, QuietUnlessRunning, Survives, BurstInv, WholeEvents
<1> QED BY <1>4, <1>5 DEF PollerDangles

LEMMA StreamLookStep ==
  ASSUME ServerInv, NEW s \in Sources, StreamLook(s)
  PROVE  ServerInv'
<1> USE SourceServerAssumption DEF ServerInv, StreamLook, Alive, Idle, NoCopy, NoStat, Instances, Builders, control, poller, streamer, out, env
<1>1. TypeOK'
  <2>1. [event |-> event, bx |-> bx] \in Values
    BY DEF TypeOK, Values
  <2>2. copy' \in [Sources -> Values]
    BY <2>1 DEF TypeOK
  <2> QED BY <2>2 DEF TypeOK
<1>2. ThreadInv'
  BY DEF TypeOK, Task, ThreadInv, QuietUnlessRunning
<1>3. AloneInv'
  BY DEF TypeOK, AloneInv, ThreadInv, QuietUnlessRunning
<1>4. QuietUnlessRunning'
  BY DEF TypeOK, QuietUnlessRunning, ThreadInv, AloneInv
<1>5. Survives'
  BY DEF TypeOK, Survives, ThreadInv, AloneInv
<1>6. BurstInv'
  BY DEF TypeOK, Task, BurstInv, Busy, WholeEvents, QuietUnlessRunning, ThreadInv, AloneInv
<1>7. WholeEvents'
  BY DEF TypeOK, Task, BurstInv, Busy, WholeEvents, QuietUnlessRunning, ThreadInv, AloneInv
<1> QED BY <1>1, <1>2, <1>3, <1>4, <1>5, <1>6, <1>7

LEMMA StreamSendStep ==
  ASSUME ServerInv, NEW s \in Sources, StreamSend(s)
  PROVE  ServerInv'
<1> USE SourceServerAssumption DEF ServerInv, StreamSend, Alive, Idle, NoCopy, NoStat, Instances, Builders, control, poller, streamer, out, env, Publish
<1>1. TypeOK'
  <2>1. copy[s] \in Values /\ copy' \in [Sources -> Values]
    BY DEF TypeOK, Values
  <2>2. stat' \in [Sources -> Nat]
    BY <2>1 DEF TypeOK, Values
  <2>3. sent' \in [Sources -> SUBSET (Nat \X Nat)]
    <3>1. <<Gtc(copy[s].bx), copy[s].event>> \in Nat \X Nat
      BY <2>1, GtcNat DEF Values
    <3> QED BY <3>1 DEF TypeOK
  <2> QED BY <2>1, <2>2, <2>3 DEF TypeOK
<1>2. ThreadInv'
  BY DEF TypeOK, Task, ThreadInv, QuietUnlessRunning
<1>3. AloneInv'
  BY DEF TypeOK, AloneInv, ThreadInv, QuietUnlessRunning
<1>4. QuietUnlessRunning'
  BY DEF TypeOK, QuietUnlessRunning, ThreadInv, AloneInv
<1>5. Survives'
  BY DEF TypeOK, Survives, ThreadInv, AloneInv
<1>6. BurstInv'
  BY DEF TypeOK, Task, BurstInv, Busy, WholeEvents, QuietUnlessRunning, ThreadInv, AloneInv
<1>7. WholeEvents'
  BY DEF TypeOK, Task, BurstInv, Busy, WholeEvents, QuietUnlessRunning, ThreadInv, AloneInv
<1> QED BY <1>1, <1>2, <1>3, <1>4, <1>5, <1>6, <1>7

LEMMA StreamStoreStep ==
  ASSUME ServerInv, NEW s \in Sources, StreamStore(s)
  PROVE  ServerInv'
<1> USE SourceServerAssumption DEF ServerInv, StreamStore, Alive, Idle, NoCopy, NoStat, Instances, Builders, control, poller, streamer, out, env
<1>1. TypeOK'
  <2>1. copy[s] \in Values
    BY DEF TypeOK
  <2>2. event' \in Nat /\ bx' \in Nat
    BY <2>1 DEF Values
  <2>3. copy' \in [Sources -> Values]
    BY DEF TypeOK, Values
  <2> QED BY <2>2, <2>3 DEF TypeOK
<1>2. ThreadInv'
  BY DEF TypeOK, Task, ThreadInv, QuietUnlessRunning
<1>3. AloneInv'
  BY DEF TypeOK, AloneInv, ThreadInv, QuietUnlessRunning
<1>4. QuietUnlessRunning'
  BY DEF TypeOK, QuietUnlessRunning, ThreadInv, AloneInv
<1>5. Survives'
  BY DEF TypeOK, Survives, ThreadInv, AloneInv
<1>6. BurstInv'
  BY DEF TypeOK, Task, BurstInv, Busy, WholeEvents, QuietUnlessRunning, ThreadInv, AloneInv
<1>7. WholeEvents'
  BY DEF TypeOK, Task, BurstInv, Busy, WholeEvents, QuietUnlessRunning, ThreadInv, AloneInv
<1> QED BY <1>1, <1>2, <1>3, <1>4, <1>5, <1>6, <1>7

LEMMA StreamDanglesStep ==
  ASSUME ServerInv, NEW s \in Sources, StreamDangles(s)
  PROVE  ServerInv'
<1> USE SourceServerAssumption DEF ServerInv, StreamDangles, Alive, Idle, NoCopy, NoStat, Instances, Builders, control, poller, streamer, out, env
<1>1. TypeOK'
  BY DEF TypeOK, PollerAt, Task, Burst, Values
<1>2. ThreadInv'
  BY DEF TypeOK, Task, ThreadInv, QuietUnlessRunning
<1>3. AloneInv'
  BY DEF TypeOK, AloneInv, ThreadInv, QuietUnlessRunning
<1>4. QuietUnlessRunning'
  BY DEF TypeOK, QuietUnlessRunning, ThreadInv, AloneInv
<1>5. Survives'
  BY DEF TypeOK, Survives, ThreadInv, AloneInv
<1>6. BurstInv'
  BY DEF TypeOK, Task, BurstInv, Busy, WholeEvents, QuietUnlessRunning, ThreadInv, AloneInv
<1>7. WholeEvents'
  BY DEF TypeOK, Task, BurstInv, Busy, WholeEvents, QuietUnlessRunning, ThreadInv, AloneInv
<1> QED BY <1>1, <1>2, <1>3, <1>4, <1>5, <1>6, <1>7

LEMMA PublishNowhereStep ==
  ASSUME ServerInv, PublishNowhere
  PROVE  ServerInv'
<1> USE SourceServerAssumption DEF ServerInv, PublishNowhere, Alive, Idle, NoCopy, NoStat, Instances, Builders, control, poller, streamer, out, env
<1>1. TypeOK'
  BY DEF TypeOK, PollerAt, Task, Burst, Values
<1>2. ThreadInv'
  BY DEF TypeOK, Task, ThreadInv, QuietUnlessRunning
<1>3. AloneInv'
  BY DEF TypeOK, AloneInv, ThreadInv, QuietUnlessRunning
<1>4. QuietUnlessRunning'
  BY DEF TypeOK, QuietUnlessRunning, ThreadInv, AloneInv
<1>5. Survives'
  <2>1. UNCHANGED layout /\ Instances = {}
    OBVIOUS
  <2> QED BY <2>1, SurvivesWithoutBuilders
<1>6. BurstInv'
  BY DEF TypeOK, Task, BurstInv, Busy, WholeEvents, QuietUnlessRunning, ThreadInv, AloneInv
<1>7. WholeEvents'
  BY DEF TypeOK, Task, BurstInv, Busy, WholeEvents, QuietUnlessRunning, ThreadInv, AloneInv
<1> QED BY <1>1, <1>2, <1>3, <1>4, <1>5, <1>6, <1>7

LEMMA ConfigureStep ==
  ASSUME ServerInv, Configure
  PROVE  ServerInv'
<1> USE SourceServerAssumption DEF ServerInv, Configure, Alive, Idle, NoCopy, NoStat, Instances, Builders, control, poller, streamer, out, env, DeleteSenders, Connect, GiveUp
<1>1. TypeOK'
  <2>1. inbox' \in [1..MaxConfigures -> Seq(Burst)]
    <3>1. \A i \in 1..MaxConfigures : inbox[i] \in Seq(Burst) /\ <<>> \in Seq(Burst)
      BY DEF TypeOK
    <3>2. UNCHANGED inbox \/ inbox' = [i \in DOMAIN inbox |->
            IF \E p \in Pollers : at[p] # "none" /\ task[p].of = i THEN inbox[i] ELSE <<>>]
      OBVIOUS
    <3> QED BY <3>1, <3>2 DEF TypeOK
  <2>2. at' \in [Pollers -> PollerAt]
    BY DEF TypeOK, PollerAt
  <2>3. stream' \in [Sources -> {"none", "loop", "send", "store", "dangling"}]
    BY DEF TypeOK
  <2>4. senders' \in BOOLEAN
    BY DEF TypeOK, Discovers
  <2>5. subscriber' \in 0..MaxConfigures /\ state' \in {"INITIALISED", "CONFIGURED"}
    BY DEF TypeOK
  <2> QED BY <2>1, <2>2, <2>3, <2>4, <2>5 DEF TypeOK
<1>2. ThreadInv'
  <2>1. /\ \A p \in Pollers : at'[p] = IF at[p] \in {"fill", "send"} THEN "dangling" ELSE at[p]
        /\ UNCHANGED <<web, mode, task, switched>> /\ state # "RUNNING" /\ state' # "RUNNING"
        /\ web = "idle" /\ Alive
    OBVIOUS
  <2>2. ~switched => \A p \in Pollers : at[p] = "none"
    BY <2>1 DEF QuietUnlessRunning, TypeOK
  <2> QED BY <2>1, <2>2 DEF ThreadInv
<1>3. AloneInv'
  BY DEF TypeOK, AloneInv, ThreadInv, QuietUnlessRunning
<1>4. QuietUnlessRunning'
  BY DEF TypeOK, QuietUnlessRunning, ThreadInv, AloneInv
<1>5. Survives'
  BY DEF TypeOK, Survives, ThreadInv, AloneInv
<1>6. BurstInv'
  BY DEF TypeOK, Task, BurstInv, Busy, WholeEvents, QuietUnlessRunning, ThreadInv, AloneInv
<1>7. WholeEvents'
  BY DEF TypeOK, Task, BurstInv, Busy, WholeEvents, QuietUnlessRunning, ThreadInv, AloneInv
<1> QED BY <1>1, <1>2, <1>3, <1>4, <1>5, <1>6, <1>7

LEMMA StartStep ==
  ASSUME ServerInv, Start
  PROVE  ServerInv'
<1> USE DEF ServerInv
<1>1. /\ state = "CONFIGURED" /\ web = "idle" /\ event' = 0 /\ subscriber \in 0..MaxConfigures
      /\ state' \in {"RUNNING", "DOWN"} /\ (state' = "DOWN" => mode # "ALONE" /\ subscriber = 0)
  BY DEF Start, Dereference, Idle, Alive, TypeOK
<1>2. /\ UNCHANGED <<layout, complete, web, mode, senders, subscriber, inbox, bx, copy, sent, trig,
                     changes, switched>>
      /\ running' = TRUE /\ stat' = NoStat
  BY DEF Start, env
<1>3. stat' \in [Sources -> Nat]
  BY <1>2 DEF NoStat
<1>4. Survives'
  BY <1>1, <1>2 DEF Survives
<1>5. ASSUME ~switched
      PROVE  /\ \A p \in Pollers : at[p] = "none" /\ task[p].src = 1
             /\ \A s \in Sources : stream[s] = "none"
             /\ \A s \in Sources : sent[s] = sent[NSources]
  <2>1. (\A p \in Pollers : at[p] = "none") /\ (\A s \in Sources : stream[s] = "none")
    BY <1>1, <1>5 DEF QuietUnlessRunning
  <2> QED BY <1>1, <1>5, <2>1, SourceServerAssumption DEF BurstInv, Busy, WholeEvents, Alive, Sources
<1>6. CASE mode = "ALONE"
  <2>1. /\ \A s \in Sources : stream'[s] \in {"loop", "none"} /\ lastEvt'[s] = 0
        /\ stream' \in [Sources -> {"loop", "none"}] /\ lastEvt' \in [Sources -> Nat]
        /\ UNCHANGED <<polling, at, task>> /\ state' = "RUNNING"
    BY <1>1, <1>6 DEF Start, poller
  <2>2. TypeOK'
    BY <1>1, <1>2, <1>3, <2>1 DEF TypeOK
  <2>3. ThreadInv'
    BY <1>1, <1>2, <1>5, <1>6, <2>1 DEF ThreadInv, Alive
  <2>4. AloneInv'
    BY <1>1, <2>1 DEF AloneInv
  <2>5. QuietUnlessRunning'
    BY <1>1, <1>2, <1>5, <2>1 DEF QuietUnlessRunning
  <2>6. BurstInv' /\ WholeEvents'
    BY <1>2, <1>5, <2>1 DEF BurstInv, Busy, WholeEvents
  <2> QED BY <1>4, <2>2, <2>3, <2>4, <2>5, <2>6
<1>7. CASE mode # "ALONE" /\ subscriber # 0
  <2>1. PICK p \in Pollers : at[p] = "none" /\ Goes(p, "loop", Polls(subscriber))
    BY <1>7 DEF Start
  <2>2. polling' = polling \cup {subscriber} /\ UNCHANGED <<stream, lastEvt>>
    BY <1>7 DEF Start
  <2>3. Gone(p, "loop", Polls(subscriber)) /\ Polls(subscriber).of = subscriber /\ Polls(subscriber).src = 1
    BY <1>1, <2>1, PollsIsTask, GoesThere DEF PollerAt
  <2>4. TypeOK'
    BY <1>1, <1>2, <1>3, <2>2, <2>3 DEF TypeOK, Gone
  <2>5. ThreadInv'
    BY <1>1, <1>2, <1>5, <1>7, <2>2, <2>3 DEF ThreadInv, Alive, Gone
  <2>6. AloneInv'
    BY <1>2, <1>5, <2>2 DEF AloneInv
  <2>7. QuietUnlessRunning'
    BY <1>1, <1>2, <1>5, <2>2, <2>3 DEF QuietUnlessRunning, Gone
  <2>8. BurstInv' /\ WholeEvents'
    BY <1>2, <1>5, <2>3 DEF BurstInv, Busy, WholeEvents, Gone
  <2> QED BY <1>4, <2>4, <2>5, <2>6, <2>7, <2>8
<1>8. CASE mode # "ALONE" /\ subscriber = 0
  <2>1. UNCHANGED <<polling, at, task, stream, lastEvt>>
    BY <1>8 DEF Start, poller
  <2>2. TypeOK'
    BY <1>1, <1>2, <1>3, <2>1 DEF TypeOK
  <2>3. ThreadInv'
    BY <1>1, <1>2, <1>5, <2>1 DEF ThreadInv, Alive
  <2>4. AloneInv'
    BY <1>2, <1>5, <2>1 DEF AloneInv
  <2>5. QuietUnlessRunning'
    BY <1>1, <1>2, <1>5, <2>1 DEF QuietUnlessRunning
  <2>6. BurstInv' /\ WholeEvents'
    BY <1>2, <1>5, <2>1 DEF BurstInv, Busy, WholeEvents
  <2> QED BY <1>4, <2>2, <2>3, <2>4, <2>5, <2>6
<1> QED BY <1>6, <1>7, <1>8

LEMMA SetParameterStep ==
  ASSUME ServerInv, SetParameter
  PROVE  ServerInv'
<1> USE SourceServerAssumption DEF ServerInv, SetParameter, Alive, Idle, NoCopy, NoStat, Instances, Builders, control, poller, streamer, out, env
<1>1. TypeOK'
  <2>1. sent' \in [Sources -> SUBSET (Nat \X Nat)]
    BY DEF TypeOK
  <2> QED BY <2>1 DEF TypeOK
<1>2. ThreadInv'
  BY DEF TypeOK, Task, ThreadInv, QuietUnlessRunning
<1>3. AloneInv'
  BY DEF TypeOK, AloneInv, ThreadInv, QuietUnlessRunning
<1>4. QuietUnlessRunning'
  BY DEF TypeOK, QuietUnlessRunning, ThreadInv, AloneInv
<1>5. Survives'
  BY DEF TypeOK, Survives, ThreadInv, AloneInv
<1>6. BurstInv'
  BY DEF TypeOK, Task, BurstInv, Busy, WholeEvents, QuietUnlessRunning, ThreadInv, AloneInv
<1>7. WholeEvents'
  BY DEF TypeOK, Task, BurstInv, Busy, WholeEvents, QuietUnlessRunning, ThreadInv, AloneInv
<1> QED BY <1>1, <1>2, <1>3, <1>4, <1>5, <1>6, <1>7

LEMMA SupplyParametersStep ==
  ASSUME ServerInv, SupplyParameters
  PROVE  ServerInv'
<1> USE DEF ServerInv, SupplyParameters, Alive, Instances, Builders, control, poller, streamer, out
<1>1. TypeOK'
  BY DEF TypeOK
<1>2. ThreadInv' /\ AloneInv' /\ QuietUnlessRunning'
  BY DEF ThreadInv, AloneInv, QuietUnlessRunning
<1>3. Survives'
  BY DEF Survives
<1>4. BurstInv' /\ WholeEvents'
  BY DEF BurstInv, Busy, WholeEvents
<1> QED BY <1>1, <1>2, <1>3, <1>4

LEMMA BeginStopStep ==
  ASSUME ServerInv, NEW c \in {"STOP", "HALT"}, BeginStop(c)
  PROVE  ServerInv'
<1> USE DEF ServerInv
<1>1. /\ state = "RUNNING" /\ Alive /\ running' = FALSE /\ web' = c
      /\ state' \in {"RUNNING", "DOWN"} /\ (state' = "DOWN" => subscriber = 0)
      /\ polling' \subseteq polling
      /\ UNCHANGED <<layout, complete, mode, senders, subscriber, inbox, event, bx, at, task, stream,
                     lastEvt, copy, stat, sent, trig, changes, switched>>
  BY DEF BeginStop, Dereference, Idle, Alive, poller, streamer, out, env
<1>2. TypeOK'
  BY <1>1 DEF TypeOK
<1>3. ThreadInv' /\ AloneInv' /\ QuietUnlessRunning'
  BY <1>1 DEF ThreadInv, AloneInv, QuietUnlessRunning, Alive
<1>4. Survives'
  BY <1>1 DEF Survives
<1>5. BurstInv' /\ WholeEvents'
  BY <1>1 DEF BurstInv, Busy, WholeEvents, Alive
<1> QED BY <1>2, <1>3, <1>4, <1>5

LEMMA EndStopStep ==
  ASSUME ServerInv, EndStop
  PROVE  ServerInv'
<1> USE SourceServerAssumption DEF ServerInv, EndStop, Alive, Idle, NoCopy, NoStat, Instances, Builders, control, poller, streamer, out, env, Joined
<1>1. TypeOK'
  BY DEF TypeOK, PollerAt, Task, Burst, Values
<1>2. ThreadInv'
  BY DEF TypeOK, Task, ThreadInv, QuietUnlessRunning
<1>3. AloneInv'
  BY DEF TypeOK, AloneInv, ThreadInv, QuietUnlessRunning
<1>4. QuietUnlessRunning'
  BY DEF TypeOK, QuietUnlessRunning, ThreadInv, AloneInv
<1>5. Survives'
  BY DEF TypeOK, Survives, ThreadInv, AloneInv
<1>6. BurstInv'
  BY DEF TypeOK, Task, BurstInv, Busy, WholeEvents, QuietUnlessRunning, ThreadInv, AloneInv
<1>7. WholeEvents'
  BY DEF TypeOK, Task, BurstInv, Busy, WholeEvents, QuietUnlessRunning, ThreadInv, AloneInv
<1> QED BY <1>1, <1>2, <1>3, <1>4, <1>5, <1>6, <1>7

LEMMA EndHaltStep ==
  ASSUME ServerInv, EndHalt
  PROVE  ServerInv'
<1> USE SourceServerAssumption DEF ServerInv, EndHalt, Alive, Idle, NoCopy, NoStat, Instances, Builders, control, poller, streamer, out, env, DeleteSenders, Joined
<1>1. TypeOK'
  BY DEF TypeOK, PollerAt, Task, Burst, Values
<1>2. ThreadInv'
  BY DEF TypeOK, Task, ThreadInv, QuietUnlessRunning
<1>3. AloneInv'
  BY DEF TypeOK, AloneInv, ThreadInv, QuietUnlessRunning
<1>4. QuietUnlessRunning'
  BY DEF TypeOK, QuietUnlessRunning, ThreadInv, AloneInv
<1>5. Survives'
  BY DEF TypeOK, Survives, ThreadInv, AloneInv
<1>6. BurstInv'
  BY DEF TypeOK, Task, BurstInv, Busy, WholeEvents, QuietUnlessRunning, ThreadInv, AloneInv
<1>7. WholeEvents'
  BY DEF TypeOK, Task, BurstInv, Busy, WholeEvents, QuietUnlessRunning, ThreadInv, AloneInv
<1> QED BY <1>1, <1>2, <1>3, <1>4, <1>5, <1>6, <1>7

LEMMA PostStep ==
  ASSUME ServerInv, NEW n \in Ntrgs, Post(n)
  PROVE  ServerInv'
<1> USE SourceServerAssumption DEF ServerInv, Post, Alive, Idle, NoCopy, NoStat, Instances, Builders, control, poller, streamer, out, env
<1>1. TypeOK'
  <2>1. [event |-> trig - 1, bx |-> trig, ntrg |-> n] \in Burst /\ trig + n \in Nat \ {0}
    BY DEF TypeOK, Burst
  <2>2. \A i \in 1..MaxConfigures : inbox[i] \in Seq(Burst)
    BY DEF TypeOK
  <2>3. inbox' \in [1..MaxConfigures -> Seq(Burst)]
    BY <2>1, <2>2 DEF TypeOK
  <2> QED BY <2>1, <2>3 DEF TypeOK
<1>2. ThreadInv'
  BY DEF TypeOK, Task, ThreadInv, QuietUnlessRunning
<1>3. AloneInv'
  BY DEF TypeOK, AloneInv, ThreadInv, QuietUnlessRunning
<1>4. QuietUnlessRunning'
  BY DEF TypeOK, QuietUnlessRunning, ThreadInv, AloneInv
<1>5. Survives'
  <2>1. UNCHANGED <<layout, state, switched, subscriber>> /\ Survives
    OBVIOUS
  <2> QED BY <2>1, SurvivesKept
<1>6. BurstInv'
  BY DEF BurstInv, Busy
<1>7. WholeEvents'
  BY DEF TypeOK, Task, BurstInv, Busy, WholeEvents, QuietUnlessRunning, ThreadInv, AloneInv
<1> QED BY <1>1, <1>2, <1>3, <1>4, <1>5, <1>6, <1>7

LEMMA ReadStep ==
  ASSUME ServerInv, NEW b \in Builders, Read(b)
  PROVE  ServerInv'
<1> USE SourceServerAssumption DEF ServerInv, Read, Alive, Idle, NoCopy, NoStat, Instances, Builders, control, poller, streamer, out, env
<1>1. TypeOK'
  BY DEF TypeOK, PollerAt, Task, Burst, Values
<1>2. ThreadInv'
  BY DEF TypeOK, Task, ThreadInv, QuietUnlessRunning
<1>3. AloneInv'
  BY DEF TypeOK, AloneInv, ThreadInv, QuietUnlessRunning
<1>4. QuietUnlessRunning'
  BY DEF TypeOK, QuietUnlessRunning, ThreadInv, AloneInv
<1>5. Survives'
  BY DEF Survives
<1>6. BurstInv'
  BY DEF BurstInv, Busy
<1>7. WholeEvents'
  BY DEF TypeOK, Task, BurstInv, Busy, WholeEvents, QuietUnlessRunning, ThreadInv, AloneInv
<1> QED BY <1>1, <1>2, <1>3, <1>4, <1>5, <1>6, <1>7

(***************************************************************************)
(* Every step, and the theorems.                                           *)
(***************************************************************************)
LEMMA InitInv ==
  Init => ServerInv
<1> SUFFICES ASSUME Init PROVE ServerInv
  OBVIOUS
<1>1. 0 \in Nat /\ Polls(0) \in Task /\ Polls(0).src = 1
  BY PollsIsTask
<1>2. TypeOK
  <2>1. inbox \in [1..MaxConfigures -> Seq(Burst)]
    BY DEF Init
  <2>2. at \in [Pollers -> PollerAt] /\ task \in [Pollers -> Task]
    BY <1>1 DEF Init, PollerAt
  <2>3. NoCopy \in Values
    BY DEF NoCopy, Values
  <2>4. /\ stream \in [Sources -> {"none", "loop", "send", "store", "dangling"}]
        /\ lastEvt \in [Sources -> Nat] /\ copy \in [Sources -> Values]
        /\ stat \in [Sources -> Nat] /\ sent \in [Sources -> SUBSET (Nat \X Nat)]
    BY <2>3 DEF Init
  <2>5. layout \in Layouts /\ complete \in BOOLEAN /\ subscriber \in 0..MaxConfigures /\ polling \subseteq Nat
    BY SourceServerAssumption DEF Init
  <2>6. event \in Nat /\ bx \in Nat /\ trig \in Nat \ {0} /\ changes \in Nat
    BY DEF Init
  <2>7. /\ state \in {"INITIALISED", "CONFIGURED", "RUNNING", "DOWN"}
        /\ web \in {"idle", "STOP", "HALT"} /\ mode \in {"TRIGGER", "ALONE"}
    BY DEF Init
  <2>8. running \in BOOLEAN /\ senders \in BOOLEAN /\ switched \in BOOLEAN
    BY Zenon DEF Init
  <2> QED BY <2>1, <2>2, <2>4, <2>5, <2>6, <2>7, <2>8 DEF TypeOK
<1>3. ThreadInv /\ AloneInv /\ QuietUnlessRunning /\ Survives /\ BurstInv /\ WholeEvents
  BY <1>1 DEF Init, ThreadInv, AloneInv, QuietUnlessRunning, Survives, BurstInv, Busy, WholeEvents, Alive
<1> QED BY <1>2, <1>3 DEF ServerInv

LEMMA StepInv ==
  ServerInv /\ [Next]_vars => ServerInv'
<1> SUFFICES ASSUME ServerInv, [Next]_vars PROVE ServerInv'
  OBVIOUS
<1>1. CASE Command
  BY <1>1, ConfigureStep, StartStep, SetParameterStep, SupplyParametersStep,
     BeginStopStep DEF Command
<1>2. CASE EndStop \/ EndHalt
  BY <1>2, EndStopStep, EndHaltStep
<1>3. ASSUME NEW p \in Pollers, PollThread(p) PROVE ServerInv'
  BY <1>3, NextPollStep, PollTimeoutStep, ReceiveBurstStep, FillEventStep, SendStep,
     PublishNowhereStep, PollerDanglesStep DEF PollThread
<1>4. ASSUME NEW s \in Sources, StreamThread(s) PROVE ServerInv'
  BY <1>4, StreamLookStep, StreamSendStep, StreamStoreStep, PublishNowhereStep,
     StreamDanglesStep DEF StreamThread
<1>5. ASSUME NEW n \in Ntrgs, Post(n) PROVE ServerInv'
  BY <1>5, PostStep
<1>6. ASSUME NEW b \in Builders, Read(b) PROVE ServerInv'
  BY <1>6, ReadStep
<1>7. CASE UNCHANGED vars
  <2> USE <1>7 DEF vars, control, poller, streamer, out, env, Alive
  <2>1. TypeOK'
    BY DEF ServerInv, TypeOK
  <2>2. ThreadInv' /\ AloneInv' /\ QuietUnlessRunning'
    BY DEF ServerInv, ThreadInv, AloneInv, QuietUnlessRunning
  <2>3. Survives'
    BY DEF ServerInv, Survives, Instances, Builders
  <2>4. BurstInv' /\ WholeEvents'
    BY DEF ServerInv, BurstInv, Busy, WholeEvents
  <2> QED BY <2>1, <2>2, <2>3, <2>4 DEF ServerInv
<1> QED BY <1>1, <1>2, <1>3, <1>4, <1>5, <1>6, <1>7 DEF Next

\* The inductive invariant of the server, for any sources, configurations and
\* triggers.
THEOREM ServerInvariant == SpecAnyBuilders => []ServerInv
<1>1. Init => ServerInv
  BY InitInv
<1>2. ServerInv /\ [Next]_vars => ServerInv'
  BY StepInv
<1> QED BY <1>1, <1>2, PTL DEF SpecAnyBuilders

\* Whatever the commands, no thread outlives its run, and two kinds of threads
\* or two poll threads are never alive together, unless SETPARAM has changed the
\* mode in a run (stop joins the threads of the mode, exServer.cxx:285).
THEOREM QuietUnlessRunningHolds == SpecAnyBuilders => []QuietUnlessRunning
<1>1. ServerInv => QuietUnlessRunning
  BY DEF ServerInv
<1> QED BY <1>1, ServerInvariant, PTL

\* No thread uses a sender that CONFIGURE or HALT has deleted
\* (exServer.cxx:56-58, 303-305).
THEOREM SurvivesHolds == SpecAnyBuilders => []Survives
<1>1. ServerInv => Survives
  BY DEF ServerInv
<1> QED BY <1>1, ServerInvariant, PTL

\* A trigger that one source has sent all its sources have sent, at whatever
\* moment STOP came (the loop of checkTrigger, exServer.cxx:186-203).
THEOREM WholeEventsHolds == SpecAnyBuilders => []WholeEvents
<1>1. ServerInv => WholeEvents
  BY DEF ServerInv
<1> QED BY <1>1, ServerInvariant, PTL

(***************************************************************************)
(* The server implements DataServer.                                       *)
(*                                                                         *)
(* SeenInv is inductive together with ServerInv.  Most actions leave alone *)
(* what its parts are about, which the next three lemmas say once.         *)
(***************************************************************************)
LEMMA PollingKept ==
  ASSUME PollingInv,
         ~switched' /\ Alive' =>
           ~switched /\ Alive /\ UNCHANGED <<polling, subscriber, state, web, mode>>
  PROVE  PollingInv'
BY DEF PollingInv

LEMMA DiscoverKept ==
  ASSUME DiscoverInv, UNCHANGED <<layout, senders, subscriber>>, complete => complete',
         state' \in {"CONFIGURED", "RUNNING"} => state \in {"CONFIGURED", "RUNNING"},
         subscriber # 0 \/ UNCHANGED <<at, stream, stat>>
  PROVE  DiscoverInv'
BY DEF DiscoverInv, Discovers, Instances, Builders

LEMMA KeyKept ==
  ASSUME KeyInv, UNCHANGED <<inbox, trig>>,
         ~switched' /\ Alive' =>
           /\ ~switched /\ Alive /\ UNCHANGED <<subscriber, sent, bx>>
           /\ \A p \in Pollers : Busy(p)' => Busy(p) /\ task'[p].left = task[p].left
  PROVE  KeyInv'
<1>1. ASSUME ~switched', Alive' PROVE Ahead' = Ahead
  BY <1>1 DEF Ahead
<1>2. /\ trig' <= MaxKey + 1
      /\ \A i \in 1..MaxConfigures : \A j \in DOMAIN inbox'[i] :
           /\ After(inbox'[i][j]) <= trig'
           /\ \A k \in DOMAIN inbox'[i] : j < k => After(inbox'[i][j]) <= inbox'[i][k].bx
  BY DEF KeyInv
<1>3. ASSUME ~switched', Alive'
      PROVE  /\ \A s \in Sources : \A e \in sent'[s], key \in Ahead' : e[1] < key
             /\ \A p \in Pollers : Busy(p)' =>
                  /\ \A e \in sent'[NSources] : e[1] < bx'
                  /\ \A key \in Ahead' : bx' + task'[p].left <= key
  BY <1>1, <1>3 DEF KeyInv
<1> QED BY <1>2, <1>3 DEF KeyInv, After

\* Nothing that follows undoes that the server has died or that its mode has
\* been changed in a run.
LEMMA Undisturbed ==
  ASSUME ServerInv, Next, ~switched', Alive'
  PROVE  ~switched /\ Alive
BY DEF Next, Command, Configure, Start, SupplyParameters, SetParameter, BeginStop, EndStop, EndHalt, Idle, Alive,
       PollThread, NextPoll, PollTimeout, ReceiveBurst, FillEvent, Send, PublishNowhere,
       PollerDangles, StreamThread, StreamLook, StreamSend, StreamStore, StreamDangles, Post, Read,
       control, env, ServerInv, TypeOK

LEMMA RunningThread ==
  ASSUME ServerInv, DiscoverInv, NEW p \in Pollers, at[p] # "none"
  PROVE  subscriber # 0
BY DEF DiscoverInv

LEMMA SeenNextPoll ==
  ASSUME ServerInv, SeenInv, NEW p \in Pollers, NextPoll(p) \/ PollTimeout(p) \/ FillEvent(p)
  PROVE  SeenInv'
<1>1. /\ at[p] # "none" /\ ~(at[p] = "send")
      /\ \A q \in Pollers \ {p} : at'[q] = at[q] /\ task'[q] = task[q]
      /\ UNCHANGED <<state, web, mode, running, senders, subscriber, polling, inbox, event, bx,
                     stream, stat, sent, layout, complete, trig, switched>>
  BY DEF NextPoll, PollTimeout, FillEvent, Goes, control, streamer, out, env, ServerInv, TypeOK
<1>2. Busy(p)' => Busy(p) /\ task'[p].left = task[p].left
  <2>1. CASE FillEvent(p)
    <3>1. task[p] \in Task /\ at[p] = "fill"
      BY <2>1 DEF FillEvent, ServerInv, TypeOK
    <3>2. task'[p] = [task[p] EXCEPT !.event = event, !.key = bx]
      BY <2>1 DEF FillEvent, Goes, ServerInv, TypeOK
    <3> QED BY <3>1, <3>2 DEF Task, Busy
  <2>2. CASE NextPoll(p) \/ PollTimeout(p)
    BY <2>2 DEF NextPoll, PollTimeout, Busy, ServerInv, TypeOK
  <2> QED BY <2>1, <2>2
<1>3. PollingInv'
  BY <1>1, PollingKept DEF SeenInv, Alive
<1>4. DiscoverInv'
  BY <1>1, RunningThread, DiscoverKept DEF SeenInv
<1>5. KeyInv'
  BY <1>1, <1>2, KeyKept DEF SeenInv, Alive, Busy
<1> QED BY <1>3, <1>4, <1>5 DEF SeenInv

LEMMA SeenDeath ==
  ASSUME ServerInv, SeenInv, NEW p \in Pollers,
         (Alive /\ at[p] = "send" /\ PublishNowhere) \/ PollerDangles(p)
  PROVE  SeenInv'
<1>1. /\ at[p] # "none"
      /\ UNCHANGED <<senders, inbox, trig, layout, complete, switched, stream, stat, subscriber,
                     sent, bx, polling, web, mode>>
      /\ state' \in {state, "DOWN"}
  BY DEF PublishNowhere, PollerDangles, streamer, out, env
<1>2. ASSUME ~switched', Alive' PROVE FALSE
  BY <1>1, <1>2 DEF PublishNowhere, PollerDangles, Alive, ServerInv, ThreadInv
<1>3. PollingInv'
  BY <1>2, PollingKept DEF SeenInv
<1>4. DiscoverInv'
  BY <1>1, RunningThread, DiscoverKept DEF SeenInv
<1>5. KeyInv'
  BY <1>1, <1>2, KeyKept DEF SeenInv
<1> QED BY <1>3, <1>4, <1>5 DEF SeenInv

LEMMA SeenStream ==
  ASSUME ServerInv, SeenInv, NEW s \in Sources, StreamThread(s)
  PROVE  SeenInv'
<1>1. /\ Alive /\ stream[s] # "none"
      /\ UNCHANGED <<senders, subscriber, inbox, trig, layout, complete, switched, at, task>>
      /\ state' \in {state, "DOWN"}
  BY DEF StreamThread, StreamLook, StreamSend, StreamStore, StreamDangles, PublishNowhere, control,
         poller, env
<1>2. subscriber # 0
  BY <1>1 DEF SeenInv, DiscoverInv
<1>3. ASSUME ~switched', Alive'
      PROVE  /\ ~switched /\ Alive
             /\ UNCHANGED <<polling, subscriber, state, web, mode, sent, bx>>
  <2>1. stream[s] = "loop"
    BY <1>1, <1>3 DEF ServerInv, AloneInv
  <2> QED
    BY <1>1, <1>3, <2>1 DEF StreamThread, StreamLook, StreamSend, StreamStore, StreamDangles,
       PublishNowhere, control, out, env, Alive
<1>4. PollingInv'
  BY <1>3, PollingKept DEF SeenInv
<1>5. DiscoverInv'
  BY <1>1, <1>2, DiscoverKept DEF SeenInv
<1>6. KeyInv'
  BY <1>1, <1>3, KeyKept DEF SeenInv, Busy
<1> QED BY <1>4, <1>5, <1>6 DEF SeenInv

LEMMA SeenStart ==
  ASSUME ServerInv, SeenInv, Start
  PROVE  SeenInv'
<1>1. /\ Idle /\ state = "CONFIGURED" /\ state' \in {"RUNNING", "DOWN"} /\ stat' = NoStat
      /\ UNCHANGED <<web, mode, senders, subscriber, inbox, bx, sent, layout, complete, trig, switched>>
      /\ polling' = IF mode = "ALONE" \/ subscriber = 0 THEN polling ELSE polling \cup {subscriber}
  BY DEF Start, Dereference, env
<1>2. PollingInv'
  BY <1>1 DEF SeenInv, PollingInv, Alive, Idle
<1>3. DiscoverInv'
  <2>1. Discovers' = Discovers
    BY <1>1 DEF Discovers, Instances, Builders
  <2>2. CASE subscriber # 0
    BY <1>1, <2>1, <2>2 DEF SeenInv, DiscoverInv
  <2>3. CASE subscriber = 0
    <3>1. /\ \A p \in Pollers : at'[p] = "none"
          /\ \A s \in Sources : stream'[s] = "none" /\ stat'[s] = 0
      BY <1>1, <2>3 DEF SeenInv, DiscoverInv, Start, poller, NoStat
    <3> QED BY <1>1, <2>3, <3>1 DEF SeenInv, DiscoverInv
  <2> QED BY <2>2, <2>3
<1>4. \A p \in Pollers : Busy(p)' => Busy(p) /\ task'[p].left = task[p].left
  BY DEF Start, Goes, poller, Busy, ServerInv, TypeOK
<1>5. KeyInv'
  BY <1>1, <1>4, KeyKept DEF SeenInv, Idle, Alive
<1> QED BY <1>2, <1>3, <1>5 DEF SeenInv

LEMMA SeenSetParameter ==
  ASSUME ServerInv, SeenInv, SetParameter
  PROVE  SeenInv'
<1>1. /\ Idle /\ switched' = (switched \/ state = "RUNNING")
      /\ UNCHANGED <<state, web, senders, subscriber, polling, inbox, bx, at, task, stream, stat,
                     layout, complete, trig>>
      /\ ~switched' => sent' = sent
  BY DEF SetParameter, poller, streamer
<1>2. PollingInv'
  BY <1>1 DEF SeenInv, PollingInv, Alive
<1>3. DiscoverInv'
  BY <1>1, DiscoverKept DEF SeenInv
<1>4. KeyInv'
  BY <1>1, KeyKept DEF SeenInv, Idle, Alive, Busy
<1> QED BY <1>2, <1>3, <1>4 DEF SeenInv

LEMMA SeenSupplyParameters ==
  ASSUME ServerInv, SeenInv, SupplyParameters
  PROVE  SeenInv'
<1>1. /\ complete' /\ UNCHANGED <<state, web, mode, senders, subscriber, polling, inbox, bx, at, task,
                                  stream, stat, sent, layout, trig, switched>>
  BY DEF SupplyParameters, control, poller, streamer, out
<1>2. PollingInv'
  BY <1>1, PollingKept DEF SeenInv, Alive
<1>3. DiscoverInv'
  BY <1>1, DiscoverKept DEF SeenInv
<1>4. KeyInv'
  BY <1>1, KeyKept DEF SeenInv, Alive, Busy
<1> QED BY <1>2, <1>3, <1>4 DEF SeenInv

LEMMA SeenStop ==
  ASSUME ServerInv, SeenInv, EndStop \/ EndHalt \/ \E command \in {"STOP", "HALT"} : BeginStop(command)
  PROVE  SeenInv'
<1>1. /\ Alive
      /\ UNCHANGED <<layout, complete, subscriber, inbox, bx, sent, task, stat, trig, switched, mode>>
      /\ ~switched => UNCHANGED <<at, stream>>
  <2>1. ASSUME ~switched, EndHalt PROVE UNCHANGED <<at, stream>>
    <3>1. \A p \in Pollers : at[p] \notin {"fill", "send"}
      BY <2>1 DEF EndHalt, Idle, Alive, Joined, ServerInv, ThreadInv, QuietUnlessRunning
    <3>2. \A s \in Sources : stream[s] = "none"
      BY <2>1 DEF EndHalt, Idle, Alive, Joined, ServerInv, ThreadInv, QuietUnlessRunning
    <3>3. at' = [p \in Pollers |-> at[p]] /\ stream' = [s \in Sources |-> stream[s]]
      BY <2>1, <3>1, <3>2 DEF EndHalt, DeleteSenders
    <3> QED BY <3>3 DEF ServerInv, TypeOK
  <2>2. CASE EndStop \/ \E command \in {"STOP", "HALT"} : BeginStop(command)
    BY <2>2 DEF EndStop, BeginStop, Idle, Alive, poller, streamer, out, env
  <2>3. CASE EndHalt
    BY <2>1, <2>3 DEF EndHalt, Idle, out, env
  <2> QED BY <2>2, <2>3
<1>2. /\ state \in {"CONFIGURED", "RUNNING"}
      /\ state' \in {"CONFIGURED", "RUNNING"} => senders' = senders
  BY DEF EndStop, EndHalt, BeginStop, Idle, Alive, ServerInv, ThreadInv
<1>3. PollingInv'
  <2>1. CASE EndStop \/ EndHalt
    BY <1>1, <2>1 DEF SeenInv, PollingInv, EndStop, EndHalt, Idle, Alive, ServerInv, ThreadInv
  <2>2. CASE \E command \in {"STOP", "HALT"} : BeginStop(command)
    BY <1>1, <2>2 DEF SeenInv, PollingInv, BeginStop, Idle
  <2> QED BY <2>1, <2>2
<1>4. Discovers' = Discovers
  BY <1>1 DEF Discovers, Instances, Builders
<1>5. DiscoverInv'
  <2>1. CASE subscriber # 0
    BY <1>1, <1>2, <1>4, <2>1 DEF SeenInv, DiscoverInv
  <2>2. CASE subscriber = 0
    <3>1. (\A p \in Pollers : at[p] = "none") /\ \A s \in Sources : stream[s] = "none"
      BY <2>2 DEF SeenInv, DiscoverInv
    <3>2. (\A p \in Pollers : at'[p] = "none") /\ \A s \in Sources : stream'[s] = "none"
      BY <3>1 DEF EndStop, EndHalt, BeginStop, DeleteSenders, poller, streamer
    <3>3. ~senders'
      BY <2>2 DEF SeenInv, DiscoverInv, EndStop, EndHalt, BeginStop
    <3> QED BY <1>1, <2>2, <3>2, <3>3 DEF SeenInv, DiscoverInv
  <2> QED BY <2>1, <2>2
<1>6. KeyInv'
  BY <1>1, KeyKept DEF SeenInv, Busy
<1> QED BY <1>3, <1>5, <1>6 DEF SeenInv

LEMMA SeenRead ==
  ASSUME ServerInv, SeenInv, NEW b \in Builders, Read(b)
  PROVE  SeenInv'
<1>1. UNCHANGED <<control, inbox, event, bx, at, task, stream, stat, sent, layout, complete, trig,
                  switched>>
  BY DEF Read, poller, streamer, env
<1>2. PollingInv'
  BY <1>1, PollingKept DEF SeenInv, control, Alive
<1>3. DiscoverInv'
  BY <1>1, DiscoverKept DEF SeenInv, control
<1>4. KeyInv'
  BY <1>1, KeyKept DEF SeenInv, control, Alive, Busy
<1> QED BY <1>2, <1>3, <1>4 DEF SeenInv

LEMMA SeenConfigure ==
  ASSUME ServerInv, SeenInv, Configure
  PROVE  SeenInv'
<1> DEFINE connects == complete /\ Discovers
<1>1. /\ Idle /\ state \in {"INITIALISED", "CONFIGURED"} /\ state' \in {"INITIALISED", "CONFIGURED"}
      /\ UNCHANGED <<layout, complete, web, mode, polling, bx, task, sent, trig, switched>>
      /\ stat' = NoStat /\ subscriber \in Nat
  BY DEF Configure, Connect, GiveUp, env, ServerInv, TypeOK
<1>2. ASSUME ~switched
      PROVE  /\ \A p \in Pollers : at[p] = "none" /\ at'[p] = "none"
             /\ \A s \in Sources : stream[s] = "none"
  BY <1>1, <1>2 DEF Configure, DeleteSenders, ServerInv, QuietUnlessRunning
<1>3. /\ connects => senders' /\ state' = "CONFIGURED" /\ subscriber' = subscriber + 1
      /\ ~connects => ~senders' /\ UNCHANGED <<subscriber, inbox>> /\ subscriber = 0
  BY DEF Configure, Connect, GiveUp, SeenInv, DiscoverInv
<1>4. Discovers' = Discovers
  BY <1>1 DEF Discovers, Instances, Builders
<1>5. PollingInv'
  BY <1>1, <1>3 DEF SeenInv, PollingInv, Alive, Idle
<1>6. DiscoverInv'
  <2>1. CASE connects
    BY <1>1, <1>3, <1>4, <2>1 DEF DiscoverInv
  <2>2. CASE ~connects
    <3>1. /\ \A p \in Pollers : at'[p] = "none"
          /\ \A s \in Sources : stream'[s] = "none" /\ stat'[s] = 0
      BY <1>1, <1>3, <2>2 DEF SeenInv, DiscoverInv, Configure, DeleteSenders, NoStat
    <3> HIDE DEF connects
    <3> QED BY <1>3, <2>2, <3>1 DEF DiscoverInv
  <2> QED BY <2>1, <2>2
<1>7. KeyInv'
  <2>1. CASE ~connects
    <3>1. UNCHANGED <<inbox, trig, subscriber, sent, bx, switched>> /\ Alive
      BY <1>1, <1>3, <2>1 DEF Idle
    <3>2. ASSUME ~switched' PROVE \A p \in Pollers : ~(Busy(p)')
      BY <1>1, <1>2, <3>2 DEF Busy
    <3> QED BY <3>1, <3>2, KeyKept DEF SeenInv, Alive
  <2>2. CASE connects
    <3>1. /\ subscriber' \in 1..MaxConfigures /\ subscriber' # 0
          /\ inbox' = [i \in DOMAIN inbox |->
                IF \E p \in Pollers : at[p] # "none" /\ task[p].of = i THEN inbox[i] ELSE <<>>]
      BY <2>2, SourceServerAssumption DEF Configure, Connect, ServerInv, TypeOK
    <3>2. \A i \in 1..MaxConfigures : inbox'[i] \in {inbox[i], <<>>}
      BY <3>1 DEF ServerInv, TypeOK
    <3>5. trig' <= MaxKey + 1
      BY <1>1 DEF SeenInv, KeyInv
    <3>3. \A i \in 1..MaxConfigures : \A j \in DOMAIN inbox'[i] :
             /\ After(inbox'[i][j]) <= trig'
             /\ \A k \in DOMAIN inbox'[i] : j < k => After(inbox'[i][j]) <= inbox'[i][k].bx
      <4> TAKE i \in 1..MaxConfigures
      <4>1. CASE inbox'[i] = <<>>
        BY <4>1
      <4>2. CASE inbox'[i] = inbox[i]
        BY <1>1, <4>2 DEF SeenInv, KeyInv
      <4> QED BY <3>2, <4>1, <4>2
    <3>4. ASSUME ~switched'
          PROVE  /\ \A s \in Sources : \A e \in sent'[s], key \in Ahead' : e[1] < key
                 /\ \A p \in Pollers : ~(Busy(p)')
      <4>1. inbox'[subscriber'] = <<>>
        BY <1>1, <1>2, <3>1, <3>4 DEF ServerInv, TypeOK
      <4>2. Ahead' = {trig}
        BY <1>1, <3>1, <4>1 DEF Ahead
      <4>3. trig \in Ahead /\ ~switched /\ Alive
        BY <1>1, <3>4 DEF Ahead, Idle
      <4>4. \A s \in Sources : \A e \in sent[s] : e[1] < trig
        BY <4>3 DEF SeenInv, KeyInv
      <4> QED BY <1>1, <1>2, <4>2, <4>3, <4>4 DEF Busy
    <3> QED BY <3>3, <3>4, <3>5 DEF KeyInv, After
  <2> QED BY <2>1, <2>2
<1> QED BY <1>5, <1>6, <1>7 DEF SeenInv

\* A burst waits for subscriber i: what the inbox says of the first one, and of
\* the ones behind it.
LEMMA InboxOf ==
  ASSUME TypeOK, NEW i \in 1..MaxConfigures, inbox[i] # <<>>
  PROVE  /\ inbox[i] \in Seq(Burst) /\ Head(inbox[i]) = inbox[i][1] /\ inbox[i][1] \in Burst
         /\ 1 \in DOMAIN inbox[i]
         /\ Tail(inbox[i]) \in Seq(Burst)
         /\ \A j \in DOMAIN Tail(inbox[i]) : /\ j + 1 \in DOMAIN inbox[i]
                                             /\ Tail(inbox[i])[j] = inbox[i][j + 1]
<1> DEFINE bursts == inbox[i]
<1>1. bursts \in Seq(Burst) /\ bursts # <<>>
  BY DEF TypeOK
<1> HIDE DEF bursts
<1>2. Head(bursts) = bursts[1] /\ Tail(bursts) \in Seq(Burst)
  BY <1>1
<1>3. Len(bursts) \in Nat /\ Len(bursts) > 0 /\ DOMAIN bursts = 1..Len(bursts)
  BY <1>1
<1>4. 1 \in DOMAIN bursts /\ bursts[1] \in Burst
  BY <1>1, <1>3
<1>5. \A j \in DOMAIN Tail(bursts) : j + 1 \in DOMAIN bursts /\ Tail(bursts)[j] = bursts[j + 1]
  BY <1>1, <1>3
<1> QED BY <1>1, <1>2, <1>4, <1>5 DEF bursts

LEMMA KeysAreNumbers ==
  ASSUME TypeOK
  PROVE  /\ Ahead \subseteq Nat /\ trig \in Ahead
         /\ \A s \in Sources : \A e \in sent[s] : e[1] \in Nat
<1>1. ASSUME subscriber # 0, NEW j \in DOMAIN inbox[subscriber] PROVE inbox[subscriber][j].bx \in Nat
  <2>1. inbox[subscriber] \in Seq(Burst)
    BY <1>1, SourceServerAssumption DEF TypeOK
  <2>2. inbox[subscriber][j] \in Burst
    BY <1>1, <2>1
  <2> QED BY <2>2 DEF Burst
<1> QED BY <1>1 DEF Ahead, TypeOK

LEMMA SeenReceiveBurst ==
  ASSUME ServerInv, SeenInv, NEW p \in Pollers, ReceiveBurst(p)
  PROVE  SeenInv'
<1> DEFINE i == task[p].of
           burst == Head(inbox[i])
<1>1. /\ Alive /\ at[p] = "poll" /\ i \in 1..MaxConfigures /\ inbox[i] # <<>> /\ i \in Nat
      /\ inbox' = [inbox EXCEPT ![i] = Tail(@)]
      /\ UNCHANGED <<state, web, mode, senders, subscriber, polling, stream, stat, sent, layout,
                     complete, trig, switched>>
  BY DEF ReceiveBurst, ServerInv, TypeOK, ThreadInv, control, streamer, out, env
<1>2. PollingInv'
  BY <1>1, PollingKept DEF SeenInv, Alive
<1>3. DiscoverInv'
  BY <1>1, RunningThread, DiscoverKept DEF SeenInv
<1>4. \A j \in DOMAIN inbox'[i] : j \in Nat /\ j + 1 \in DOMAIN inbox[i] /\ inbox'[i][j] = inbox[i][j + 1]
  BY <1>1, InboxOf DEF ServerInv, TypeOK
<1>5. \A k \in 1..MaxConfigures \ {i} : inbox'[k] = inbox[k]
  BY <1>1 DEF ServerInv, TypeOK
<1>6. \A k \in 1..MaxConfigures : \A j \in DOMAIN inbox'[k] :
         /\ After(inbox'[k][j]) <= trig'
         /\ \A l \in DOMAIN inbox'[k] : j < l => After(inbox'[k][j]) <= inbox'[k][l].bx
  <2> TAKE k \in 1..MaxConfigures
  <2>1. CASE k = i
    <3> TAKE j \in DOMAIN inbox'[k]
    <3>1. After(inbox'[k][j]) <= trig'
      BY <1>1, <1>4, <2>1 DEF SeenInv, KeyInv
    <3>2. ASSUME NEW l \in DOMAIN inbox'[k], j < l PROVE After(inbox'[k][j]) <= inbox'[k][l].bx
      <4>1. j + 1 < l + 1 /\ j + 1 \in DOMAIN inbox[i] /\ l + 1 \in DOMAIN inbox[i]
        BY <1>4, <2>1, <3>2
      <4> QED BY <1>1, <1>4, <2>1, <3>2, <4>1 DEF SeenInv, KeyInv
    <3> QED BY <3>1, <3>2
  <2>2. CASE k # i
    BY <1>1, <1>5, <2>2 DEF SeenInv, KeyInv
  <2> QED BY <2>1, <2>2
<1>7. ASSUME ~switched', Alive'
      PROVE  /\ \A s \in Sources : \A e \in sent'[s], key \in Ahead' : e[1] < key
             /\ \A q \in Pollers : Busy(q)' =>
                  /\ \A e \in sent'[NSources] : e[1] < bx'
                  /\ \A key \in Ahead' : bx' + task'[q].left <= key
  <2>1. i = subscriber /\ subscriber # 0 /\ ~switched
    BY <1>1, <1>7 DEF ServerInv, ThreadInv
  <2>2. Ahead' \subseteq Ahead
    BY <1>1, <1>4, <2>1 DEF Ahead
  <2>3. \A s \in Sources : \A e \in sent'[s], key \in Ahead' : e[1] < key
    BY <1>1, <2>1, <2>2 DEF SeenInv, KeyInv
  <2>4. ASSUME NEW q \in Pollers, Busy(q)'
        PROVE  /\ \A e \in sent'[NSources] : e[1] < bx'
               /\ \A key \in Ahead' : bx' + task'[q].left <= key
    <3>1. q = p /\ mode # "ALONE" /\ senders
      BY ZenonT(60), <1>1, <2>1, <2>4, OnlyPoller DEF ReceiveBurst, Goes, Busy, ServerInv, TypeOK
    <3>2. burst = inbox[i][1] /\ burst \in Burst /\ 1 \in DOMAIN inbox[i]
      BY <1>1, InboxOf DEF ServerInv
    <3>3. burst.bx \in Nat /\ burst.ntrg \in Nat
      BY <3>2 DEF Burst
    <3>4. bx' = burst.bx
      <4> HIDE DEF burst
      <4>1. bx' = burst.bx + 0
        BY <3>1 DEF ReceiveBurst, burst
      <4> QED BY <3>3, <4>1
    <3>5. task'[q].left = burst.ntrg
      <4>1. task[p] \in Task
        BY DEF ServerInv, TypeOK
      <4>2. task'[p] = [task[p] EXCEPT !.left = burst.ntrg]
        BY <3>1 DEF ReceiveBurst, Goes, ServerInv, TypeOK
      <4> QED BY <3>1, <4>1, <4>2 DEF Task
    <3>6. burst.bx \in Ahead
      BY <2>1, <3>2 DEF Ahead
    <3>7. NSources \in Sources
      BY SourceServerAssumption DEF Sources
    <3>8. \A e \in sent'[NSources] : e[1] < bx'
      BY <1>1, <2>1, <3>4, <3>6, <3>7 DEF SeenInv, KeyInv
    <3>9. ASSUME NEW key \in Ahead' PROVE After(burst) <= key
      <4>1. CASE key = trig
        BY <1>1, <3>2, <4>1 DEF SeenInv, KeyInv
      <4>2. CASE key # trig
        <5>1. PICK j \in DOMAIN inbox'[i] : key = inbox'[i][j].bx
          BY <1>1, <2>1, <3>9, <4>2 DEF Ahead
        <5>2. j + 1 \in DOMAIN inbox[i] /\ inbox'[i][j] = inbox[i][j + 1] /\ 1 < j + 1
          <6>1. inbox' \in [1..MaxConfigures -> Seq(Burst)]
            BY ReceiveBurstStep DEF ServerInv, TypeOK
          <6>2. inbox'[i] \in Seq(Burst)
            BY <1>1, <6>1
          <6>3. j > 0
            BY <6>2
          <6> QED BY <1>4, <6>3
        <5> QED BY <1>1, <3>2, <5>1, <5>2 DEF SeenInv, KeyInv
      <4> QED BY <4>1, <4>2
    <3> QED BY <3>4, <3>5, <3>8, <3>9 DEF After
  <2> QED BY <2>3, <2>4
<1>8. KeyInv'
  <2>1. trig' <= MaxKey + 1
    BY <1>1 DEF SeenInv, KeyInv
  <2> QED BY <1>6, <1>7, <2>1 DEF KeyInv, After
<1> QED BY <1>2, <1>3, <1>8 DEF SeenInv

LEMMA SeenPost ==
  ASSUME ServerInv, SeenInv, NEW n \in Ntrgs, Post(n)
  PROVE  SeenInv'
<1> DEFINE new == [event |-> trig - 1, bx |-> trig, ntrg |-> n]
<1>1. UNCHANGED <<control, event, bx, at, task, stream, stat, sent, layout, complete, switched>>
  BY DEF Post, poller, streamer, out
<1>2. trig' = trig + n /\ trig' <= MaxKey + 1 /\ trig \in Nat /\ n \in Nat /\ n > 0
  BY SourceServerAssumption DEF Post, ServerInv, TypeOK
<1>3. new.bx = trig /\ After(new) = trig'
  BY <1>2 DEF After
<1>4. /\ DOMAIN inbox = 1..MaxConfigures /\ \A i \in 1..MaxConfigures : inbox[i] \in Seq(Burst)
      /\ \A i \in 1..MaxConfigures : inbox'[i] \in {inbox[i], Append(inbox[i], new)}
  BY DEF Post, ServerInv, TypeOK
<1> HIDE DEF new
<1>5. \A i \in 1..MaxConfigures : \A j \in DOMAIN inbox[i] :
        After(inbox[i][j]) \in Nat /\ inbox[i][j].bx \in Nat /\ After(inbox[i][j]) <= trig
  <2> TAKE i \in 1..MaxConfigures
  <2> TAKE j \in DOMAIN inbox[i]
  <2>1. inbox[i][j] \in Burst
    BY <1>4
  <2> QED BY <2>1 DEF Burst, After, SeenInv, KeyInv
<1>6. \A i \in 1..MaxConfigures : \A j \in DOMAIN inbox'[i] :
        \/ j \in DOMAIN inbox[i] /\ inbox'[i][j] = inbox[i][j]
        \/ inbox'[i][j] = new /\ \A k \in DOMAIN inbox'[i] : k <= j
  <2> TAKE i \in 1..MaxConfigures
  <2>1. CASE inbox'[i] = inbox[i]
    BY <2>1
  <2>2. CASE inbox'[i] = Append(inbox[i], new)
    BY <1>4, <2>2
  <2> QED BY <1>4, <2>1, <2>2
<1>7. \A i \in 1..MaxConfigures : \A j \in DOMAIN inbox'[i] :
         /\ After(inbox'[i][j]) <= trig'
         /\ \A k \in DOMAIN inbox'[i] : j < k => After(inbox'[i][j]) <= inbox'[i][k].bx
  <2> TAKE i \in 1..MaxConfigures
  <2> TAKE j \in DOMAIN inbox'[i]
  <2>1. After(inbox'[i][j]) <= trig'
    BY <1>2, <1>3, <1>5, <1>6
  <2>2. ASSUME NEW k \in DOMAIN inbox'[i], j < k PROVE After(inbox'[i][j]) <= inbox'[i][k].bx
    <3>1. j \in DOMAIN inbox[i] /\ inbox'[i][j] = inbox[i][j]
      <4>1. j \in Int /\ k \in Int
        BY <1>4, <1>6
      <4> QED BY <1>6, <2>2, <4>1
    <3>2. CASE k \in DOMAIN inbox[i] /\ inbox'[i][k] = inbox[i][k]
      BY <2>2, <3>1, <3>2 DEF SeenInv, KeyInv
    <3>3. CASE inbox'[i][k] = new
      BY <1>3, <1>5, <3>1, <3>3
    <3> QED BY <1>6, <3>2, <3>3
  <2> QED BY <2>1, <2>2
<1>8. \A key \in Ahead' : key \in Ahead \/ key = trig'
  <2> SUFFICES ASSUME NEW key \in Ahead', key # trig', key # trig PROVE key \in Ahead
    BY DEF Ahead
  <2>1. subscriber' = subscriber /\ subscriber # 0 /\ subscriber \in 1..MaxConfigures
    BY <1>1, SourceServerAssumption DEF Ahead, control, ServerInv, TypeOK
  <2>2. PICK j \in DOMAIN inbox'[subscriber] : key = inbox'[subscriber][j].bx
    BY <2>1 DEF Ahead
  <2>3. j \in DOMAIN inbox[subscriber] /\ inbox'[subscriber][j] = inbox[subscriber][j]
    BY <1>3, <1>6, <2>1, <2>2
  <2> QED BY <2>1, <2>2, <2>3 DEF Ahead
<1>9. ASSUME ~switched', Alive'
      PROVE  /\ \A s \in Sources : \A e \in sent'[s], key \in Ahead' : e[1] < key
             /\ \A p \in Pollers : Busy(p)' =>
                  /\ \A e \in sent'[NSources] : e[1] < bx'
                  /\ \A key \in Ahead' : bx' + task'[p].left <= key
  <2>1. ~switched /\ Alive
    BY <1>1, <1>9 DEF control, Alive
  <2>2. /\ trig \in Ahead /\ Ahead \subseteq Nat /\ bx \in Nat
        /\ \A s \in Sources : \A e \in sent[s] : e[1] \in Nat
        /\ \A p \in Pollers : task[p].left \in Nat
    BY KeysAreNumbers DEF ServerInv, TypeOK, Task
  <2>3. ASSUME NEW s \in Sources, NEW e \in sent'[s], NEW key \in Ahead' PROVE e[1] < key
    <3>1. e \in sent[s]
      BY <1>1, <2>3
    <3>2. e[1] < trig /\ (key \in Ahead => e[1] < key)
      BY <2>1, <2>2, <3>1 DEF SeenInv, KeyInv
    <3> QED BY <1>2, <1>8, <2>2, <3>1, <3>2
  <2>4. ASSUME NEW p \in Pollers, Busy(p)'
        PROVE  /\ \A e \in sent'[NSources] : e[1] < bx'
               /\ \A key \in Ahead' : bx' + task'[p].left <= key
    <3>1. Busy(p) /\ bx' = bx /\ task' = task /\ sent' = sent
      BY <1>1, <2>4 DEF Busy
    <3>2. bx + task[p].left <= trig /\ \A key \in Ahead : bx + task[p].left <= key
      BY <2>1, <2>2, <3>1 DEF SeenInv, KeyInv
    <3>3. \A e \in sent[NSources] : e[1] < bx
      BY <2>1, <3>1 DEF SeenInv, KeyInv
    <3>4. \A key \in Ahead' : bx + task[p].left <= key
      <4> TAKE key \in Ahead'
      <4>1. CASE key \in Ahead
        BY <3>2, <4>1
      <4>2. CASE key = trig + n
        BY <1>2, <2>2, <3>2, <4>2
      <4> QED BY <1>2, <1>8, <4>1, <4>2
    <3> QED BY <3>1, <3>3, <3>4
  <2> QED BY <2>3, <2>4
<1>10. KeyInv'
  BY <1>2, <1>7, <1>9 DEF KeyInv, After
<1>11. PollingInv'
  BY <1>1, PollingKept DEF SeenInv, control, Alive
<1>12. DiscoverInv'
  BY <1>1, DiscoverKept DEF SeenInv, control
<1> QED BY <1>10, <1>11, <1>12 DEF SeenInv

\* What the theorems about keys assume: fewer triggers than a uint32_t counts.
KeysFit == MaxKey < WordSize

LEMMA SmallModulus ==
  ASSUME NEW x \in Nat, NEW w \in Nat \ {0}, x < w PROVE x % w = x
OBVIOUS

\* Cutting the bunch crossing at hand to 32 bits leaves it what it is.
LEMMA KeyFits ==
  ASSUME ServerInv, SeenInv, KeysFit, ~switched, Alive, NEW p \in Pollers, Busy(p)
  PROVE  Gtc(bx) = bx
<1>1. bx \in Nat /\ trig \in Nat /\ task[p].left \in Nat /\ task[p].left > 0
  BY DEF ServerInv, TypeOK, Task, ThreadInv, Busy
<1>2. bx + task[p].left <= trig /\ trig <= MaxKey + 1
  BY KeysAreNumbers DEF ServerInv, SeenInv, KeyInv
<1>3. bx < WordSize
  BY <1>1, <1>2, SourceServerAssumption DEF KeysFit
<1> QED BY <1>1, <1>3, SmallModulus, SourceServerAssumption DEF Gtc

\* What a poll thread that sends in an undisturbed server leaves behind: the next
\* source, the next trigger, or the end of the burst.
LEMMA SendTurn ==
  ASSUME ServerInv, SeenInv, KeysFit, ~switched, NEW p \in Pollers, Send(p)
  PROVE  /\ Alive /\ at[p] = "send" /\ task[p] \in Task
         /\ task[p].src \in 1..NSources /\ task[p].left \in Nat /\ task[p].left > 0
         /\ sent' = [sent EXCEPT ![task[p].src] = @ \cup {<<bx, event>>}]
         /\ stat' = [stat EXCEPT ![task[p].src] = event]
         /\ task'[p] \in Task /\ task'[p].of = task[p].of
         /\ \A q \in Pollers \ {p} : at[q] = "none" /\ at'[q] = "none"
         /\ \/ /\ task[p].src < NSources /\ at'[p] = "fill"
               /\ task'[p].src = task[p].src + 1 /\ task'[p].left = task[p].left
               /\ UNCHANGED <<event, bx>>
            \/ /\ task[p].src = NSources /\ task[p].left > 1 /\ at'[p] = "fill"
               /\ task'[p].src = 1 /\ task'[p].left = task[p].left - 1
               /\ event' = event + 1 /\ bx' = bx + 1
            \/ /\ task[p].src = NSources /\ task[p].left = 1 /\ at'[p] = "loop"
               /\ event' = event + 1 /\ bx' = bx + 1
         /\ UNCHANGED <<control, inbox, layout, trig, switched, stream>>
<1>1. Alive /\ at[p] = "send" /\ task[p] \in Task /\ task[p].left > 0
  BY DEF Send, ServerInv, TypeOK, ThreadInv
<1>2. task[p].src \in 1..NSources /\ task[p].left \in Nat /\ task[p].of \in Nat
  BY <1>1 DEF Task, Sources
<1>3. /\ sent' = [sent EXCEPT ![task[p].src] = @ \cup {<<bx, event>>}]
      /\ stat' = [stat EXCEPT ![task[p].src] = event]
  <2>1. Gtc(bx) = bx
    BY <1>1, KeyFits DEF Busy
  <2> QED BY <1>1, <2>1 DEF Send, Publish, ServerInv, BurstInv
<1>4. \A q \in Pollers \ {p} : at[q] = "none" /\ at'[q] = at[q]
  BY <1>1, OnlyPoller DEF Send, Advance, NextSource, NextTrigger, EndOfBurst, Goes, ServerInv, TypeOK
<1>5. UNCHANGED <<control, inbox, layout, trig, switched, stream>>
  BY DEF Send, streamer, env
<1>6. task' \in [Pollers -> Task] /\ at \in [Pollers -> PollerAt] /\ task \in [Pollers -> Task]
  BY SendStep DEF ServerInv, TypeOK
<1>7. CASE NextSource(p)
  <2>1. task'[p] = [task[p] EXCEPT !.src = @ + 1] /\ at'[p] = "fill" /\ task[p].src < NSources
    BY <1>6, <1>7 DEF NextSource, Goes
  <2>2. task'[p].src = task[p].src + 1 /\ task'[p].left = task[p].left /\ task'[p].of = task[p].of
    BY <1>1, <2>1 DEF Task
  <2>3. UNCHANGED <<event, bx>>
    BY <1>7 DEF NextSource
  <2> QED BY <1>1, <1>2, <1>3, <1>4, <1>5, <1>6, <2>1, <2>2, <2>3
<1>8. CASE NextTrigger(p)
  <2>1. /\ task'[p] = [task[p] EXCEPT !.src = 1, !.left = @ - 1] /\ at'[p] = "fill"
        /\ task[p].src = NSources /\ task[p].left > 1
    BY <1>6, <1>8 DEF NextTrigger, Goes
  <2>2. task'[p].src = 1 /\ task'[p].left = task[p].left - 1 /\ task'[p].of = task[p].of
    BY <1>1, <2>1 DEF Task
  <2>3. event' = event + 1 /\ bx' = bx + 1
    BY <1>8 DEF NextTrigger
  <2> QED BY <1>1, <1>2, <1>3, <1>4, <1>5, <1>6, <2>1, <2>2, <2>3
<1>9. CASE EndOfBurst(p)
  <2>1. /\ task'[p] = Polls(task[p].of) /\ at'[p] = "loop"
        /\ task[p].src = NSources /\ task[p].left = 1
    BY <1>6, <1>9 DEF EndOfBurst, Goes
  <2>2. task'[p].of = task[p].of
    BY <1>2, <2>1, PollsIsTask
  <2>3. event' = event + 1 /\ bx' = bx + 1
    BY <1>9 DEF EndOfBurst
  <2> QED BY <1>1, <1>2, <1>3, <1>4, <1>5, <1>6, <2>1, <2>2, <2>3
<1> QED BY <1>7, <1>8, <1>9 DEF Send, Advance

\* Before it sends, no source whose turn it is has sent a key as late as this.
LEMMA KeyAtHand ==
  ASSUME ServerInv, SeenInv, KeysFit, ~switched, NEW p \in Pollers, Alive, at[p] = "send"
  PROVE  /\ \A s \in Sources : \A e \in sent[s] : e[1] \in Nat /\ (e[1] < bx \/ e = <<bx, event>>)
         /\ \A s \in Sources : s >= task[p].src => \A e \in sent[s] : e[1] < bx
<1>1. Busy(p)
  BY DEF Busy
<1>2. \A e \in sent[NSources] : e[1] < bx
  BY <1>1 DEF SeenInv, KeyInv
<1>3. \A s \in Sources : \A e \in sent[s] : e[1] \in Nat
  BY KeysAreNumbers DEF ServerInv
<1>4. \A s \in Sources : sent[s] = sent[NSources] \cup (IF s < task[p].src THEN {<<bx, event>>} ELSE {})
  BY <1>1, KeyFits DEF ServerInv, BurstInv
<1>5. task[p].src \in Int /\ Sources \subseteq Int
  BY DEF ServerInv, TypeOK, Task, Sources
<1> QED BY <1>2, <1>3, <1>4, <1>5

LEMMA SeenSend ==
  ASSUME ServerInv, SeenInv, KeysFit, NEW p \in Pollers, Send(p)
  PROVE  SeenInv'
<1>1. /\ at[p] # "none" /\ task[p].src \in Sources
      /\ UNCHANGED <<state, web, mode, running, senders, subscriber, polling, inbox, layout,
                     complete, trig, switched, stream>>
  BY DEF Send, control, streamer, env, ServerInv, TypeOK, Task
<1>2. PollingInv'
  BY <1>1, PollingKept DEF SeenInv, Alive
<1>3. DiscoverInv'
  BY <1>1, RunningThread, DiscoverKept DEF SeenInv
<1>4. CASE switched
  BY <1>1, <1>2, <1>3, <1>4, KeyKept DEF SeenInv
<1>5. CASE ~switched
  <2> DEFINE k == task[p].src
             e == <<bx, event>>
  <2>1. /\ Alive /\ at[p] = "send" /\ k \in 1..NSources /\ task[p].left \in Nat /\ task[p].left > 0
        /\ bx \in Nat /\ NSources \in Nat
    BY <1>5, SendTurn, SourceServerAssumption DEF ServerInv, TypeOK
  <2>2. \A s \in Sources : sent'[s] = IF s = k THEN sent[s] \cup {e} ELSE sent[s]
    <3>1. sent' = [sent EXCEPT ![k] = @ \cup {e}] /\ DOMAIN sent = Sources
      BY <1>5, SendTurn DEF ServerInv, TypeOK
    <3> HIDE DEF k, e
    <3> QED BY <3>1
  <2>3. Ahead' = Ahead /\ Ahead \subseteq Nat
    BY <1>1, KeysAreNumbers DEF Ahead, ServerInv
  <2>4. \A key \in Ahead : bx + task[p].left <= key
    BY <1>5, <2>1 DEF Busy, SeenInv, KeyInv
  <2>5. \A s \in Sources : \A f \in sent'[s] : f[1] \in Nat /\ (f[1] < bx \/ f = e)
    <3>1. \A s \in Sources : \A f \in sent[s] : f[1] \in Nat /\ (f[1] < bx \/ f = e)
      BY <1>5, <2>1, KeyAtHand
    <3>2. e[1] = bx
      OBVIOUS
    <3> HIDE DEF k, e
    <3> TAKE s \in Sources
    <3> TAKE f \in sent'[s]
    <3>3. f \in sent[s] \/ f = e
      BY <2>2
    <3> QED BY <2>1, <3>1, <3>2, <3>3
  <2>6. \A s \in Sources : \A f \in sent'[s], key \in Ahead' : f[1] < key
    <3> TAKE s \in Sources
    <3> TAKE f \in sent'[s], key \in Ahead'
    <3>1. key \in Nat /\ bx + task[p].left <= key
      BY <2>3, <2>4
    <3>2. bx < key
      BY <2>1, <3>1
    <3>3. e[1] = bx /\ f[1] \in Nat /\ (f[1] < bx \/ f = e)
      BY <2>5
    <3> QED BY <2>1, <3>1, <3>2, <3>3
  <2>7. \A q \in Pollers \ {p} : ~(Busy(q)')
    BY <1>5, SendTurn DEF Busy
  <2>8. Busy(p)' => /\ \A f \in sent'[NSources] : f[1] < bx'
                    /\ \A key \in Ahead' : bx' + task'[p].left <= key
    <3>1. NSources \in Sources
      BY SourceServerAssumption DEF Sources
    <3>2. CASE k < NSources
      <4>1. task'[p].left = task[p].left /\ bx' = bx /\ NSources # k
        BY <1>5, <2>1, <3>2, SendTurn
      <4>2. sent'[NSources] = sent[NSources] /\ NSources >= k
        <5>1. sent'[NSources] = sent[NSources]
          BY <2>2, <3>1, <4>1
        <5>2. NSources >= k
          BY <2>1
        <5> QED BY <5>1, <5>2
      <4>3. \A f \in sent[NSources] : f[1] < bx
        BY <1>5, <2>1, <3>1, <4>2, KeyAtHand
      <4> QED BY <2>3, <2>4, <4>1, <4>2, <4>3
    <3>3. CASE k = NSources
      <4>1. bx' = bx + 1 /\ (Busy(p)' => task'[p].left = task[p].left - 1)
        BY <1>5, <2>1, <3>3, SendTurn DEF Busy
      <4>2. \A f \in sent'[NSources] : f[1] < bx'
        BY <2>1, <2>5, <3>1, <4>1
      <4> QED BY <2>1, <2>3, <2>4, <4>1, <4>2
    <3> QED BY <2>1, <3>2, <3>3
  <2>9. KeyInv'
    <3> HIDE DEF k, e
    <3>1. /\ trig' <= MaxKey + 1
          /\ \A i \in 1..MaxConfigures : \A j \in DOMAIN inbox'[i] :
             /\ After(inbox'[i][j]) <= trig'
             /\ \A l \in DOMAIN inbox'[i] : j < l => After(inbox'[i][j]) <= inbox'[i][l].bx
      BY <1>1 DEF SeenInv, KeyInv
    <3> QED BY <2>6, <2>7, <2>8, <3>1 DEF KeyInv, After
  <2> QED BY <1>2, <1>3, <2>9 DEF SeenInv
<1> QED BY <1>4, <1>5

LEMMA SeenInit ==
  Init => SeenInv
<1> SUFFICES ASSUME Init PROVE SeenInv
  OBVIOUS
<1>1. ServerInv
  BY InitInv
<1>2. PollingInv /\ DiscoverInv
  BY DEF Init, PollingInv, DiscoverInv
<1>3. KeyInv
  <2>1. \A i \in 1..MaxConfigures : inbox[i] = <<>>
    BY DEF Init
  <2>2. \A p \in Pollers : ~Busy(p)
    BY DEF Init, Busy
  <2>3. \A s \in Sources : sent[s] = {}
    BY DEF Init
  <2>4. trig <= MaxKey + 1
    BY SourceServerAssumption DEF Init
  <2> QED BY <2>1, <2>2, <2>3, <2>4 DEF KeyInv
<1> QED BY <1>2, <1>3 DEF SeenInv

LEMMA SeenStep ==
  KeysFit /\ ServerInv /\ SeenInv /\ [Next]_vars => SeenInv'
<1> SUFFICES ASSUME KeysFit, ServerInv, SeenInv, [Next]_vars PROVE SeenInv'
  OBVIOUS
<1>1. CASE Command
  BY <1>1, SeenConfigure, SeenStart, SeenSetParameter, SeenSupplyParameters, SeenStop DEF Command
<1>2. CASE EndStop \/ EndHalt
  BY <1>2, SeenStop
<1>3. ASSUME NEW p \in Pollers, PollThread(p) PROVE SeenInv'
  BY <1>3, SeenNextPoll, SeenReceiveBurst, SeenSend, SeenDeath DEF PollThread
<1>4. ASSUME NEW s \in Sources, StreamThread(s) PROVE SeenInv'
  BY <1>4, SeenStream
<1>5. ASSUME NEW n \in Ntrgs, Post(n) PROVE SeenInv'
  BY <1>5, SeenPost
<1>6. ASSUME NEW b \in Builders, Read(b) PROVE SeenInv'
  BY <1>6, SeenRead
<1>7. CASE UNCHANGED vars
  <2>1. UNCHANGED <<state, web, mode, running, senders, subscriber, polling, inbox, bx, at, task,
                    stream, stat, sent, layout, complete, trig, switched>>
    BY <1>7 DEF vars, control, poller, streamer, out, env
  <2>2. PollingInv'
    BY <2>1, PollingKept DEF SeenInv, Alive
  <2>3. DiscoverInv'
    BY <2>1, DiscoverKept DEF SeenInv
  <2>4. KeyInv'
    BY <2>1, KeyKept DEF SeenInv, Alive, Busy
  <2> QED BY <2>2, <2>3, <2>4 DEF SeenInv
<1> QED BY <1>1, <1>2, <1>3, <1>4, <1>5, <1>6, <1>7 DEF Next

(***************************************************************************)
(* What DataServer sees of the poll thread.                                *)
(***************************************************************************)
Resting == [event |-> 0, bx |-> 0, ntrg |-> 0]

LEMMA NobodySeen ==
  ASSUME NEW src \in Sources, \A p \in Pollers : at[p] # "none" => task[p].of # subscriber
  PROVE  PollerOf(src) = [at |-> "none", burst |-> Resting]
BY DEF PollerOf, Resting

SeenAt(p, src) ==
  IF ~Busy(p) THEN [at |-> at[p], burst |-> Resting]
  ELSE IF task[p].src <= src
    THEN [at |-> "fill", burst |-> [event |-> event, bx |-> bx, ntrg |-> task[p].left]]
  ELSE IF task[p].left = 1 THEN [at |-> "loop", burst |-> Resting]
  ELSE [at |-> "fill", burst |-> [event |-> event + 1, bx |-> bx + 1, ntrg |-> task[p].left - 1]]

LEMMA PollerSeen ==
  ServerInv /\ ~switched /\ Alive =>
    \A p \in Pollers, src \in Sources : at[p] # "none" => PollerOf(src) = SeenAt(p, src)
<1> SUFFICES ASSUME ServerInv, ~switched, Alive, NEW p \in Pollers, NEW src \in Sources, at[p] # "none"
             PROVE  PollerOf(src) = SeenAt(p, src)
  OBVIOUS
<1> DEFINE busy == {q \in Pollers : at[q] # "none" /\ task[q].of = subscriber}
<1>1. task[p].of = subscriber /\ \A q \in Pollers \ {p} : at[q] = "none"
  BY OnlyPoller DEF ServerInv, ThreadInv
<1>2. busy # {} /\ p = CHOOSE q \in busy : TRUE
  <2>1. busy = {p}
    BY <1>1
  <2> QED BY <2>1
<1>3. /\ task[p].src \in Int /\ src \in Int /\ task[p].left \in Nat /\ event \in Nat /\ bx \in Nat
      /\ Busy(p) => task[p].left > 0
  BY DEF ServerInv, TypeOK, Task, Sources, ThreadInv, Busy
<1> HIDE DEF busy
<1>4. CASE ~Busy(p)
  <2>1. PollerOf(src) = [at |-> at[p], burst |-> Resting]
    BY <1>2, <1>4 DEF PollerOf, Busy, Resting, busy
  <2> QED BY <1>4, <2>1 DEF SeenAt
<1>5. CASE Busy(p) /\ task[p].src <= src
  <2>1. ~(task[p].src > src) /\ task[p].left - 0 = task[p].left /\ task[p].left # 0 /\ event + 0 = event /\ bx + 0 = bx
    BY <1>3, <1>5
  <2>2. PollerOf(src) = [at |-> "fill", burst |-> [event |-> event, bx |-> bx, ntrg |-> task[p].left]]
    BY <1>2, <1>5, <2>1 DEF PollerOf, Busy, busy
  <2> QED BY <1>5, <2>2 DEF SeenAt
<1>6. CASE Busy(p) /\ ~(task[p].src <= src)
  <2>1. task[p].src > src /\ (task[p].left - 1 = 0 <=> task[p].left = 1)
    BY <1>3, <1>6
  <2>2. PollerOf(src) = IF task[p].left = 1 THEN [at |-> "loop", burst |-> Resting]
                        ELSE [at |-> "fill", burst |-> [event |-> event + 1, bx |-> bx + 1, ntrg |-> task[p].left - 1]]
    BY <1>2, <1>6, <2>1 DEF PollerOf, Busy, busy, Resting
  <2> QED BY <1>6, <2>2 DEF SeenAt
<1> QED BY <1>4, <1>5, <1>6

\* The same after a step.
LEMMA PollerSeenNext ==
  ServerInv' /\ ~switched' /\ Alive' =>
    \A p \in Pollers, src \in Sources : at'[p] # "none" => PollerOf(src)' = SeenAt(p, src)'
<1> DEFINE Right == \A p \in Pollers, src \in Sources : at[p] # "none" => PollerOf(src) = SeenAt(p, src)
<1>1. ServerInv /\ ~switched /\ Alive => Right
  BY PollerSeen
<1> HIDE DEF Right
<1>2. ServerInv' /\ ~switched' /\ Alive' => Right'
  BY <1>1, PTL
<1> QED BY <1>2 DEF Right

(***************************************************************************)
(* Every step is a step of DataServer, or nothing it sees.                 *)
(***************************************************************************)
ActsFor(src) ==
  \/ Seen(src)!PollThread(0)
  \/ Seen(src)!ServerConfigure(0) \/ Seen(src)!ServerStart(0)
  \/ Seen(src)!ServerStop(0) \/ Seen(src)!ServerStopped(0)
  \/ UNCHANGED <<Seen(src)!server, Seen(src)!history, stat[src]>>

LEMMA NothingSeen ==
  ASSUME NEW src \in Sources,
         PollerOf(src)' = PollerOf(src), sent'[src] = sent[src], stat'[src] = stat[src],
         state' = "RUNNING" <=> state = "RUNNING", web' = "idle" <=> web = "idle",
         subscriber' \in polling' <=> subscriber \in polling
  PROVE  ActsFor(src)
<1>1. UNCHANGED Seen(src)!server
  BY DEF Seen!server
<1>2. UNCHANGED Seen(src)!history
  BY DEF Seen!history
<1> QED BY <1>1, <1>2 DEF ActsFor

\* fillEvent takes its arguments before it sends, which DataServer does not see.
LEMMA FillEventSeen ==
  ASSUME ServerInv, ServerInv', NEW src \in Sources, NEW p \in Pollers, FillEvent(p),
         ~switched', Alive'
  PROVE  ActsFor(src)
<1>1. /\ UNCHANGED <<state, web, subscriber, polling, sent, stat, event, bx, switched>> /\ Alive
      /\ at[p] = "fill" /\ at'[p] = "send"
  BY DEF FillEvent, Goes, control, out, env, ServerInv, TypeOK
<1>2. task'[p].src = task[p].src /\ task'[p].left = task[p].left
  <2>1. task[p] \in Task /\ task'[p] = [task[p] EXCEPT !.event = event, !.key = bx]
    BY DEF FillEvent, Goes, ServerInv, TypeOK
  <2> QED BY <2>1 DEF Task
<1>3. SeenAt(p, src)' = SeenAt(p, src)
  BY <1>1, <1>2 DEF SeenAt, Busy
<1>4. PollerOf(src)' = PollerOf(src)
  BY <1>1, <1>3, PollerSeen, PollerSeenNext
<1> QED BY <1>1, <1>4, NothingSeen

\* DataServer's poll thread, given what its step does to the parts it sees.
LEMMA LoopSeen ==
  ASSUME ServerInv, ServerInv', NEW src \in Sources, NEW p \in Pollers,
         NextPoll(p) \/ PollTimeout(p), ~switched', Alive'
  PROVE  ActsFor(src)
<1>1. /\ UNCHANGED <<state, web, subscriber, polling, inbox, sent, stat, task, switched>> /\ Alive
      /\ \A q \in Pollers \ {p} : at'[q] = at[q]
  BY DEF NextPoll, PollTimeout, control, out, env, ServerInv, TypeOK
<1>2. /\ at[p] # "none" /\ ~Busy(p) /\ task[p].of = subscriber /\ subscriber # 0
      /\ \A q \in Pollers \ {p} : at'[q] = "none"
  BY <1>1, OnlyPoller DEF NextPoll, PollTimeout, Busy, ServerInv, ThreadInv
<1>3. PollerOf(src) = [at |-> at[p], burst |-> Resting]
  BY <1>1, <1>2, PollerSeen DEF SeenAt
<1>4. at'[p] \in {"none", "loop", "poll"}
  BY DEF NextPoll, PollTimeout, ServerInv, TypeOK
<1>5. PollerOf(src)' = [at |-> at'[p], burst |-> Resting]
  <2>1. CASE at'[p] = "none"
    <3>1. \A q \in Pollers : at'[q] = "none"
      BY <1>2, <2>1
    <3> QED BY <2>1, <3>1 DEF PollerOf, Resting
  <2>2. CASE at'[p] # "none"
    <3>1. ~(Busy(p)')
      BY <1>4 DEF Busy
    <3> QED BY <2>2, <3>1, PollerSeenNext DEF SeenAt
  <2> QED BY <2>1, <2>2
<1>6. UNCHANGED Seen(src)!history /\ UNCHANGED Seen(src)!shared
  BY <1>1 DEF Seen!history, Seen!shared
<1>7. CASE NextPoll(p)
  <2>1. at[p] = "loop" /\ at'[p] = IF subscriber \in polling THEN "poll" ELSE "none"
    BY <1>2, <1>7 DEF NextPoll, ServerInv, TypeOK
  <2>2. Seen(src)!NextPoll(0)
    BY <1>1, <1>3, <1>5, <1>6, <2>1 DEF Seen!NextPoll
  <2> QED BY <2>2 DEF ActsFor, Seen!PollThread
<1>8. CASE PollTimeout(p)
  <2>1. at[p] = "poll" /\ at'[p] = "loop" /\ inbox[subscriber] = <<>>
    BY <1>2, <1>8 DEF PollTimeout, ServerInv, TypeOK
  <2>2. Seen(src)!PollTimeout(0)
    BY <1>1, <1>2, <1>3, <1>5, <1>6, <2>1 DEF Seen!PollTimeout
  <2> QED BY <2>2 DEF ActsFor, Seen!PollThread
<1> QED BY <1>7, <1>8

LEMMA ReceiveBurstSeen ==
  ASSUME ServerInv, ServerInv', SeenInv, NEW src \in Sources, NEW p \in Pollers, ReceiveBurst(p),
         ~switched', Alive', mode = "TRIGGER"
  PROVE  ActsFor(src)
<1> DEFINE burst == Head(inbox[subscriber])
<1>1. /\ UNCHANGED <<state, web, subscriber, polling, sent, stat, switched>> /\ Alive /\ at[p] = "poll"
  BY DEF ReceiveBurst, control, streamer, out, env
<1>2. task[p].of = subscriber /\ task[p].src = 1 /\ task[p] \in Task /\ subscriber \in 1..MaxConfigures
  BY ZenonT(60), <1>1 DEF ServerInv, ThreadInv, BurstInv, Busy, TypeOK
<1>3. senders
  BY <1>1, <1>2, OnlyPoller DEF SeenInv, DiscoverInv, ServerInv, TypeOK, Alive
<1>4. inbox[subscriber] # <<>> /\ inbox'[subscriber] = Tail(inbox[subscriber])
  BY <1>2 DEF ReceiveBurst, ServerInv, TypeOK
<1>5. burst \in Burst
  BY <1>2, <1>4, InboxOf DEF ServerInv
<1>6. burst.event \in Nat /\ burst.bx \in Nat /\ burst.ntrg \in Nat
  BY <1>5 DEF Burst
<1>7. event' = burst.event /\ bx' = burst.bx
  <2> HIDE DEF burst
  <2>1. event' = burst.event + 0 /\ bx' = burst.bx + 0
    BY <1>2, <1>3 DEF ReceiveBurst, burst
  <2> QED BY <1>6, <2>1
<1>8. at'[p] = "fill" /\ task'[p].src = 1 /\ task'[p].left = burst.ntrg
  <2>1. at'[p] = "fill" /\ task'[p] = [task[p] EXCEPT !.left = burst.ntrg]
    BY <1>2, <1>3 DEF ReceiveBurst, Goes, ServerInv, TypeOK
  <2> QED BY <1>2, <2>1 DEF Task
<1>9. PollerOf(src) = [at |-> "poll", burst |-> Resting]
  BY <1>1, PollerSeen DEF SeenAt, Busy
<1>10. burst = [event |-> burst.event, bx |-> burst.bx, ntrg |-> burst.ntrg]
  BY <1>5 DEF Burst
<1> HIDE DEF burst
<1>11. PollerOf(src)' = [at |-> "fill", burst |-> burst]
  <2>1. SeenAt(p, src)' = [at |-> "fill", burst |-> [event |-> event', bx |-> bx', ntrg |-> task'[p].left]]
    BY <1>8 DEF SeenAt, Busy, Sources
  <2>2. PollerOf(src)' = SeenAt(p, src)'
    BY <1>8, PollerSeenNext
  <2>3. SeenAt(p, src)' = [at |-> "fill", burst |-> burst]
    BY <1>7, <1>8, <1>10, <2>1
  <2> QED BY <2>2, <2>3
<1>12. subscriber # 0
  BY <1>2
<1>13. Seen(src)!ReceiveBurst(0)
  <2>1. UNCHANGED Seen(src)!history
    BY <1>1 DEF Seen!history
  <2>2. PollerOf(src).at = "poll" /\ PollerOf(src)'.at = "fill" /\ PollerOf(src)'.burst = burst
    BY <1>9, <1>11
  <2>3. subscriber' = subscriber /\ stat' = stat /\ state' = state /\ web' = web /\ polling' = polling
    BY <1>1
  <2> QED BY <1>4, <1>12, <2>1, <2>2, <2>3 DEF Seen!ReceiveBurst, burst
<1> QED BY <1>13 DEF ActsFor, Seen!PollThread

\* The greatest key of a source is the one it has just sent.
LEMMA LastKeyIs ==
  ASSUME NEW S, NEW k \in Nat, NEW n, \A e \in S : e[1] \in Nat /\ e[1] < k
  PROVE  LET T == S \cup {<<k, n>>}
         IN  T # {} /\ Max({e[1] : e \in T}) = k
<1> DEFINE T == S \cup {<<k, n>>}
           keys == {e[1] : e \in T}
<1>1. k \in keys /\ \A x \in keys : x \in Nat /\ k >= x
  <2>1. <<k, n>>[1] = k /\ <<k, n>> \in T
    OBVIOUS
  <2>2. \A e \in T : e[1] \in Nat /\ (e[1] < k \/ e[1] = k)
    BY <2>1
  <2>3. ASSUME NEW x \in keys PROVE x \in Nat /\ k >= x
    <3>1. PICK e \in T : x = e[1]
      BY <2>3
    <3> HIDE DEF T, keys
    <3> QED BY <2>2, <3>1
  <2> QED BY <2>1, <2>3
<1>4. T # {}
  OBVIOUS
<1> HIDE DEF T, keys
<1>2. \A x \in keys : (\A y \in keys : x >= y) => x = k
  BY <1>1
<1>3. Max(keys) = k
  BY <1>1, <1>2 DEF Max
<1> QED BY <1>3, <1>4 DEF T, keys

LEMMA SendSeen ==
  ASSUME ServerInv, ServerInv', SeenInv, KeysFit, NEW src \in Sources, NEW p \in Pollers, Send(p),
         ~switched', Alive'
  PROVE  ActsFor(src)
<1> DEFINE k == task[p].src
           left == task[p].left
<1>1. ~switched /\ UNCHANGED <<control, inbox, switched>>
  BY DEF Send, env, control
<1>2. /\ Alive /\ at[p] = "send" /\ k \in 1..NSources /\ left \in Nat /\ left > 0
      /\ src \in 1..NSources /\ NSources \in Nat /\ event \in Nat /\ bx \in Nat
  BY <1>1, SendTurn, SourceServerAssumption DEF Sources, ServerInv, TypeOK
<1>3. /\ sent'[src] = IF src = k THEN sent[src] \cup {<<bx, event>>} ELSE sent[src]
      /\ stat'[src] = IF src = k THEN event ELSE stat[src]
  <2>1. /\ sent' = [sent EXCEPT ![k] = @ \cup {<<bx, event>>}] /\ stat' = [stat EXCEPT ![k] = event]
        /\ DOMAIN sent = Sources /\ DOMAIN stat = Sources
    BY <1>1, SendTurn DEF ServerInv, TypeOK
  <2> HIDE DEF k
  <2> QED BY <2>1
<1>4. \/ /\ k < NSources /\ at'[p] = "fill" /\ task'[p].src = k + 1 /\ task'[p].left = left
         /\ UNCHANGED <<event, bx>>
      \/ /\ k = NSources /\ left > 1 /\ at'[p] = "fill" /\ task'[p].src = 1 /\ task'[p].left = left - 1
         /\ event' = event + 1 /\ bx' = bx + 1
      \/ /\ k = NSources /\ left = 1 /\ at'[p] = "loop"
         /\ event' = event + 1 /\ bx' = bx + 1
  BY <1>1, SendTurn
<1>5. PollerOf(src) = SeenAt(p, src) /\ Busy(p)
  BY <1>1, <1>2, PollerSeen DEF Busy
<1>6. PollerOf(src)' = SeenAt(p, src)'
  BY <1>4, PollerSeenNext
<1> HIDE DEF k, left
<1>7. CASE src = k
  <2> DEFINE more == [event |-> event + 1, bx |-> bx + 1, ntrg |-> left - 1]
             now == [event |-> event, bx |-> bx, ntrg |-> left]
  <2>1. PollerOf(src) = [at |-> "fill", burst |-> now]
    BY <1>2, <1>5, <1>7 DEF SeenAt, k, left
  <2>2. PollerOf(src)' = [at |-> IF left = 1 THEN "loop" ELSE "fill",
                          burst |-> IF left = 1 THEN Resting ELSE more]
    <3>1. CASE k < NSources
      BY <1>2, <1>4, <1>6, <1>7, <3>1 DEF SeenAt, Busy
    <3>2. CASE k = NSources /\ left > 1
      BY <1>2, <1>4, <1>6, <1>7, <3>2 DEF SeenAt, Busy
    <3>3. CASE k = NSources /\ left = 1
      BY <1>2, <1>4, <1>6, <1>7, <3>3 DEF SeenAt, Busy
    <3> QED BY <1>2, <3>1, <3>2, <3>3
  <2>3. \A e \in sent[src] : e[1] \in Nat /\ e[1] < bx
    BY <1>1, <1>2, <1>7, KeyAtHand DEF Sources, k
  <2>4. sent'[src] = sent[src] \cup {<<bx, event>>} /\ stat'[src] = event
    BY <1>3, <1>7
  <2>5. sent'[src] # {} /\ Max({e[1] : e \in sent'[src]}) = bx
    <3>1. LET T == sent[src] \cup {<<bx, event>>} IN T # {} /\ Max({e[1] : e \in T}) = bx
      BY <1>2, <2>3, LastKeyIs
    <3> QED BY <2>4, <3>1
  <2>6. UNCHANGED <<state, web, subscriber, polling, inbox>>
    BY <1>1 DEF control
  <2> HIDE DEF more, now
  <2>7. /\ now.bx = bx /\ now.event = event /\ now.ntrg = left
        /\ more = Seen(src)!Burst(now.event + 1, now.bx + 1, now.ntrg - 1)
        /\ Resting = Seen(src)!NoBurst
    BY DEF now, more, Seen!Burst, Seen!NoBurst, Resting
  <2>9. Seen(src)!Key(now) = bx
    BY <1>1, <1>2, <1>5, <2>7, KeyFits DEF Seen!Key, Gtc
  <2>8. Seen(src)!FillEvent(0)
    <3>1. /\ PollerOf(src).at = "fill" /\ PollerOf(src).burst = now
          /\ PollerOf(src)'.at = IF left = 1 THEN "loop" ELSE "fill"
          /\ PollerOf(src)'.burst = IF left = 1 THEN Resting ELSE more
      BY <2>1, <2>2
    <3>2. subscriber' = subscriber /\ state' = state /\ web' = web /\ polling' = polling /\ inbox' = inbox
      BY <2>6
    <3> QED BY <2>4, <2>5, <2>7, <2>9, <3>1, <3>2 DEF Seen!FillEvent
  <2> QED BY <2>8 DEF ActsFor, Seen!PollThread
<1>8. CASE src # k
  <2>1. SeenAt(p, src)' = SeenAt(p, src)
    <3>1. CASE src < k
      <4>1. CASE left = 1
        BY <1>2, <1>4, <1>5, <3>1, <4>1 DEF SeenAt, Busy, k, left
      <4>2. CASE left # 1
        BY <1>2, <1>4, <1>5, <3>1, <4>2 DEF SeenAt, Busy, k, left
      <4> QED BY <4>1, <4>2
    <3>2. CASE src > k
      BY <1>2, <1>4, <1>5, <3>2 DEF SeenAt, Busy, k, left
    <3> QED BY <1>2, <1>8, <3>1, <3>2
  <2>2. PollerOf(src)' = PollerOf(src)
    BY <1>5, <1>6, <2>1
  <2> QED BY <1>1, <1>3, <1>8, <2>2, NothingSeen DEF control
<1> QED BY <1>7, <1>8

LEMMA ConfigureSeen ==
  ASSUME ServerInv, SeenInv, NEW src \in Sources, Configure, ~switched', Alive', subscriber' # 0
  PROVE  ActsFor(src)
<1>1. /\ Idle /\ state \in {"INITIALISED", "CONFIGURED"} /\ state' # "RUNNING"
      /\ UNCHANGED <<web, mode, polling, task, sent, switched>> /\ stat' = NoStat
  BY DEF Configure, Connect, GiveUp, env
<1>2. \A p \in Pollers : at[p] = "none" /\ at'[p] = "none"
  BY <1>1 DEF Configure, DeleteSenders, ServerInv, QuietUnlessRunning
<1>3. PollerOf(src) = [at |-> "none", burst |-> Resting] /\ PollerOf(src)' = PollerOf(src)
  BY <1>2 DEF PollerOf, Resting
<1>4. polling = {}
  BY <1>1 DEF SeenInv, PollingInv, Idle
<1>5. stat'[src] = 0
  BY <1>1 DEF NoStat
<1>6. complete /\ Discovers
  BY DEF Configure, Connect, GiveUp, SeenInv, DiscoverInv
<1>7. subscriber' \in 1..MaxConfigures /\ subscriber' # 0
  BY <1>6, SourceServerAssumption DEF Configure, Connect, ServerInv, TypeOK
<1>8. inbox'[subscriber'] = <<>>
  BY <1>2, <1>6, <1>7 DEF Configure, Connect, ServerInv, TypeOK
<1>9. UNCHANGED Seen(src)!server
  BY <1>1, <1>3, <1>4 DEF Seen!server
<1>10. UNCHANGED Seen(src)!history
  BY <1>1 DEF Seen!history
<1>11. Seen(src)!ServerConfigure(0)
  BY <1>1, <1>5, <1>7, <1>8, <1>9, <1>10 DEF Seen!ServerConfigure
<1> QED BY <1>11 DEF ActsFor

LEMMA StartSeen ==
  ASSUME ServerInv, ServerInv', SeenInv, NEW src \in Sources, Start, ~switched', Alive',
         mode = "TRIGGER", subscriber' # 0
  PROVE  ActsFor(src)
<1>1. /\ Alive /\ state = "CONFIGURED" /\ state' = "RUNNING" /\ web = "idle" /\ stat' = NoStat
      /\ polling' = polling \cup {subscriber} /\ subscriber # 0
      /\ UNCHANGED <<web, subscriber, inbox, sent, switched>>
  BY DEF Start, Dereference, Idle, env
<1>2. PICK p \in Pollers : at[p] = "none" /\ Goes(p, "loop", Polls(subscriber))
  BY <1>1 DEF Start
<1>3. \A q \in Pollers : at[q] = "none"
  BY <1>1 DEF ServerInv, QuietUnlessRunning
<1>4. PollerOf(src) = [at |-> "none", burst |-> Resting]
  BY <1>3, NobodySeen
<1>5. at'[p] = "loop"
  BY <1>2 DEF Goes, ServerInv, TypeOK
<1>6. PollerOf(src)' = [at |-> "loop", burst |-> Resting]
  BY <1>5, PollerSeenNext DEF SeenAt, Busy
<1>7. polling = {} /\ stat'[src] = 0
  BY <1>1 DEF SeenInv, PollingInv, NoStat
<1>8. Seen(src)!ServerStart(0)
  <2>1. /\ PollerOf(src).at = "none" /\ PollerOf(src).burst = Resting
        /\ PollerOf(src)'.at = "loop" /\ PollerOf(src)'.burst = Resting
    BY <1>4, <1>6
  <2>2. subscriber' = subscriber /\ web' = web /\ inbox' = inbox /\ sent' = sent
    BY <1>1
  <2> QED BY <1>1, <1>7, <2>1, <2>2 DEF Seen!ServerStart
<1> QED BY <1>8 DEF ActsFor

LEMMA BeginStopSeen ==
  ASSUME ServerInv, SeenInv, NEW src \in Sources, NEW command \in {"STOP", "HALT"},
         BeginStop(command), ~switched', Alive', mode = "TRIGGER", subscriber' # 0
  PROVE  ActsFor(src)
<1>1. /\ Alive /\ state = "RUNNING" /\ web = "idle" /\ web' # "idle"
      /\ polling' = polling \ {subscriber}
      /\ UNCHANGED <<state, mode, subscriber, inbox, sent, stat, at, task, event, bx, switched>>
      /\ subscriber # 0
  BY DEF BeginStop, Dereference, Idle, poller, out, env
<1>2. PollerOf(src)' = PollerOf(src)
  BY <1>1 DEF PollerOf
<1>3. subscriber \in polling /\ subscriber' \notin polling'
  BY <1>1 DEF SeenInv, PollingInv
<1>4. UNCHANGED Seen(src)!history /\ UNCHANGED Seen(src)!shared
  BY <1>1 DEF Seen!history, Seen!shared
<1>5. Seen(src)!ServerStop(0)
  BY <1>1, <1>2, <1>3, <1>4 DEF Seen!ServerStop
<1> QED BY <1>5 DEF ActsFor

LEMMA EndSeen ==
  ASSUME ServerInv, SeenInv, NEW src \in Sources, EndStop \/ EndHalt, ~switched', Alive',
         mode = "TRIGGER"
  PROVE  ActsFor(src)
<1>1. /\ Alive /\ state' # "RUNNING" /\ web' = "idle"
      /\ UNCHANGED <<mode, subscriber, polling, inbox, sent, stat, task, event, bx, switched>>
  BY DEF EndStop, EndHalt, Idle, poller, out, env
<1>2. \A p \in Pollers : at[p] = "none"
  BY <1>1 DEF EndStop, EndHalt, Idle, Joined, ServerInv, ThreadInv, QuietUnlessRunning
<1>3. \A p \in Pollers : at'[p] = "none"
  BY <1>2 DEF EndStop, EndHalt, DeleteSenders, poller
<1>4. PollerOf(src) = [at |-> "none", burst |-> Resting] /\ PollerOf(src)' = PollerOf(src)
  BY <1>2, <1>3 DEF PollerOf, Resting
<1>5. CASE web = "idle"
  <2>1. state # "RUNNING"
    BY <1>5 DEF EndStop, EndHalt
  <2> QED BY <1>1, <1>4, <1>5, <2>1, NothingSeen
<1>6. CASE web # "idle"
  <2>1. state = "RUNNING"
    BY <1>1, <1>6 DEF ServerInv, ThreadInv
  <2>2. UNCHANGED Seen(src)!history /\ UNCHANGED Seen(src)!shared
    BY <1>1 DEF Seen!history, Seen!shared
  <2>3. Seen(src)!ServerStopped(0)
    BY <1>1, <1>4, <1>6, <2>1, <2>2 DEF Seen!ServerStopped
  <2> QED BY <2>3 DEF ActsFor
<1> QED BY <1>5, <1>6

\* SETPARAM outside a run, or of what was missing, a burst that is posted, a builder that reads.
LEMMA OthersSeen ==
  ASSUME NEW src \in Sources, ~switched',
         SetParameter \/ SupplyParameters \/ (\E n \in Ntrgs : Post(n)) \/ (\E b \in Builders : Read(b))
  PROVE  ActsFor(src)
<1>1. UNCHANGED <<state, web, subscriber, polling, event, bx, at, task, stat, sent>>
  BY DEF SetParameter, SupplyParameters, Post, Read, control, poller, out, env
<1>2. PollerOf(src)' = PollerOf(src)
  BY <1>1 DEF PollerOf
<1> QED BY <1>1, <1>2, NothingSeen

\* In an undisturbed server in trigger mode the other threads do not run.
LEMMA NoOthers ==
  ASSUME ServerInv, ServerInv', ~switched', Alive', mode = "TRIGGER"
  PROVE  /\ ~(\E s \in Sources : StreamThread(s))
         /\ ~(\E p \in Pollers : PollerDangles(p) \/ (Alive /\ at[p] = "send" /\ PublishNowhere))
<1>1. ASSUME NEW s \in Sources, StreamThread(s) PROVE FALSE
  <2>1. Alive /\ stream[s] # "none" /\ ~switched
    BY <1>1 DEF StreamThread, StreamLook, StreamSend, StreamStore, StreamDangles, PublishNowhere, env
  <2> QED BY <2>1 DEF ServerInv, ThreadInv, QuietUnlessRunning, TypeOK, Alive
<1>2. ASSUME NEW p \in Pollers, PollerDangles(p) PROVE FALSE
  BY <1>2 DEF PollerDangles, env, ServerInv, ThreadInv
<1>3. ASSUME PublishNowhere PROVE FALSE
  BY <1>3 DEF PublishNowhere, Alive
<1> QED BY <1>1, <1>2, <1>3

LEMMA StepSeen ==
  KeysFit /\ ServerInv /\ ServerInv' /\ SeenInv /\ Next
    => (~switched' /\ mode = "TRIGGER" /\ Alive' /\ subscriber' # 0 => \A src \in Sources : ActsFor(src))
<1> SUFFICES ASSUME KeysFit, ServerInv, ServerInv', SeenInv, Next, ~switched', mode = "TRIGGER",
                    Alive', subscriber' # 0, NEW src \in Sources
             PROVE  ActsFor(src)
  OBVIOUS
<1>1. CASE Command
  BY <1>1, ConfigureSeen, StartSeen, OthersSeen, BeginStopSeen DEF Command
<1>2. CASE EndStop \/ EndHalt
  BY <1>2, EndSeen
<1>3. ASSUME NEW p \in Pollers, PollThread(p) PROVE ActsFor(src)
  BY <1>3, LoopSeen, ReceiveBurstSeen, FillEventSeen, SendSeen, NoOthers DEF PollThread
<1>4. CASE (\E n \in Ntrgs : Post(n)) \/ (\E b \in Builders : Read(b))
  BY <1>4, OthersSeen
<1> QED BY <1>1, <1>2, <1>3, <1>4, NoOthers DEF Next

\* What the implementation rests on beyond ServerInv, for fewer triggers than a
\* uint32_t counts.
THEOREM SeenInvariant ==
  ASSUME KeysFit
  PROVE  SpecAnyBuilders => []SeenInv
<1>1. Init => SeenInv
  BY SeenInit
<1>2. ServerInv /\ SeenInv /\ [Next]_vars => SeenInv'
  BY SeenStep
<1> QED BY <1>1, <1>2, ServerInvariant, PTL DEF SpecAnyBuilders

\* In trigger mode, once it has been configured completely, until SETPARAM
\* disturbs a run, and as long as the bunch crossing fits into 32 bits, every
\* source of the server is a source of DataServer: commands, poll thread, keys
\* and statistics (exServer.cxx:178-208, 245-318), whether or not the builders
\* read.
THEOREM ActsAsDataServerHolds ==
  ASSUME KeysFit
  PROVE  SpecAnyBuilders => ActsAsDataServer
<1>1. ServerInv /\ ServerInv' /\ SeenInv /\ [Next]_vars
        => [~switched' /\ mode = "TRIGGER" /\ Alive' /\ subscriber' # 0
              => \A src \in Sources : ActsFor(src)]_vars
  BY StepSeen
<1>2. SpecAnyBuilders
        => [][~switched' /\ mode = "TRIGGER" /\ Alive' /\ subscriber' # 0
                => \A src \in Sources : ActsFor(src)]_vars
  BY <1>1, ServerInvariant, SeenInvariant, PTL DEF SpecAnyBuilders
<1> QED BY <1>2 DEF ActsAsDataServer, ActsFor

=============================================================================
