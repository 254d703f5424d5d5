---------------------------- MODULE MergerProofs ----------------------------
(***************************************************************************)
(* Theorems about Merger, for every set of sources, number of triggers,    *)
(* purge limit and number of runs.  Type correctness, the thread properties*)
(* and the bound of the map need no assumption on the commands; the        *)
(* properties of the data path are proved for Nominal constants from the   *)
(* inductive invariant IInv of MergerInv, one lemma per action.            *)
(***************************************************************************)
EXTENDS MergerInv, FiniteSetTheorems, TLAPS

\* The operators on the event map keep its type.
LEMMA WithoutType ==
  ASSUME NEW m \in [Keys -> Seq(Sources)], NEW K
  PROVE  Without(m, K) \in [Keys -> Seq(Sources)]
BY DEF Without

LEMMA PurgedType ==
  ASSUME NEW m \in [Keys -> Seq(Sources)], NEW last
  PROVE  Purged(m, last) \in [Keys -> Seq(Sources)]
BY WithoutType DEF Purged

\* lastgtc is a key.
LEMMA LastGtcType ==
  ASSUME NEW done \in SUBSET Keys
  PROVE  LastGtc(done) \subseteq Keys
<1>1. 0 \in Keys
  BY MergerAssumption DEF Keys, MergerAssumption
<1>2. {0} \subseteq Keys /\ {k \in done : \A j \in done : j <= k} \subseteq Keys
  BY <1>1
<1>. QED  BY <1>2, Zenon DEF LastGtc

\* What processEvent assigns has the right type.
LEMMA ProcessEventsType ==
  ASSUME TypeOK, NEW built \in SUBSET Keys, NEW m \in [Keys -> Seq(Sources)],
         ProcessEvents(built, m)
  PROVE  /\ delivered' \in [Keys -> Seq(Seq(Sources))]
         /\ evt' \in Keys
         /\ headerAt' \in [1..Processors -> Seq(Keys)]
         /\ writeHeader' \in BOOLEAN
         /\ nextEventHeader' \in Keys \cup {-1}
         /\ asked' \in Seq(Keys \cup {-1})
<1>1. delivered' \in [Keys -> Seq(Seq(Sources))]
  <2>1. \A k \in Keys : Append(delivered[k], m[k]) \in Seq(Seq(Sources))
    BY DEF TypeOK
  <2>. QED  BY <2>1 DEF TypeOK, ProcessEvents
<1>2. evt' \in Keys
  BY LastGtcType DEF TypeOK, ProcessEvents
<1>3. /\ headerAt' \in [1..Processors -> Seq(Keys)]
      /\ writeHeader' \in BOOLEAN
      /\ nextEventHeader' \in Keys \cup {-1}
  <2>1. CASE writeHeader /\ nextEventHeader > 0 /\ nextEventHeader \in built
    <3>1. Append(headerAt[1], nextEventHeader) \in Seq(Keys)
      BY <2>1, MergerAssumption DEF TypeOK
    <3>. QED  BY <2>1, <3>1 DEF TypeOK, ProcessEvents
  <2>2. CASE ~(writeHeader /\ nextEventHeader > 0 /\ nextEventHeader \in built)
    BY <2>2 DEF TypeOK, ProcessEvents
  <2>. QED  BY <2>1, <2>2
<1>4. asked' \in Seq(Keys \cup {-1})
  BY DEF TypeOK, ProcessEvents
<1>. QED  BY <1>1, <1>2, <1>3, <1>4

\* What processData assigns has the right type.
LEMMA ProcessDataType ==
  ASSUME TypeOK, NEW s \in Sources, NEW k \in Keys, ProcessData(s, k)
  PROVE  /\ nDifs' \in Nat
         /\ eventMap' \in [Keys -> Seq(Sources)]
         /\ purge' \in BOOLEAN
         /\ delivered' \in [Keys -> Seq(Seq(Sources))]
         /\ evt' \in Keys
         /\ headerAt' \in [1..Processors -> Seq(Keys)]
         /\ writeHeader' \in BOOLEAN
         /\ nextEventHeader' \in Keys \cup {-1}
         /\ asked' \in Seq(Keys \cup {-1})
<1> DEFINE n      == IF nregistered > 0 THEN nregistered ELSE nDifs
           filled == [eventMap EXCEPT ![k] = Append(@, s)]
           done   == Complete(filled, n)
<1>1. filled \in [Keys -> Seq(Sources)]
  BY DEF TypeOK
<1>2. done \in SUBSET Keys
  BY DEF Complete, Held
<1>3. nDifs' = n /\ purge' = purge /\ ProcessEvents(done \ {0}, filled)
  BY DEF ProcessData
<1>4. \/ \E last \in LastGtc(done) : eventMap' = Purged(Without(filled, done), last)
      \/ eventMap' = Without(filled, done)
  BY DEF ProcessData
<1> HIDE DEF filled, done
<1>5. eventMap' \in [Keys -> Seq(Sources)]
  BY <1>1, <1>4, WithoutType, PurgedType
<1>6. done \ {0} \in SUBSET Keys
  BY <1>2
<1>. QED  BY <1>1, <1>3, <1>5, <1>6, ProcessEventsType DEF TypeOK

-----------------------------------------------------------------------------
(* Type correctness, for every value of the constants.                      *)

\* Keys are naturals; the registration message is not one of them.
LEMMA KeysFacts == Keys \subseteq Nat /\ 0 \in Keys /\ ID \notin Keys
BY MergerAssumption DEF Keys, ID, MergerAssumption

\* The initial values have their types.
LEMMA TypeInit == Init => TypeOK
<1> SUFFICES ASSUME Init PROVE TypeOK
  OBVIOUS
<1>1. EmptyMap \in [Keys -> Seq(Sources)] /\ EmptyMap \in [Keys -> Seq(Seq(Sources))]
  BY DEF EmptyMap
<1>2. [s \in Sources |-> <<>>] \in [Sources -> Pipe]
  BY DEF Pipe
<1>3. 0 \in 0..MaxKey + 1
  BY MergerAssumption DEF MergerAssumption
<1>. QED  BY <1>1, <1>2, <1>3, KeysFacts DEF Init, TypeOK

\* The poll thread keeps the types.
LEMMA TypePollThread == TypeOK /\ PollThread => TypeOK'
<1> SUFFICES ASSUME TypeOK, PollThread PROVE TypeOK'
  OBVIOUS
<1>1. CASE EnablePolling \/ PollContinue \/ PollExit \/ PollTimeout
  <2>1. /\ UNCHANGED <<control, events, header, world>>
        /\ thread' \in {"none", "created", "loop", "recv"}
        /\ nregistered' \in Nat
    BY <1>1 DEF EnablePolling, PollContinue, PollExit, PollTimeout, TypeOK
  <2>2. polling' \in BOOLEAN
    BY <1>1, Zenon DEF EnablePolling, PollContinue, PollExit, PollTimeout, TypeOK
  <2>. QED  BY <2>1, <2>2 DEF TypeOK, control, events, header, world
<1>2. ASSUME NEW s \in Sources, Receive(s)
      PROVE  /\ pipe' \in [Sources -> Pipe]
             /\ Head(pipe[s]) \in Keys \cup {ID}
  BY <1>2 DEF Receive, TypeOK, Pipe
<1>3. ASSUME NEW s \in Sources, ReceiveID(s)
      PROVE  TypeOK'
  <2>1. pipe' \in [Sources -> Pipe]
    BY <1>2, <1>3 DEF ReceiveID
  <2>2. /\ UNCHANGED <<polling, control, events, header>>
        /\ UNCHANGED <<nextKey, registrations, serving>>
        /\ thread' \in {"loop", "recv"} /\ nregistered' \in Nat
    BY <1>3 DEF ReceiveID, Receive, TypeOK
  <2>. QED  BY <2>1, <2>2 DEF TypeOK, control, events, header
<1>4. ASSUME NEW s \in Sources, ReceiveData(s)
      PROVE  TypeOK'
  <2>1. Head(pipe[s]) \in Keys /\ pipe' \in [Sources -> Pipe]
    BY <1>2, <1>4 DEF ReceiveData
  <2>2. ProcessData(s, Head(pipe[s]))
    BY <1>4 DEF ReceiveData
  <2>3. /\ nDifs' \in Nat
        /\ eventMap' \in [Keys -> Seq(Sources)]
        /\ purge' \in BOOLEAN
        /\ delivered' \in [Keys -> Seq(Seq(Sources))]
        /\ evt' \in Keys
        /\ headerAt' \in [1..Processors -> Seq(Keys)]
        /\ writeHeader' \in BOOLEAN
        /\ nextEventHeader' \in Keys \cup {-1}
        /\ asked' \in Seq(Keys \cup {-1})
    BY <2>1, <2>2, ProcessDataType
  <2>. QED  BY <2>1, <2>3, <1>4 DEF ReceiveData, Receive, TypeOK, control
<1>. QED  BY <1>1, <1>3, <1>4 DEF PollThread

\* The handlers and commands keep the types.
LEMMA TypeWebThread == TypeOK /\ WebThread => TypeOK'
<1> SUFFICES ASSUME TypeOK, WebThread PROVE TypeOK'
  OBVIOUS
<1> USE DEF control, poller, events, header, world
<1>1. EmptyMap \in [Keys -> Seq(Sources)]
  BY DEF EmptyMap
<1>2. ASSUME NEW complete \in BOOLEAN, Configure(complete)
      PROVE  TypeOK'
  <2>1. purge' \in BOOLEAN
    BY <1>2 DEF Configure, TypeOK
  <2>. QED  BY <1>2, <2>1, MergerAssumption DEF Configure, TypeOK, MergerAssumption
<1>3. CASE Start
  BY <1>1, <1>3, KeysFacts DEF Start, TypeOK
<1>4. ASSUME NEW handler \in {"stop", "halt"}, StopBegin(handler)
      PROVE  TypeOK'
  BY <1>4 DEF StopBegin, TypeOK
<1>5. CASE StopEnd
  BY <1>5 DEF StopEnd, TypeOK
<1>6. CASE Halt
  BY <1>1, <1>6 DEF Halt, TypeOK
<1>7. ASSUME NEW active \in BOOLEAN, SetPurge(active)
      PROVE  TypeOK'
  BY <1>7 DEF SetPurge, TypeOK
<1>8. ASSUME NEW k \in Keys \cup {-1}, SetHeader(k)
      PROVE  TypeOK'
  BY <1>8 DEF SetHeader, TypeOK
<1>9. ASSUME NEW n \in RegisterDs, RegisterDS(n)
      PROVE  TypeOK'
  BY <1>9, MergerAssumption DEF RegisterDS, TypeOK, MergerAssumption
<1>. QED  BY <1>2, <1>3, <1>4, <1>5, <1>6, <1>7, <1>8, <1>9 DEF WebThread

\* The data sources keep the types.
LEMMA TypeDataSources == TypeOK /\ DataSources => TypeOK'
<1> SUFFICES ASSUME TypeOK, DataSources PROVE TypeOK'
  OBVIOUS
<1>1. UNCHANGED <<control, poller, events, header>>
  BY DEF DataSources, StartServers, StopServers, Register, Publish, Miss
<1>2. serving' \in BOOLEAN
  BY Zenon DEF DataSources, StartServers, StopServers, Register, Publish, Miss, TypeOK
<1>3. /\ pipe' \in [Sources -> Pipe]
      /\ nextKey' \in [Sources -> 0..MaxKey + 1]
      /\ registrations' \in [Sources -> Nat]
  <2>1. CASE StartServers \/ StopServers
    BY <2>1 DEF StartServers, StopServers, TypeOK
  <2>2. ASSUME NEW s \in Sources, Register(s)
        PROVE  <1>3!:
    BY SMTT(30), <2>2 DEF Register, TypeOK, Pipe
  <2>3. ASSUME NEW s \in Sources, Publish(s) \/ Miss(s)
        PROVE  <1>3!:
    <3>1. nextKey[s] \in Keys /\ nextKey[s] + 1 \in 0..MaxKey + 1
      BY SMTT(30), <2>3, MergerAssumption DEF Publish, Miss, TypeOK, Keys, MergerAssumption
    <3>2. nextKey' = [nextKey EXCEPT ![s] = nextKey[s] + 1] /\ registrations' = registrations
      BY <2>3 DEF Publish, Miss
    <3>3. pipe' = pipe \/ pipe' = [pipe EXCEPT ![s] = Append(pipe[s], nextKey[s])]
      BY <2>3 DEF Publish, Miss
    <3>4. Append(pipe[s], nextKey[s]) \in Pipe
      BY <3>1 DEF TypeOK, Pipe
    <3>. QED  BY <3>1, <3>2, <3>3, <3>4 DEF TypeOK
  <2>. QED  BY <2>1, <2>2, <2>3 DEF DataSources
<1>. QED  BY <1>1, <1>2, <1>3 DEF TypeOK, control, poller, events, header

\* Every variable of the builder keeps its type, whatever the constants.
THEOREM TypeCorrect == Spec => []TypeOK
<1>1. TypeOK /\ [Next]_vars => TypeOK'
  <2> SUFFICES ASSUME TypeOK, [Next]_vars PROVE TypeOK'
    OBVIOUS
  <2>1. CASE UNCHANGED vars
    BY <2>1 DEF vars, control, poller, events, header, world, TypeOK
  <2>. QED  BY <2>1, TypePollThread, TypeWebThread, TypeDataSources DEF Next
<1>. QED  BY <1>1, TypeInit, PTL DEF Spec

-----------------------------------------------------------------------------
(* Vectors of distinct sources.                                             *)

\* There is at least one source.
LEMMA SourcesNumber == NSources \in Nat /\ NSources > 0
BY MergerAssumption, FS_CardinalityType, FS_EmptySet DEF MergerAssumption, NSources

\* As many buffers as sources, none twice: one of each.
LEMMA DistinctIsFull ==
  ASSUME NEW v \in Seq(Sources), Distinct(v), Len(v) = NSources
  PROVE  SourcesOf(v) = Sources
<1>1. v \in [1..NSources -> Sources] /\ DOMAIN v = 1..NSources
  BY SourcesNumber
<1>2. v \in Injection(1..NSources, Sources)
  BY <1>1 DEF Distinct, Injection, IsInjective
<1>3. IsFiniteSet(Sources) /\ Cardinality(1..NSources) = Cardinality(Sources)
  BY MergerAssumption, FS_Interval, SourcesNumber DEF MergerAssumption, NSources
<1>4. v \in Surjection(1..NSources, Sources)
  BY <1>2, <1>3, FS_Injection
<1>. QED  BY <1>1, <1>4 DEF Surjection, SourcesOf

\* The converse: one buffer of each source, none twice, is NSources buffers.
LEMMA FullIsDistinct ==
  ASSUME NEW v \in Seq(Sources), Distinct(v), SourcesOf(v) = Sources
  PROVE  Len(v) = NSources
<1>1. v \in [1..Len(v) -> Sources] /\ DOMAIN v = 1..Len(v) /\ Len(v) \in Nat
  OBVIOUS
<1>2. v \in Bijection(1..Len(v), Sources)
  BY <1>1 DEF Distinct, SourcesOf, Bijection, Injection, Surjection, IsInjective
<1>3. ExistsBijection(1..Len(v), Sources)
  BY <1>2 DEF ExistsBijection
<1>. QED  BY <1>1, <1>3, FS_CountingElements DEF NSources

\* The sources of an event that one more fragment has joined.
LEMMA SourcesAppend ==
  ASSUME NEW v \in Seq(Sources), NEW s \in Sources
  PROVE  SourcesOf(Append(v, s)) = SourcesOf(v) \cup {s}
<1> DEFINE w == Append(v, s)
<1>1. DOMAIN v = 1..Len(v) /\ Len(v) \in Nat /\ DOMAIN w = 1..Len(v) + 1
  OBVIOUS
<1>2. w[Len(v) + 1] = s /\ \A i \in DOMAIN v : w[i] = v[i]
  OBVIOUS
<1>3. Len(v) + 1 \in DOMAIN w /\ DOMAIN v \subseteq DOMAIN w
  BY <1>1
<1>4. \A i \in DOMAIN w : i = Len(v) + 1 \/ i \in DOMAIN v
  BY <1>1
<1> HIDE DEF w
<1>5. SourcesOf(w) \subseteq SourcesOf(v) \cup {s}
  BY <1>2, <1>4 DEF SourcesOf
<1>6. SourcesOf(v) \cup {s} \subseteq SourcesOf(w)
  BY <1>2, <1>3 DEF SourcesOf
<1>. QED  BY <1>5, <1>6 DEF w

\* A fragment of a new source keeps the sources of an event distinct.
LEMMA DistinctAppend ==
  ASSUME NEW v \in Seq(Sources), NEW s \in Sources, Distinct(v), s \notin SourcesOf(v)
  PROVE  Distinct(Append(v, s))
BY DEF Distinct, SourcesOf

-----------------------------------------------------------------------------
(* Connections.                                                             *)

\* The elements of a sequence that has grown by one.
LEMMA AppendElements ==
  ASSUME NEW S, NEW q \in Seq(S), NEW e \in S
  PROVE  /\ \A i \in DOMAIN Append(q, e) :
              \/ i \in DOMAIN q /\ Append(q, e)[i] = q[i]
              \/ i = Len(q) + 1 /\ Append(q, e)[i] = e
         /\ DOMAIN q \subseteq DOMAIN Append(q, e)
         /\ \A i \in DOMAIN q : Append(q, e)[i] = q[i]
OBVIOUS

\* What a connection holds.
LEMMA PipeElements ==
  ASSUME TypeOK, NEW s \in Sources
  PROVE  /\ pipe[s] \in Seq(Keys \cup {ID})
         /\ nextKey[s] \in Nat
         /\ \A i \in DOMAIN pipe[s] : pipe[s][i] \in Keys \cup {ID} /\ pipe[s][i] \in Int
<1>1. pipe[s] \in Seq(Keys \cup {ID}) /\ nextKey[s] \in Nat
  BY MergerAssumption DEF TypeOK, Pipe, MergerAssumption
<1>2. \A i \in DOMAIN pipe[s] : pipe[s][i] \in Keys \cup {ID}
  BY <1>1
<1>3. Keys \cup {ID} \subseteq Int
  BY KeysFacts DEF ID
<1>. QED  BY <1>1, <1>2, <1>3

\* What the poll thread takes out of a connection is older than what stays.
LEMMA ReceiveEffect ==
  ASSUME TypeOK, PipeInv, NEW s \in Sources, Receive(s)
  PROVE  /\ PipeInv'
         /\ \A t \in Sources, k \in Keys : Passed(t, k) => Passed(t, k)'
         /\ \A k \in Keys : k = Head(pipe[s]) => ~Passed(s, k) /\ Passed(s, k)'
         /\ \A t \in Sources : t # s => pipe'[t] = pipe[t]
         /\ pipe'[s] = Tail(pipe[s])
         /\ 1 \in DOMAIN pipe[s] /\ pipe[s][1] = Head(pipe[s])
         /\ \A i \in DOMAIN pipe'[s] :
              i + 1 \in DOMAIN pipe[s] /\ pipe'[s][i] = pipe[s][i + 1]
<1>1. /\ pipe[s] \in Seq(Keys \cup {ID}) /\ pipe[s] # <<>>
      /\ pipe' = [pipe EXCEPT ![s] = Tail(pipe[s])]
      /\ nextKey' = nextKey
  BY DEF Receive, TypeOK, Pipe
<1>2. /\ \A t \in Sources : t # s => pipe'[t] = pipe[t]
      /\ pipe'[s] = Tail(pipe[s])
  BY <1>1 DEF TypeOK
<1>3. /\ 1 \in DOMAIN pipe[s] /\ pipe[s][1] = Head(pipe[s])
      /\ \A i \in DOMAIN pipe'[s] :
           i \in Nat /\ i + 1 \in DOMAIN pipe[s] /\ pipe'[s][i] = pipe[s][i + 1]
  <2> DEFINE q == pipe[s]
  <2>1. q \in Seq(Keys \cup {ID}) /\ q # <<>>
    BY <1>1
  <2> HIDE DEF q
  <2>2. 1 \in DOMAIN q /\ q[1] = Head(q)
    BY <2>1
  <2>3. \A i \in DOMAIN Tail(q) : i \in Nat /\ i + 1 \in DOMAIN q /\ Tail(q)[i] = q[i + 1]
    BY <2>1
  <2>. QED  BY <1>2, <2>2, <2>3 DEF q
<1>4. \A i \in DOMAIN pipe[s] : i \in Nat /\ i > 0
  BY <1>1
<1>5. PipeInv'
  BY <1>1, <1>2, <1>3 DEF PipeInv
<1>6. \A t \in Sources, k \in Keys : Passed(t, k) => Passed(t, k)'
  BY <1>1, <1>2, <1>3 DEF Passed
<1>7. ASSUME NEW k \in Keys, k = Head(pipe[s])
      PROVE  ~Passed(s, k) /\ Passed(s, k)'
  <2>1. k < nextKey'[s]
    BY <1>1, <1>3, <1>7 DEF PipeInv
  <2>2. ASSUME NEW i \in DOMAIN pipe'[s] PROVE k < pipe'[s][i]
    <3>1. i \in Nat /\ i + 1 \in DOMAIN pipe[s] /\ pipe'[s][i] = pipe[s][i + 1]
      BY <1>3
    <3>2. i > 0
      BY <1>1, <1>2
    <3>. QED  BY <3>1, <3>2, <1>3, <1>7 DEF PipeInv
  <2>3. ~Passed(s, k)
    BY <1>3, <1>7, KeysFacts DEF Passed
  <2>. QED  BY <2>1, <2>2, <2>3 DEF Passed
<1>. QED  BY <1>2, <1>3, <1>5, <1>6, <1>7

-----------------------------------------------------------------------------
(* One data message, under the invariant: only its own event can be         *)
(* complete, and then it is built and leaves the map.                       *)

Extended(s, k) == Append(eventMap[k], s)

DataOutcome(s, k) ==
  /\ Extended(s, k) \in Seq(Sources)
  /\ Distinct(Extended(s, k))
  /\ nDifs' \in {0, NSources}
  /\ nDifs' = 0 => nregistered = 0 /\ nDifs = 0
  /\ \A j \in Keys \ {k} : eventMap'[j] \in {<<>>, eventMap[j]}
  /\ eventMap'[k] \in {<<>>, Extended(s, k)}
  /\ nDifs' # 0 => \A j \in Keys : Len(eventMap'[j]) # NSources
  /\ \/ delivered' = delivered
     \/ /\ delivered' = [delivered EXCEPT ![k] = Append(@, Extended(s, k))]
        /\ Len(Extended(s, k)) = NSources
        /\ eventMap'[k] = <<>>

\* The messages of a connection find every source counted.
LEMMA DataIsCounted ==
  ASSUME IInv, NEW s \in Sources, ReceiveData(s)
  PROVE  /\ Head(pipe[s]) \in Keys
         /\ Counted = Sources
         /\ nregistered \in {0, NSources}
         /\ s \notin SourcesOf(eventMap[Head(pipe[s])])
<1>1. TypeOK /\ PipeInv /\ MapInv /\ RegistrationInv /\ Receive(s) /\ Head(pipe[s]) # ID
  BY DEF IInv, ReceiveData
<1>2. 1 \in DOMAIN pipe[s] /\ pipe[s][1] = Head(pipe[s])
  BY <1>1, ReceiveEffect
<1>3. Head(pipe[s]) \in Keys
  BY <1>1, <1>2, PipeElements
<1>4. Counted = Sources
  BY <1>1, <1>2 DEF RegistrationInv
<1>5. thread = "recv"
  BY <1>1 DEF Receive
<1>6. nregistered \in {0, NSources}
  BY <1>1, <1>4, <1>5 DEF RegistrationInv, Polling, NSources
<1>7. ~Passed(s, Head(pipe[s]))
  BY <1>1, <1>3, ReceiveEffect
<1>8. s \notin SourcesOf(eventMap[Head(pipe[s])])
  BY <1>1, <1>3, <1>7 DEF MapInv, SourcesOf
<1>. QED  BY <1>3, <1>4, <1>6, <1>8

\* What processData does to the map and to the deliveries.
LEMMA DataEffect ==
  ASSUME IInv, NEW s \in Sources, ReceiveData(s), NEW k \in Keys, k = Head(pipe[s])
  PROVE  DataOutcome(s, k)
<1> DEFINE n      == IF nregistered > 0 THEN nregistered ELSE nDifs
           v      == Extended(s, k)
           filled == [eventMap EXCEPT ![k] = v]
           done   == Complete(filled, n)
           kept   == Without(filled, done)
<1>1. TypeOK /\ MapInv /\ SizeInv /\ thread = "recv"
  BY DEF IInv, ReceiveData, Receive
<1>2. /\ Counted = Sources
      /\ nregistered \in {0, NSources}
      /\ s \notin SourcesOf(eventMap[k])
  BY DataIsCounted
<1>3. eventMap[k] \in Seq(Sources) /\ Distinct(eventMap[k])
  BY <1>1 DEF TypeOK, MapInv
<1>4. v \in Seq(Sources) /\ Distinct(v) /\ v # <<>> /\ Len(v) > 0
  BY <1>2, <1>3, DistinctAppend DEF Extended
<1>5. /\ nDifs' = n
      /\ ProcessEvents(done \ {0}, filled)
      /\ \/ \E last \in LastGtc(done) : eventMap' = Purged(kept, last)
         \/ eventMap' = kept
  BY DEF ReceiveData, ProcessData, Extended
<1>6. n \in {0, NSources} /\ (n = 0 => nregistered = 0 /\ nDifs = 0)
  BY <1>1, <1>2, SourcesNumber DEF SizeInv
<1>7. ASSUME NEW j \in Keys, n # 0
      PROVE  Len(eventMap[j]) # n
  <2>1. CASE nDifs # 0
    BY <1>1, <1>6, <1>7, <2>1 DEF SizeInv
  <2>2. CASE nDifs = 0
    <3>1. nregistered > 0 /\ nregistered = n
      BY <1>2, <1>7, <2>2, SourcesNumber
    <3>2. eventMap = EmptyMap
      BY <1>1, <2>2, <3>1 DEF SizeInv, Polling
    <3>. QED  BY <3>2, <1>7 DEF EmptyMap
  <2>. QED  BY <2>1, <2>2
<1>8. filled \in [Keys -> Seq(Sources)] /\ filled[k] = v
      /\ \A j \in Keys \ {k} : filled[j] = eventMap[j]
  BY <1>1, <1>4 DEF TypeOK
<1> HIDE DEF n, v, filled
<1>9. done \subseteq {k} /\ (done # {} => Len(v) = n /\ n = NSources)
                         /\ (n # 0 /\ Len(v) = n => done = {k})
  <2>1. ASSUME NEW j \in Keys, filled[j] # <<>>, Len(filled[j]) = n
        PROVE  j = k /\ n = NSources
    <3>1. Len(filled[j]) # 0
      BY <1>8, <2>1
    <3>. QED  BY <1>6, <1>7, <1>8, <2>1, <3>1
  <2>. QED  BY <2>1, <1>4, <1>8 DEF Complete, Held
<1>10. /\ \A j \in Keys : kept[j] \in {<<>>, filled[j]}
       /\ done = {k} => kept[k] = <<>>
  BY DEF Without
<1> HIDE DEF done, kept
<1>11. /\ \A j \in Keys : eventMap'[j] \in {<<>>, kept[j]}
  BY <1>5 DEF Purged, Without
<1>12. \/ delivered' = delivered
       \/ /\ delivered' = [delivered EXCEPT ![k] = Append(@, v)]
          /\ Len(v) = NSources
          /\ eventMap'[k] = <<>>
  <2>1. delivered' = [j \in Keys |-> IF j \in done \ {0} THEN Append(delivered[j], filled[j])
                                                         ELSE delivered[j]]
    BY <1>5 DEF ProcessEvents
  <2>2. CASE done \ {0} = {}
    BY <1>1, <2>1, <2>2 DEF TypeOK
  <2>3. CASE done \ {0} # {}
    <3>1. done \ {0} = {k} /\ done = {k}
      BY <1>9, <2>3
    <3>2. delivered' = [delivered EXCEPT ![k] = Append(@, v)]
      BY <1>1, <1>8, <2>1, <3>1 DEF TypeOK
    <3>. QED  BY <1>9, <1>10, <1>11, <3>1, <3>2
  <2>. QED  BY <2>2, <2>3
<1>13. ASSUME n # 0, NEW j \in Keys
       PROVE  Len(eventMap'[j]) # NSources
  <2>1. n = NSources /\ Len(eventMap[j]) # NSources
    BY <1>6, <1>7, <1>13
  <2>2. CASE eventMap'[j] = <<>>
    BY <2>2, SourcesNumber
  <2>3. CASE eventMap'[j] # <<>>
    <3>1. eventMap'[j] = filled[j] /\ kept[j] # <<>>
      BY <1>10, <1>11, <2>3
    <3>2. CASE j = k
      BY <1>8, <1>9, <1>10, <1>13, <2>1, <3>1, <3>2
    <3>3. CASE j # k
      BY <1>8, <2>1, <3>1, <3>3
    <3>. QED  BY <3>2, <3>3
  <2>. QED  BY <2>2, <2>3
<1>14. \A j \in Keys : eventMap'[j] \in {<<>>, filled[j]}
  BY <1>10, <1>11
<1>15. /\ \A j \in Keys \ {k} : eventMap'[j] \in {<<>>, eventMap[j]}
       /\ eventMap'[k] \in {<<>>, v}
  BY <1>8, <1>14
<1>. QED  BY <1>4, <1>5, <1>6, <1>12, <1>13, <1>15 DEF DataOutcome, v

-----------------------------------------------------------------------------
(* The inductive invariant, action by action.                               *)

\* IInv holds initially.
LEMMA InvInit == Nominal /\ Init => IInv
<1> SUFFICES ASSUME Nominal, Init PROVE IInv
  OBVIOUS
<1>1. TypeOK
  BY TypeInit
<1>2. ThreadInv
  BY DEF Init, ThreadInv, Polling
<1>3. \A s \in Sources : pipe[s] = <<>> /\ registrations[s] = 0
  BY DEF Init
<1>4. Counted = {} /\ Cardinality({}) = 0
  BY <1>3, FS_EmptySet DEF Counted
<1>5. \A k \in Keys : eventMap[k] = <<>> /\ delivered[k] = <<>>
  BY DEF Init, EmptyMap
<1>6. PipeInv
  BY <1>3 DEF PipeInv
<1>7. RegistrationInv
  BY <1>3, <1>4, <1>5 DEF Init, RegistrationInv, Polling
<1>8. MapInv /\ BuiltComplete
  BY <1>5 DEF MapInv, BuiltComplete, Distinct
<1>9. SizeInv
  BY DEF Init, SizeInv
<1>. QED  BY <1>1, <1>2, <1>6, <1>7, <1>8, <1>9 DEF IInv

\* Steps that leave connections, map and deliveries alone.
LEMMA DataFrame ==
  ASSUME IInv, UNCHANGED <<pipe, nextKey, eventMap, delivered>>
  PROVE  PipeInv' /\ MapInv' /\ BuiltComplete'
<1>1. PipeInv /\ MapInv /\ BuiltComplete
  BY DEF IInv
<1>2. PipeInv'
  BY <1>1 DEF PipeInv
<1>3. \A s \in Sources, k \in Keys : Passed(s, k)' <=> Passed(s, k)
  BY DEF Passed
<1>4. \A k \in Keys : Distinct(eventMap[k])' <=> Distinct(eventMap[k])
  BY DEF Distinct
<1>5. \A k \in Keys : \A i \in DOMAIN eventMap[k] : eventMap[k][i] \in Sources
  BY DEF IInv, TypeOK
<1>6. MapInv'
  BY <1>1, <1>3, <1>4, <1>5 DEF MapInv
<1>7. BuiltComplete'
  BY <1>1 DEF BuiltComplete, SourcesOf
<1>. QED  BY <1>2, <1>6, <1>7

\* Registrations change only with the connections.
LEMMA CountedFrame ==
  ASSUME UNCHANGED <<pipe, registrations>>
  PROVE  Counted' = Counted
BY DEF Counted

\* Every source has registered and has no registration on its way.
LEMMA SettledIsCounted ==
  ASSUME IInv, Settled, AllRegistered
  PROVE  Counted = Sources
BY DEF IInv, RegistrationInv, TypeOK, Settled, AllRegistered, Counted

\* The poll thread starts: it has counted nothing yet.
LEMMA InvEnablePolling == Nominal /\ IInv /\ EnablePolling => IInv'
<1> SUFFICES ASSUME Nominal, IInv, EnablePolling PROVE IInv'
  OBVIOUS
<1>1. TypeOK'
  BY TypePollThread DEF IInv, PollThread
<1>2. UNCHANGED <<bstate, runs, ctl, bound, started, nDifs, eventMap, delivered, pipe, nextKey,
                  registrations, serving>>
      /\ thread = "created" /\ thread' = "loop" /\ polling' = TRUE /\ nregistered' = 0
  BY DEF EnablePolling, control, events, header, world
<1>3. PipeInv' /\ MapInv' /\ BuiltComplete' /\ Counted' = Counted
  BY <1>2, DataFrame, CountedFrame
<1>4. ThreadInv'
  BY <1>2 DEF IInv, ThreadInv, Polling
<1>5. RegistrationInv'
  BY <1>2, <1>3, FS_EmptySet DEF IInv, RegistrationInv, Polling, AllRegistered
<1>6. SizeInv'
  BY <1>2, <1>3 DEF IInv, SizeInv
<1>. QED  BY <1>1, <1>3, <1>4, <1>5, <1>6 DEF IInv

\* The steps of the loop that read nothing.
LEMMA InvPollLoop ==
  Nominal /\ IInv /\ (PollContinue \/ PollExit \/ PollTimeout) => IInv'
<1> SUFFICES ASSUME Nominal, IInv, PollContinue \/ PollExit \/ PollTimeout PROVE IInv'
  OBVIOUS
<1>1. TypeOK'
  BY TypePollThread DEF IInv, PollThread
<1>2. UNCHANGED <<bstate, runs, ctl, bound, started, nDifs, eventMap, delivered, pipe, nextKey,
                  registrations, serving, nregistered, polling>>
      /\ Polling
      /\ (thread' \in {"loop", "recv"} \/ (thread' = "none" /\ ~polling))
  BY DEF PollContinue, PollExit, PollTimeout, control, events, header, world, Polling
<1>3. PipeInv' /\ MapInv' /\ BuiltComplete' /\ Counted' = Counted
  BY <1>2, DataFrame, CountedFrame
<1>4. ThreadInv'
  BY <1>2 DEF IInv, ThreadInv, Polling
<1>5. RegistrationInv'
  BY <1>2, <1>3 DEF IInv, RegistrationInv, Polling, AllRegistered, ThreadInv
<1>6. SizeInv'
  BY <1>2, <1>3 DEF IInv, SizeInv, Polling
<1>. QED  BY <1>1, <1>3, <1>4, <1>5, <1>6 DEF IInv

\* One more source has been counted.
LEMMA InvReceiveID ==
  ASSUME Nominal, IInv, NEW s \in Sources, ReceiveID(s)
  PROVE  IInv'
<1>1. TypeOK'
  BY TypePollThread DEF IInv, PollThread
<1>2. /\ TypeOK /\ ThreadInv /\ RegistrationInv /\ PipeInv /\ MapInv /\ SizeInv
      /\ BuiltComplete /\ Receive(s) /\ Head(pipe[s]) = ID /\ Polling
  BY DEF IInv, ReceiveID, Receive, Polling
<1>3. /\ UNCHANGED <<bstate, runs, ctl, bound, started, polling, nDifs, eventMap, delivered>>
      /\ UNCHANGED <<nextKey, registrations, serving>>
      /\ nregistered' = nregistered + 1 /\ thread' \in {"loop", "recv"}
  BY DEF ReceiveID, Receive, control, events
<1>4. /\ PipeInv'
      /\ \A t \in Sources, k \in Keys : Passed(t, k) => Passed(t, k)'
      /\ \A t \in Sources : t # s => pipe'[t] = pipe[t]
      /\ 1 \in DOMAIN pipe[s] /\ pipe[s][1] = ID
      /\ \A i \in DOMAIN pipe'[s] :
           i + 1 \in DOMAIN pipe[s] /\ pipe'[s][i] = pipe[s][i + 1]
  BY <1>2, ReceiveEffect
<1>5. registrations[s] = 1 /\ s \notin Counted
  <2>1. registrations[s] # 0
    BY <1>2, <1>4 DEF RegistrationInv
  <2>2. registrations[s] \in Nat /\ registrations[s] <= 1
    BY <1>2 DEF RegistrationInv, TypeOK
  <2>. QED  BY <1>4, <2>1, <2>2 DEF Counted
<1>6. \A i \in DOMAIN pipe'[s] : pipe'[s][i] # ID
  <2>1. SUFFICES ASSUME NEW i \in DOMAIN pipe'[s] PROVE pipe'[s][i] # ID
    OBVIOUS
  <2>2. i \in Nat /\ i > 0
    BY <1>1, PipeElements DEF TypeOK, Pipe
  <2>3. pipe[s][1] < pipe[s][i + 1]
    BY <1>2, <1>4, <2>2 DEF PipeInv
  <2>. QED  BY <1>4, <2>3 DEF ID
<1>7. Counted' = Counted \cup {s}
  BY <1>3, <1>4, <1>5, <1>6 DEF Counted
<1>8. Counted # Sources /\ IsFiniteSet(Counted)
  BY <1>5, MergerAssumption, FS_Subset DEF Counted, MergerAssumption
<1>9. nregistered' = Cardinality(Counted')
  BY <1>2, <1>3, <1>5, <1>7, <1>8, FS_AddElement DEF RegistrationInv
<1>10. /\ ~serving /\ ctl = "idle"
       /\ \A t \in Sources : \A i \in DOMAIN pipe[t] : pipe[t][i] = ID
  BY <1>2, <1>8 DEF RegistrationInv
<1>11. \A t \in Sources : \A i \in DOMAIN pipe'[t] : pipe'[t][i] = ID
  BY <1>4, <1>10
<1>12. ThreadInv'
  BY <1>2, <1>3 DEF ThreadInv, Polling
<1>13. RegistrationInv'
  <2>1. \A t \in Sources : registrations'[t] = 0 => pipe'[t] = <<>>
    BY <1>2, <1>3, <1>4, <1>5 DEF RegistrationInv
  <2>2. Polling'
    BY <1>3 DEF Polling
  <2>3. \A k \in Keys : eventMap'[k] = <<>> /\ delivered'[k] = <<>>
    BY <1>2, <1>3, <1>8 DEF RegistrationInv
  <2>4. bstate' = "RUNNING" => AllRegistered'
    BY <1>2, <1>3 DEF RegistrationInv, AllRegistered
  <2>5. \A t \in Sources : registrations'[t] <= 1
    BY <1>2, <1>3 DEF RegistrationInv
  <2>. QED  BY <1>3, <1>9, <1>10, <1>11, <2>1, <2>2, <2>3, <2>4, <2>5 DEF RegistrationInv
<1>14. SizeInv'
  <2>1. eventMap = EmptyMap
    BY <1>2, <1>8 DEF RegistrationInv, TypeOK, EmptyMap
  <2>. QED  BY <1>2, <1>3, <2>1 DEF SizeInv
<1>15. MapInv' /\ BuiltComplete'
  <2>1. \A k \in Keys : Distinct(eventMap[k])'
    BY <1>2, <1>3 DEF MapInv, Distinct
  <2>2. \A k \in Keys : \A i \in DOMAIN eventMap[k] : eventMap[k][i] \in Sources
    BY <1>2 DEF TypeOK
  <2>3. MapInv'
    BY <1>2, <1>3, <1>4, <2>1, <2>2 DEF MapInv
  <2>4. BuiltComplete'
    BY <1>2, <1>3 DEF BuiltComplete, SourcesOf
  <2>. QED  BY <2>3, <2>4
<1>. QED  BY <1>1, <1>4, <1>12, <1>13, <1>14, <1>15 DEF IInv

\* One data message, from DataEffect.
LEMMA InvReceiveData ==
  ASSUME Nominal, IInv, NEW s \in Sources, ReceiveData(s)
  PROVE  IInv'
<1>1. TypeOK'
  BY TypePollThread DEF IInv, PollThread
<1>2. /\ TypeOK /\ ThreadInv /\ RegistrationInv /\ PipeInv /\ MapInv /\ SizeInv
      /\ BuiltComplete /\ Receive(s) /\ Polling
  BY DEF IInv, ReceiveData, Receive, Polling
<1>3. /\ UNCHANGED <<bstate, runs, ctl, bound, started, polling, nregistered>>
      /\ UNCHANGED <<nextKey, registrations, serving>>
      /\ thread' \in {"loop", "recv"} /\ bound
  BY DEF ReceiveData, Receive, control
<1>4. Counted = Sources /\ Head(pipe[s]) \in Keys
  BY DataIsCounted
<1>5. PICK k \in Keys : k = Head(pipe[s])
  BY <1>4
<1>6. DataOutcome(s, k)
  BY <1>5, DataEffect
<1>7. /\ PipeInv'
      /\ \A t \in Sources, j \in Keys : Passed(t, j) => Passed(t, j)'
      /\ Passed(s, k)'
      /\ \A t \in Sources : t # s => pipe'[t] = pipe[t]
      /\ \A i \in DOMAIN pipe'[s] :
           i + 1 \in DOMAIN pipe[s] /\ pipe'[s][i] = pipe[s][i + 1]
  BY <1>2, <1>5, ReceiveEffect
<1>8. Counted' = Sources
  BY <1>3, <1>4, <1>7 DEF Counted
<1>9. ThreadInv'
  BY <1>2, <1>3 DEF ThreadInv, Polling
<1>10. RegistrationInv'
  <2>1. \A t \in Sources : registrations'[t] = 0 => pipe'[t] = <<>>
    BY <1>2, <1>3, <1>4, <1>7 DEF RegistrationInv, Counted
  <2>2. Polling'
    BY <1>3 DEF Polling
  <2>. QED  BY <1>2, <1>3, <1>4, <1>8, <2>1, <2>2 DEF RegistrationInv, AllRegistered
<1>11. SizeInv'
  <2>1. DsNumber # 0 => nDifs' = NSources
    BY <1>2, <1>3, <1>6, SourcesNumber DEF SizeInv, DataOutcome
  <2>2. runs # 0
    BY <1>2 DEF ThreadInv, Polling
  <2>. QED  BY <1>3, <1>6, <1>8, <2>1, <2>2 DEF SizeInv, DataOutcome
<1>12. \A t \in SourcesOf(Extended(s, k)) : t \in Sources /\ Passed(t, k)'
  <2>1. eventMap[k] \in Seq(Sources)
    BY <1>2 DEF TypeOK
  <2>2. ASSUME NEW t \in SourcesOf(eventMap[k]) PROVE t \in Sources /\ Passed(t, k)
    <3>1. PICK i \in DOMAIN eventMap[k] : t = eventMap[k][i]
      BY DEF SourcesOf
    <3>2. t \in Sources
      BY <2>1, <3>1
    <3>3. Passed(eventMap[k][i], k)
      BY <1>2, <3>1 DEF MapInv
    <3>. QED  BY <3>1, <3>2, <3>3
  <2>3. SourcesOf(Extended(s, k)) = SourcesOf(eventMap[k]) \cup {s}
    BY <2>1, SourcesAppend DEF Extended
  <2>. QED  BY <1>7, <2>2, <2>3
<1>13. delivered' # delivered => /\ SourcesOf(Extended(s, k)) = Sources
                                 /\ Len(Extended(s, k)) = NSources
                                 /\ \A t \in Sources : Passed(t, k)'
  <2>1. SUFFICES ASSUME delivered' # delivered
                 PROVE  /\ SourcesOf(Extended(s, k)) = Sources
                        /\ Len(Extended(s, k)) = NSources
                        /\ \A t \in Sources : Passed(t, k)'
    OBVIOUS
  <2>2. SourcesOf(Extended(s, k)) = Sources /\ Len(Extended(s, k)) = NSources
    BY <1>6, <2>1, DistinctIsFull DEF DataOutcome
  <2>. QED  BY <1>12, <2>2
<1>14. MapInv'
  <2>1. ASSUME NEW j \in Keys
        PROVE  /\ Distinct(eventMap[j])'
               /\ \A i \in DOMAIN eventMap'[j] : Passed(eventMap[j][i], j)'
    <3>1. CASE eventMap'[j] = <<>>
      BY <3>1 DEF Distinct
    <3>2. CASE eventMap'[j] = eventMap[j]
      <4>1. \A i \in DOMAIN eventMap[j] : \A t \in Sources : t = eventMap[j][i] => Passed(t, j)'
        BY <1>2, <1>7 DEF MapInv
      <4>2. \A i \in DOMAIN eventMap'[j] : eventMap'[j][i] \in Sources
        BY <1>1 DEF TypeOK
      <4>3. \A i \in DOMAIN eventMap'[j] : Passed(eventMap[j][i], j)'
        BY <3>2, <4>1, <4>2
      <4>4. Distinct(eventMap[j])'
        BY <1>2, <3>2 DEF MapInv, Distinct
      <4>. QED  BY <4>3, <4>4
    <3>3. CASE j = k /\ eventMap'[j] = Extended(s, k)
      <4>1. \A i \in DOMAIN eventMap'[j] : eventMap'[j][i] \in SourcesOf(Extended(s, k))
        BY <3>3 DEF SourcesOf
      <4>2. \A i \in DOMAIN eventMap'[j] : Passed(eventMap[j][i], j)'
        BY <1>12, <3>3, <4>1
      <4>3. Distinct(eventMap[j])'
        BY <1>6, <3>3 DEF DataOutcome, Distinct
      <4>. QED  BY <4>2, <4>3
    <3>. QED  BY <1>6, <3>1, <3>2, <3>3 DEF DataOutcome
  <2>2. ASSUME NEW j \in Keys, delivered'[j] # <<>>
        PROVE  \A t \in Sources : Passed(t, j)'
    <3>1. CASE delivered'[j] = delivered[j]
      BY <1>2, <1>7, <2>2, <3>1 DEF MapInv
    <3>2. CASE delivered'[j] # delivered[j]
      <4>1. j = k
        BY <1>2, <1>6, <3>2 DEF DataOutcome, TypeOK
      <4>. QED  BY <1>13, <3>2, <4>1
    <3>. QED  BY <3>1, <3>2
  <2>. QED  BY <2>1, <2>2 DEF MapInv
<1>15. BuiltComplete'
  <2>1. ASSUME NEW j \in Keys, NEW i \in DOMAIN delivered'[j]
        PROVE  Len(delivered'[j][i]) = NSources /\ SourcesOf(delivered'[j][i]) = Sources
    <3>1. delivered \in [Keys -> Seq(Seq(Sources))]
      BY <1>2 DEF TypeOK
    <3>2. \/ i \in DOMAIN delivered[j] /\ delivered'[j][i] = delivered[j][i]
          \/ delivered' # delivered /\ delivered'[j][i] = Extended(s, k)
      <4>1. CASE delivered'[j] = delivered[j]
        BY <2>1, <4>1
      <4>2. CASE delivered'[j] # delivered[j]
        <5>1. j = k /\ delivered'[j] = Append(delivered[j], Extended(s, k))
              /\ delivered[j] \in Seq(Seq(Sources))
          BY <1>6, <3>1, <4>2 DEF DataOutcome
        <5>2. Extended(s, k) \in Seq(Sources)
          BY <1>6 DEF DataOutcome
        <5>. QED  BY <2>1, <4>2, <5>1, <5>2
      <4>. QED  BY <4>1, <4>2
    <3>. QED  BY <1>2, <1>13, <3>2 DEF BuiltComplete
  <2>. QED  BY <2>1 DEF BuiltComplete, SourcesOf
<1>. QED  BY <1>1, <1>7, <1>9, <1>10, <1>11, <1>14, <1>15 DEF IInv

\* CONFIGURE may preset the number of sources, while the map is empty.
LEMMA InvConfigure ==
  ASSUME Nominal, IInv, NEW complete \in BOOLEAN, Configure(complete)
  PROVE  IInv'
<1>1. TypeOK'
  BY TypeWebThread DEF IInv, WebThread
<1>2. /\ UNCHANGED <<ctl, runs, started, eventMap, delivered, thread, polling, nregistered>>
      /\ UNCHANGED <<pipe, nextKey, registrations, serving>>
      /\ ctl = "idle" /\ bstate # "RUNNING" /\ bstate' # "RUNNING"
      /\ bound \in BOOLEAN /\ (bound => complete) /\ bound' = (bound \/ complete)
      /\ nDifs' = IF complete /\ DsNumber > 0 THEN DsNumber ELSE nDifs
  BY DEF Configure, poller, world, IInv, TypeOK
<1>3. /\ ThreadInv /\ RegistrationInv /\ SizeInv
      /\ PipeInv' /\ MapInv' /\ BuiltComplete' /\ Counted' = Counted
  BY <1>2, DataFrame, CountedFrame DEF IInv
<1>4. ThreadInv'
  BY <1>2, <1>3 DEF ThreadInv, Polling
<1>5. RegistrationInv'
  BY <1>2, <1>3 DEF RegistrationInv, Polling, ThreadInv
<1>6. SizeInv'
  <2>1. nDifs' = IF complete /\ DsNumber # 0 THEN NSources ELSE nDifs
    BY <1>2, SourcesNumber DEF Nominal
  <2>2. CASE bound
    BY <1>2, <1>3, <2>1, <2>2 DEF SizeInv, Polling
  <2>3. CASE ~bound
    <3>1. eventMap = EmptyMap
      BY <1>3, <2>3 DEF SizeInv
    <3>2. \A k \in Keys : Len(eventMap'[k]) # NSources
      BY <1>2, <3>1, SourcesNumber DEF EmptyMap
    <3>. QED  BY <1>2, <1>3, <2>1, <2>3, <3>1, <3>2 DEF SizeInv
  <2>. QED  BY <2>2, <2>3
<1>. QED  BY <1>1, <1>3, <1>4, <1>5, <1>6 DEF IInv

\* START and HALT empty the map and leave connections and deliveries alone.
LEMMA EmptyFrame ==
  ASSUME IInv, eventMap' = EmptyMap, UNCHANGED <<pipe, nextKey, delivered, nDifs, bound>>
  PROVE  PipeInv' /\ MapInv' /\ BuiltComplete' /\ SizeInv'
<1>1. PipeInv /\ MapInv /\ BuiltComplete /\ SizeInv
  BY DEF IInv
<1>2. PipeInv'
  BY <1>1 DEF PipeInv
<1>3. \A s \in Sources, k \in Keys : Passed(s, k)' <=> Passed(s, k)
  BY DEF Passed
<1>4. \A k \in Keys : eventMap'[k] = <<>>
  BY DEF EmptyMap
<1>5. MapInv'
  BY <1>1, <1>3, <1>4 DEF MapInv, Distinct
<1>6. BuiltComplete'
  BY <1>1 DEF BuiltComplete, SourcesOf
<1>7. SizeInv'
  BY <1>1, <1>4, SourcesNumber DEF SizeInv, EmptyMap
<1>. QED  BY <1>2, <1>5, <1>6, <1>7

\* START empties the map before it creates the thread.
LEMMA InvStart == Nominal /\ IInv /\ Start => IInv'
<1> SUFFICES ASSUME Nominal, IInv, Start PROVE IInv'
  OBVIOUS
<1>1. TypeOK'
  BY TypeWebThread DEF IInv, WebThread
<1>2. /\ UNCHANGED <<ctl, bound, polling, nregistered, nDifs, delivered>>
      /\ UNCHANGED <<pipe, nextKey, registrations, serving>>
      /\ ctl = "idle" /\ bstate = "CONFIGURED" /\ AllRegistered /\ ~serving
      /\ bstate' = "RUNNING" /\ eventMap' = EmptyMap /\ started' = TRUE /\ thread' = "created"
      /\ runs' # 0
  BY DEF Start, header, world, Nominal, IInv, TypeOK
<1>3. /\ PipeInv' /\ MapInv' /\ BuiltComplete' /\ SizeInv' /\ Counted' = Counted
      /\ ThreadInv /\ RegistrationInv
  BY <1>2, EmptyFrame, CountedFrame DEF IInv
<1>4. ThreadInv'
  BY <1>2 DEF ThreadInv, Polling
<1>5. \A k \in Keys : eventMap'[k] = <<>>
  BY <1>2 DEF EmptyMap
<1>6. RegistrationInv'
  BY <1>2, <1>3, <1>5 DEF RegistrationInv, Polling, ThreadInv, AllRegistered
<1>. QED  BY <1>1, <1>3, <1>4, <1>6 DEF IInv

\* STOP and HALT come when every registration has been read.
LEMMA InvStopBegin ==
  ASSUME Nominal, IInv, NEW handler \in {"stop", "halt"}, StopBegin(handler)
  PROVE  IInv'
<1>1. TypeOK'
  BY TypeWebThread DEF IInv, WebThread
<1>2. /\ UNCHANGED <<bstate, runs, bound, started, thread, nregistered, nDifs, eventMap, delivered>>
      /\ UNCHANGED <<pipe, nextKey, registrations, serving>>
      /\ bstate = "RUNNING" /\ Settled /\ ctl' = handler /\ ctl' # "idle" /\ polling' = FALSE
  BY DEF StopBegin, events, world, Nominal
<1>3. /\ PipeInv' /\ MapInv' /\ BuiltComplete' /\ Counted' = Counted
      /\ ThreadInv /\ RegistrationInv /\ SizeInv
  BY <1>2, DataFrame, CountedFrame DEF IInv
<1>4. Counted = Sources
  BY <1>2, <1>3, SettledIsCounted DEF RegistrationInv
<1>5. ThreadInv'
  BY <1>2, <1>3 DEF ThreadInv, Polling, Settled
<1>6. RegistrationInv'
  BY <1>2, <1>3, <1>4 DEF RegistrationInv, Polling, AllRegistered
<1>7. SizeInv'
  BY <1>2, <1>3 DEF SizeInv, Polling
<1>. QED  BY <1>1, <1>3, <1>5, <1>6, <1>7 DEF IInv

\* join_all has returned in STOP.
LEMMA InvStopEnd == Nominal /\ IInv /\ StopEnd => IInv'
<1> SUFFICES ASSUME Nominal, IInv, StopEnd PROVE IInv'
  OBVIOUS
<1>1. TypeOK'
  BY TypeWebThread DEF IInv, WebThread
<1>2. /\ UNCHANGED <<bound, runs, thread, polling, nregistered, nDifs, eventMap, delivered>>
      /\ UNCHANGED <<pipe, nextKey, registrations, serving>>
      /\ ctl = "stop" /\ thread = "none" /\ ctl' = "idle" /\ bstate' = "CONFIGURED"
  BY DEF StopEnd, poller, events, world
<1>3. /\ PipeInv' /\ MapInv' /\ BuiltComplete' /\ Counted' = Counted
      /\ RegistrationInv /\ SizeInv
  BY <1>2, DataFrame, CountedFrame DEF IInv
<1>4. ThreadInv'
  BY <1>2 DEF ThreadInv, Polling
<1>5. RegistrationInv'
  BY <1>2, <1>3 DEF RegistrationInv, Polling
<1>6. SizeInv'
  BY <1>2, <1>3 DEF SizeInv, Polling
<1>. QED  BY <1>1, <1>3, <1>4, <1>5, <1>6 DEF IInv

\* HALT, running or not.
LEMMA InvHalt == Nominal /\ IInv /\ Halt => IInv'
<1> SUFFICES ASSUME Nominal, IInv, Halt PROVE IInv'
  OBVIOUS
<1>1. TypeOK'
  BY TypeWebThread DEF IInv, WebThread
<1>2. /\ UNCHANGED <<bound, runs, thread, polling, nregistered, nDifs, delivered>>
      /\ UNCHANGED <<pipe, nextKey, registrations, serving>>
      /\ thread = "none" /\ ctl' = "idle" /\ bstate' = "CREATED" /\ eventMap' = EmptyMap
  BY DEF Halt, poller, header, world, IInv, ThreadInv
<1>3. /\ PipeInv' /\ MapInv' /\ BuiltComplete' /\ SizeInv' /\ Counted' = Counted
      /\ RegistrationInv
  BY <1>2, EmptyFrame, CountedFrame DEF IInv
<1>4. ThreadInv'
  BY <1>2 DEF ThreadInv, Polling
<1>5. \A k \in Keys : eventMap'[k] = <<>>
  BY <1>2 DEF EmptyMap
<1>6. RegistrationInv'
  BY <1>2, <1>3, <1>5 DEF RegistrationInv, Polling
<1>. QED  BY <1>1, <1>3, <1>4, <1>6 DEF IInv

\* PURGE and SETHEADER touch nothing the invariant is about.
LEMMA InvCommand ==
  Nominal /\ IInv /\ (\/ \E active \in BOOLEAN : SetPurge(active)
                      \/ \E k \in Keys \cup {-1} : SetHeader(k)) => IInv'
<1> SUFFICES ASSUME Nominal, IInv, \/ \E active \in BOOLEAN : SetPurge(active)
                                   \/ \E k \in Keys \cup {-1} : SetHeader(k)
             PROVE  IInv'
  OBVIOUS
<1>1. TypeOK'
  BY TypeWebThread DEF IInv, WebThread
<1>2. /\ UNCHANGED <<bstate, runs, ctl, bound, started, thread, polling, nregistered>>
      /\ UNCHANGED <<nDifs, eventMap, delivered, pipe, nextKey, registrations, serving>>
  BY DEF SetPurge, SetHeader, control, poller, events, world
<1>3. /\ PipeInv' /\ MapInv' /\ BuiltComplete' /\ Counted' = Counted
      /\ ThreadInv /\ RegistrationInv /\ SizeInv
  BY <1>2, DataFrame, CountedFrame DEF IInv
<1>4. ThreadInv'
  BY <1>2, <1>3 DEF ThreadInv, Polling
<1>5. RegistrationInv'
  BY <1>2, <1>3 DEF RegistrationInv, Polling, AllRegistered
<1>6. SizeInv'
  BY <1>2, <1>3 DEF SizeInv, Polling
<1>. QED  BY <1>1, <1>3, <1>4, <1>5, <1>6 DEF IInv

\* REGISTERDS with the right number, before the first run.
LEMMA InvRegisterDS ==
  ASSUME Nominal, IInv, NEW n \in RegisterDs, RegisterDS(n)
  PROVE  IInv'
<1>1. TypeOK'
  BY TypeWebThread DEF IInv, WebThread
<1>2. /\ UNCHANGED <<bstate, runs, ctl, bound, started, thread, polling, nregistered>>
      /\ UNCHANGED <<eventMap, delivered, pipe, nextKey, registrations, serving>>
      /\ runs = 0 /\ nDifs' = NSources
  BY DEF RegisterDS, Nominal, control, poller, world
<1>3. /\ PipeInv' /\ MapInv' /\ BuiltComplete' /\ Counted' = Counted
      /\ ThreadInv /\ RegistrationInv /\ SizeInv
  BY <1>2, DataFrame, CountedFrame DEF IInv
<1>4. ThreadInv'
  BY <1>2, <1>3 DEF ThreadInv, Polling
<1>5. RegistrationInv'
  BY <1>2, <1>3 DEF RegistrationInv, Polling, AllRegistered
<1>6. SizeInv'
  <2>1. eventMap = EmptyMap
    BY <1>2, <1>3 DEF SizeInv
  <2>2. \A k \in Keys : Len(eventMap'[k]) # NSources
    BY <1>2, <2>1, SourcesNumber DEF EmptyMap
  <2>. QED  BY <1>2, <2>1, <2>2, SourcesNumber DEF SizeInv
<1>. QED  BY <1>1, <1>3, <1>4, <1>5, <1>6 DEF IInv

\* START and STOP of the data source servers.
LEMMA InvServers == Nominal /\ IInv /\ (StartServers \/ StopServers) => IInv'
<1> SUFFICES ASSUME Nominal, IInv, StartServers \/ StopServers PROVE IInv'
  OBVIOUS
<1>1. TypeOK'
  BY TypeDataSources DEF IInv, DataSources
<1>2. /\ UNCHANGED <<bstate, runs, ctl, bound, started, thread, polling, nregistered>>
      /\ UNCHANGED <<nDifs, eventMap, delivered, pipe, nextKey, registrations>>
  BY DEF StartServers, StopServers, control, poller, events
<1>3. /\ PipeInv' /\ MapInv' /\ BuiltComplete' /\ Counted' = Counted
      /\ ThreadInv /\ RegistrationInv /\ SizeInv
  BY <1>2, DataFrame, CountedFrame DEF IInv
<1>4. serving' => Counted = Sources
  BY SettledIsCounted DEF StartServers, StopServers, Nominal
<1>5. ThreadInv'
  BY <1>2, <1>3 DEF ThreadInv, Polling
<1>6. RegistrationInv'
  BY <1>2, <1>3, <1>4 DEF RegistrationInv, Polling, AllRegistered
<1>7. SizeInv'
  BY <1>2, <1>3 DEF SizeInv, Polling
<1>. QED  BY <1>1, <1>3, <1>5, <1>6, <1>7 DEF IInv

\* A source registers before any event exists: no Passed of it is lost.
LEMMA InvRegister ==
  ASSUME Nominal, IInv, NEW s \in Sources, Register(s)
  PROVE  IInv'
<1>1. TypeOK'
  BY TypeDataSources DEF IInv, DataSources
<1>2. /\ UNCHANGED <<bstate, runs, ctl, bound, started, thread, polling, nregistered>>
      /\ UNCHANGED <<nDifs, eventMap, delivered, nextKey, serving>>
      /\ bstate # "RUNNING" /\ ~serving /\ registrations[s] < 1
      /\ registrations' = [registrations EXCEPT ![s] = @ + 1]
      /\ pipe' = [pipe EXCEPT ![s] = Append(@, ID)]
  BY DEF Register, control, poller, events, Nominal
<1>3. TypeOK /\ ThreadInv /\ RegistrationInv /\ PipeInv /\ SizeInv
  BY DEF IInv
<1>4. registrations[s] = 0 /\ pipe[s] = <<>>
  BY <1>2, <1>3 DEF TypeOK, RegistrationInv
<1>5. /\ \A t \in Sources : t # s => pipe'[t] = pipe[t] /\ registrations'[t] = registrations[t]
      /\ pipe'[s] = <<ID>> /\ registrations'[s] = 1
  BY <1>2, <1>3, <1>4 DEF TypeOK
<1>6. Counted' = Counted /\ s \notin Counted
  <2>1. s \notin Counted /\ s \notin Counted'
    BY <1>4, <1>5 DEF Counted
  <2>2. \A t \in Sources : t # s => (t \in Counted <=> t \in Counted')
    BY <1>5 DEF Counted
  <2>3. Counted \subseteq Sources /\ Counted' \subseteq Sources
    BY DEF Counted
  <2>. QED  BY <2>1, <2>2, <2>3
<1>7. \A k \in Keys : eventMap'[k] = <<>> /\ delivered'[k] = <<>>
  BY <1>2, <1>3, <1>6 DEF RegistrationInv
<1>8. MapInv' /\ BuiltComplete'
  BY <1>7 DEF MapInv, BuiltComplete, Distinct
<1>9. PipeInv'
  <2>1. nextKey[s] \in Nat
    BY <1>3, PipeElements
  <2>2. \A i, j \in DOMAIN pipe'[s] : i = 1 /\ j = 1 /\ pipe'[s][i] = ID
    BY <1>5
  <2>3. \A i \in DOMAIN pipe'[s] : pipe'[s][i] < nextKey'[s]
    BY <1>2, <2>1, <2>2 DEF ID
  <2>. QED  BY <1>2, <1>3, <1>5, <2>2, <2>3 DEF PipeInv
<1>10. ThreadInv'
  BY <1>2, <1>3 DEF ThreadInv, Polling
<1>11. RegistrationInv'
  <2>1. \A t \in Sources : /\ registrations'[t] = 0 => pipe'[t] = <<>>
                           /\ registrations'[t] <= 1
                           /\ \A i \in DOMAIN pipe'[t] : pipe'[t][i] = ID
    BY <1>3, <1>5, <1>6 DEF RegistrationInv
  <2>2. ~Polling' /\ ctl' = "idle"
    BY <1>2, <1>3 DEF ThreadInv, Polling
  <2>. QED  BY <1>2, <1>3, <1>6, <1>7, <2>1, <2>2 DEF RegistrationInv, ThreadInv, Polling
<1>12. SizeInv'
  BY <1>2, <1>3 DEF SizeInv, Polling
<1>. QED  BY <1>1, <1>8, <1>9, <1>10, <1>11, <1>12 DEF IInv

\* The next trigger is younger than everything its source has sent.
LEMMA InvTrigger ==
  ASSUME Nominal, IInv, NEW s \in Sources, Publish(s) \/ Miss(s)
  PROVE  IInv'
<1>1. TypeOK'
  BY TypeDataSources DEF IInv, DataSources
<1>2. /\ UNCHANGED <<bstate, runs, ctl, bound, started, thread, polling, nregistered>>
      /\ UNCHANGED <<nDifs, eventMap, delivered, registrations, serving>>
      /\ nextKey' = [nextKey EXCEPT ![s] = @ + 1]
      /\ \/ pipe' = pipe
         \/ pipe' = [pipe EXCEPT ![s] = Append(@, nextKey[s])] /\ serving
      /\ nextKey[s] <= MaxKey
  BY DEF Publish, Miss, control, poller, events
<1>3. TypeOK /\ ThreadInv /\ RegistrationInv /\ PipeInv /\ MapInv /\ SizeInv /\ BuiltComplete
  BY DEF IInv
<1>4. /\ pipe[s] \in Seq(Keys \cup {ID})
      /\ nextKey[s] \in Nat /\ nextKey[s] \in Keys
      /\ \A i \in DOMAIN pipe[s] : pipe[s][i] \in Int
  BY <1>2, <1>3, PipeElements DEF Keys
<1>5. /\ \A t \in Sources : t # s => pipe'[t] = pipe[t] /\ nextKey'[t] = nextKey[t]
      /\ nextKey'[s] = nextKey[s] + 1
      /\ pipe'[s] = pipe[s] \/ (pipe'[s] = Append(pipe[s], nextKey[s]) /\ serving)
  BY <1>2, <1>3 DEF TypeOK
<1>6. \A i \in DOMAIN pipe'[s] :
        \/ i \in DOMAIN pipe[s] /\ pipe'[s][i] = pipe[s][i]
        \/ i = Len(pipe[s]) + 1 /\ pipe'[s][i] = nextKey[s] /\ serving
  <2>1. CASE pipe'[s] = pipe[s]
    BY <2>1
  <2>2. CASE pipe'[s] = Append(pipe[s], nextKey[s]) /\ serving
    BY <1>4, <2>2, AppendElements
  <2>. QED  BY <1>5, <2>1, <2>2
<1>7. \A i \in DOMAIN pipe[s] : i \in 1..Len(pipe[s]) /\ Len(pipe[s]) \in Nat
  BY <1>4
<1>8. DOMAIN pipe[s] \subseteq DOMAIN pipe'[s] /\ \A i \in DOMAIN pipe[s] : pipe'[s][i] = pipe[s][i]
  <2>1. CASE pipe'[s] = pipe[s]
    BY <2>1
  <2>2. CASE pipe'[s] = Append(pipe[s], nextKey[s])
    BY <1>4, <2>2, AppendElements
  <2>. QED  BY <1>5, <2>1, <2>2
<1>9. PipeInv'
  <2>1. ASSUME NEW i \in DOMAIN pipe'[s]
        PROVE  /\ pipe'[s][i] < nextKey'[s]
               /\ \A j \in DOMAIN pipe'[s] : i < j => pipe'[s][i] < pipe'[s][j]
    BY <1>3, <1>4, <1>5, <1>6, <1>7 DEF PipeInv
  <2>. QED  BY <1>3, <1>5, <2>1 DEF PipeInv
<1>10. \A t \in Sources, k \in Keys : Passed(t, k) => Passed(t, k)'
  <2>1. ASSUME NEW k \in Keys, Passed(s, k) PROVE Passed(s, k)'
    BY <1>4, <1>5, <1>6, <2>1, KeysFacts DEF Passed
  <2>2. ASSUME NEW t \in Sources, NEW k \in Keys, t # s, Passed(t, k) PROVE Passed(t, k)'
    BY <1>5, <2>2 DEF Passed
  <2>. QED  BY <2>1, <2>2
<1>11. MapInv' /\ BuiltComplete'
  <2>1. \A k \in Keys : Distinct(eventMap[k])'
    BY <1>2, <1>3 DEF MapInv, Distinct
  <2>2. \A k \in Keys : \A i \in DOMAIN eventMap[k] : eventMap[k][i] \in Sources
    BY <1>3 DEF TypeOK
  <2>3. MapInv'
    BY <1>2, <1>3, <1>10, <2>1, <2>2 DEF MapInv
  <2>4. BuiltComplete'
    BY <1>2, <1>3 DEF BuiltComplete, SourcesOf
  <2>. QED  BY <2>3, <2>4
<1>12. Counted' = Counted
  <2>1. (\A i \in DOMAIN pipe'[s] : pipe'[s][i] # ID) <=> (\A i \in DOMAIN pipe[s] : pipe[s][i] # ID)
    BY <1>4, <1>6, <1>8, KeysFacts
  <2>. QED  BY <1>2, <1>5, <2>1 DEF Counted
<1>13. ThreadInv'
  BY <1>2, <1>3 DEF ThreadInv, Polling
<1>14. RegistrationInv'
  <2>1. \A t \in Sources : registrations'[t] = 0 => pipe'[t] = <<>>
    BY <1>2, <1>3, <1>5 DEF RegistrationInv, Counted
  <2>2. \A t \in Sources : \A i \in DOMAIN pipe'[t] : pipe'[t][i] # ID => Counted = Sources
    BY <1>3, <1>5, <1>6 DEF RegistrationInv
  <2>. QED  BY <1>2, <1>3, <1>12, <2>1, <2>2 DEF RegistrationInv, Polling, AllRegistered
<1>15. SizeInv'
  BY <1>2, <1>3 DEF SizeInv, Polling
<1>. QED  BY <1>1, <1>9, <1>11, <1>13, <1>14, <1>15 DEF IInv

\* Every step keeps the inductive invariant.
LEMMA InvNext == Nominal /\ IInv /\ [Next]_vars => IInv'
<1> SUFFICES ASSUME Nominal, IInv, [Next]_vars PROVE IInv'
  OBVIOUS
<1>1. CASE PollThread
  BY <1>1, InvEnablePolling, InvPollLoop, InvReceiveID, InvReceiveData DEF PollThread
<1>2. CASE WebThread
  BY <1>2, InvConfigure, InvStart, InvStopBegin, InvStopEnd, InvHalt, InvCommand,
         InvRegisterDS DEF WebThread
<1>3. CASE DataSources
  BY <1>3, InvServers, InvRegister, InvTrigger DEF DataSources
<1>4. CASE UNCHANGED vars
  <2>1. /\ UNCHANGED <<bstate, runs, ctl, bound, started, thread, polling, nregistered>>
        /\ UNCHANGED <<nDifs, eventMap, delivered, pipe, nextKey, registrations, serving>>
        /\ TypeOK'
    BY <1>4 DEF vars, control, poller, events, header, world, IInv, TypeOK
  <2>2. /\ PipeInv' /\ MapInv' /\ BuiltComplete' /\ Counted' = Counted
        /\ ThreadInv /\ RegistrationInv /\ SizeInv
    BY <2>1, DataFrame, CountedFrame DEF IInv
  <2>3. ThreadInv' /\ SizeInv'
    BY <2>1, <2>2 DEF ThreadInv, SizeInv, Polling
  <2>4. RegistrationInv'
    BY <2>1, <2>2 DEF RegistrationInv, Polling, AllRegistered
  <2>. QED  BY <2>1, <2>2, <2>3, <2>4 DEF IInv
<1>. QED  BY <1>1, <1>2, <1>3, <1>4 DEF Next

\* The inductive invariant holds for every number of sources, triggers and
\* runs, when commands come in the order of exRunControl and every source
\* registers once.
THEOREM Invariant == ASSUME Nominal PROVE Spec => []IInv
<1>1. Init => IInv
  BY InvInit
<1>2. IInv /\ [Next]_vars => IInv'
  BY InvNext
<1>. QED  BY <1>1, <1>2, PTL DEF Spec

\* processEvent only ever gets one buffer of every source.
THEOREM BuiltCompleteHolds == ASSUME Nominal PROVE Spec => []BuiltComplete
<1>1. IInv => BuiltComplete
  BY DEF IInv
<1>. QED  BY <1>1, Invariant, PTL

\* The number of fragments is known from the first fragment of the first run on.
LEMMA FirstRunNext ==
  ASSUME Nominal, IInv, IInv', FirstRunInv, [Next]_vars
  PROVE  FirstRunInv'
<1>1. /\ TypeOK /\ ThreadInv /\ RegistrationInv /\ SizeInv
      /\ TypeOK' /\ ThreadInv' /\ RegistrationInv' /\ SizeInv'
  BY DEF IInv
<1>2. runs \in Nat /\ NSources > 0 /\ Sources # {} /\ Cardinality({}) = 0
  BY <1>1, SourcesNumber, MergerAssumption, FS_EmptySet DEF TypeOK, MergerAssumption
<1>3. CASE PollThread
  <2>1. runs # 0 /\ UNCHANGED runs /\ thread' # "created"
    BY <1>1, <1>3 DEF ThreadInv, PollThread, EnablePolling, PollContinue, PollExit,
       PollTimeout, ReceiveID, ReceiveData, Receive, control
  <2>2. CASE EnablePolling \/ PollContinue \/ PollExit \/ PollTimeout
    <3>1. UNCHANGED <<pipe, registrations, nDifs, eventMap>>
      BY <2>2 DEF EnablePolling, PollContinue, PollExit, PollTimeout, events, world
    <3>2. Counted' = Counted
      BY <3>1, CountedFrame
    <3>3. \/ thread = "created" /\ nregistered' = 0
          \/ Polling /\ UNCHANGED nregistered
      BY <2>2 DEF EnablePolling, PollContinue, PollExit, PollTimeout, Polling
    <3>. QED  BY <1>2, <2>1, <3>1, <3>2, <3>3 DEF FirstRunInv
  <2>3. ASSUME NEW s \in Sources, ReceiveID(s)
        PROVE  FirstRunInv'
    <3>1. nregistered' # 0 /\ UNCHANGED <<nDifs, eventMap>>
      BY <1>1, <2>3 DEF ReceiveID, events, TypeOK
    <3>. QED  BY <1>1, <2>1, <3>1 DEF FirstRunInv, RegistrationInv
  <2>4. ASSUME NEW s \in Sources, ReceiveData(s)
        PROVE  FirstRunInv'
    <3>1. Counted = Sources /\ Polling /\ UNCHANGED nregistered
      BY <2>4, DataIsCounted DEF ReceiveData, Receive, Polling
    <3>2. PICK k \in Keys : k = Head(pipe[s])
      BY <2>4, DataIsCounted
    <3>3. nDifs' = 0 => nregistered = 0
      BY <2>4, <3>2, DataEffect DEF DataOutcome
    <3>4. runs <= 1 => nregistered = NSources
      BY <3>1 DEF FirstRunInv, NSources
    <3>. QED  BY <1>1, <1>2, <2>1, <3>1, <3>3, <3>4 DEF FirstRunInv, RegistrationInv
  <2>. QED  BY <1>3, <2>2, <2>3, <2>4 DEF PollThread
<1>4. CASE WebThread
  <2>1. UNCHANGED <<pipe, registrations, nregistered>>
    BY <1>4 DEF WebThread, Configure, Start, StopBegin, StopEnd, Halt, RegisterDS,
       SetPurge, SetHeader, poller, world
  <2>2. Counted' = Counted
    BY <2>1, CountedFrame
  <2>3. CASE Start
    BY <1>2, <2>2, <2>3 DEF Start, FirstRunInv, Polling
  <2>4. CASE ~Start
    <3>1. UNCHANGED <<runs, thread>>
      BY <1>4, <2>4 DEF WebThread, Configure, StopBegin, StopEnd, Halt, RegisterDS,
         SetPurge, SetHeader, poller, control
    <3>2. eventMap' \in {eventMap, EmptyMap}
      BY <1>4, <2>4 DEF WebThread, Configure, StopBegin, StopEnd, Halt, RegisterDS,
         SetPurge, SetHeader, events
    <3>3. nDifs' \in {nDifs, NSources}
      BY <1>4, <2>4 DEF WebThread, Configure, StopBegin, StopEnd, Halt, RegisterDS,
         SetPurge, SetHeader, events, Nominal
    <3>. QED  BY <1>2, <2>1, <2>2, <3>1, <3>2, <3>3 DEF FirstRunInv, Polling
  <2>. QED  BY <2>3, <2>4
<1>5. CASE DataSources
  <2>1. UNCHANGED <<runs, thread, nregistered, nDifs, eventMap>>
    BY <1>5 DEF DataSources, StartServers, StopServers, Register, Publish, Miss,
       control, poller, events
  <2>2. CASE UNCHANGED <<pipe, registrations>>
    BY <2>1, <2>2, CountedFrame DEF FirstRunInv, Polling
  <2>3. ASSUME NEW s \in Sources, Register(s)
        PROVE  FirstRunInv'
    <3>1. thread = "none"
      BY <1>1, <2>3 DEF Register, Nominal, ThreadInv
    <3>2. Counted' \subseteq Counted
      <4>1. \A t \in Sources : t # s => pipe'[t] = pipe[t] /\ registrations'[t] = registrations[t]
        BY <1>1, <2>3 DEF Register, TypeOK
      <4>2. s \notin Counted'
        <5>1. pipe[s] \in Seq(Keys \cup {ID}) /\ pipe'[s] = Append(pipe[s], ID)
          BY <1>1, <2>3 DEF Register, TypeOK, Pipe
        <5>2. Len(pipe[s]) + 1 \in DOMAIN pipe'[s] /\ pipe'[s][Len(pipe[s]) + 1] = ID
          BY <5>1
        <5>. QED  BY <5>2 DEF Counted
      <4>. QED  BY <4>1, <4>2 DEF Counted
    <3>. QED  BY <2>1, <3>1, <3>2 DEF FirstRunInv, Polling
  <2>4. CASE serving /\ serving'
    <3>1. Counted = Sources /\ Counted' = Sources
      BY <1>1, <2>4 DEF RegistrationInv
    <3>. QED  BY <1>2, <2>1, <3>1 DEF FirstRunInv, Polling
  <2>5. \/ UNCHANGED <<pipe, registrations>>
        \/ \E s \in Sources : Register(s)
        \/ serving /\ serving'
    BY <1>5 DEF DataSources, StartServers, StopServers, Publish, Miss
  <2>. QED  BY <2>2, <2>3, <2>4, <2>5
<1>6. CASE UNCHANGED vars
  <2>1. UNCHANGED <<runs, thread, nregistered, nDifs, eventMap, pipe, registrations>>
    BY <1>6 DEF vars, control, poller, events, world
  <2>. QED  BY <2>1, CountedFrame DEF FirstRunInv, Polling
<1>. QED  BY <1>3, <1>4, <1>5, <1>6 DEF Next

\* The first run does not depend on what an earlier one has counted.
LEMMA FirstRunHolds == ASSUME Nominal PROVE Spec => []FirstRunInv
<1>1. Init => FirstRunInv
  <2> SUFFICES ASSUME Init PROVE FirstRunInv
    OBVIOUS
  <2>1. Counted = {}
    BY DEF Init, Counted
  <2>. QED  BY <2>1 DEF Init, FirstRunInv, Polling
<1>2. IInv /\ IInv' /\ FirstRunInv /\ [Next]_vars => FirstRunInv'
  BY FirstRunNext
<1>. QED  BY <1>1, <1>2, Invariant, PTL DEF Spec

\* An event of all the sources does not wait in the map.
LEMMA FullIsBuilt ==
  ASSUME IInv, nDifs # 0
  PROVE  CompleteNotHeld
<1>1. SUFFICES ASSUME NEW k \in Keys, SourcesOf(eventMap[k]) = Sources PROVE FALSE
  BY DEF CompleteNotHeld
<1>2. TypeOK /\ MapInv /\ SizeInv
  BY DEF IInv
<1>3. eventMap[k] \in Seq(Sources) /\ Distinct(eventMap[k])
  BY <1>2 DEF TypeOK, MapInv
<1>4. Len(eventMap[k]) = NSources
  BY <1>1, <1>3, FullIsDistinct, SourcesNumber
<1>. QED  BY <1>2, <1>4 DEF SizeInv

\* No complete event waits in the map, with or without a preset number of
\* sources, in the first run and after any run that has had a fragment.
THEOREM BuiltWhenCompleteHolds ==
  ASSUME Nominal
  PROVE  Spec => []BuiltWhenComplete
<1>1. ASSUME IInv, FirstRunInv PROVE BuiltWhenComplete
  <2>1. CASE nDifs # 0
    BY <1>1, <2>1, FullIsBuilt DEF BuiltWhenComplete
  <2>2. CASE nDifs = 0 /\ runs <= 1
    <3>1. \A k \in Keys : SourcesOf(eventMap[k]) = {}
      BY <1>1, <2>2 DEF FirstRunInv, EmptyMap, SourcesOf
    <3>. QED  BY <3>1, MergerAssumption DEF BuiltWhenComplete, CompleteNotHeld, MergerAssumption
  <2>. QED  BY <2>1, <2>2 DEF BuiltWhenComplete
<1>. QED  BY <1>1, Invariant, FirstRunHolds, PTL

-----------------------------------------------------------------------------
(* The threads, for every value of the constants and any order of commands.  *)

\* Only a running builder has a poll thread, and its plugins are started.
ThreadOwner ==
  /\ bstate # "RUNNING" => thread = "none" /\ ctl = "idle"
  /\ thread # "none" => started

\* Every step keeps ThreadOwner.
LEMMA ThreadOwnerNext == ThreadOwner /\ [Next]_vars => ThreadOwner'
<1> SUFFICES ASSUME ThreadOwner, [Next]_vars PROVE ThreadOwner'
  OBVIOUS
<1> USE DEF ThreadOwner
<1>1. CASE PollThread
  <2>1. /\ UNCHANGED <<bstate, ctl, started>>
        /\ thread # "none"
    BY <1>1 DEF PollThread, EnablePolling, PollContinue, PollExit, PollTimeout,
                ReceiveID, ReceiveData, Receive, control
  <2>. QED  BY <2>1, Zenon
<1>2. CASE WebThread
  <2>1. CASE Start
    BY <2>1, Zenon DEF Start
  <2>2. CASE StopEnd \/ Halt
    BY <2>2, Zenon DEF StopEnd, Halt, poller
  <2>3. CASE \E handler \in {"stop", "halt"} : StopBegin(handler)
    <3>1. bstate = "RUNNING" /\ UNCHANGED <<bstate, started, thread>>
      BY <2>3 DEF StopBegin
    <3>. QED  BY <3>1, Zenon
  <2>4. CASE \E complete \in BOOLEAN : Configure(complete)
    <3>1. bstate # "RUNNING" /\ UNCHANGED <<ctl, started, thread>>
      BY <2>4 DEF Configure, poller
    <3>. QED  BY <3>1, Zenon
  <2>5. CASE \/ \E active \in BOOLEAN : SetPurge(active)
             \/ \E n \in RegisterDs : RegisterDS(n)
             \/ \E k \in Keys \cup {-1} : SetHeader(k)
    BY <2>5, Zenon DEF SetPurge, RegisterDS, SetHeader, control, poller
  <2>. QED  BY <1>2, <2>1, <2>2, <2>3, <2>4, <2>5 DEF WebThread
<1>3. CASE DataSources
  <2>1. UNCHANGED <<control, poller>>
    BY <1>3 DEF DataSources, StartServers, StopServers, Register, Publish, Miss
  <2>. QED  BY <2>1, Zenon DEF control, poller
<1>4. CASE UNCHANGED vars
  BY <1>4, Zenon DEF vars, control, poller
<1>. QED  BY <1>1, <1>2, <1>3, <1>4 DEF Next

\* ThreadOwner is an invariant.
LEMMA ThreadOwnerHolds == Spec => []ThreadOwner
<1>1. Init => ThreadOwner
  BY DEF Init, ThreadOwner
<1>. QED  BY <1>1, ThreadOwnerNext, PTL DEF Spec

\* START never runs beside the poll thread of an earlier run.
THEOREM StartFindsNoThreadHolds == Spec => []StartFindsNoThread
<1>1. ThreadOwner => StartFindsNoThread
  BY DEF ThreadOwner, StartFindsNoThread
<1>. QED  BY <1>1, ThreadOwnerHolds, PTL

-----------------------------------------------------------------------------
(* What a step may not do.                                                  *)

\* Events are built by the poll thread when it has read data.
LEMMA OnlyDataDelivers ==
  ASSUME [Next]_vars, delivered' # delivered
  PROVE  \E s \in Sources : ReceiveData(s)
<1>1. ~UNCHANGED vars
  BY DEF vars, events
<1>2. ~DataSources
  BY DEF DataSources, StartServers, StopServers, Register, Publish, Miss, events
<1>3. ~WebThread
  BY DEF WebThread, Configure, Start, StopBegin, StopEnd, Halt, SetPurge, RegisterDS, SetHeader, events
<1>4. ~(EnablePolling \/ PollContinue \/ PollExit \/ PollTimeout \/ \E s \in Sources : ReceiveID(s))
  BY DEF EnablePolling, PollContinue, PollExit, PollTimeout, ReceiveID, events
<1>. QED  BY <1>1, <1>2, <1>3, <1>4 DEF Next, PollThread

\* While the poll thread is between recv and the end of processData nobody
\* else changes the event map.
LEMMA OnlyDataChangesMap ==
  ASSUME [Next]_vars, eventMap' # eventMap
  PROVE  \/ \E s \in Sources : ReceiveData(s)
         \/ (Start \/ Halt) /\ eventMap' = EmptyMap
<1>1. ~UNCHANGED vars
  BY DEF vars, events
<1>2. ~DataSources
  BY DEF DataSources, StartServers, StopServers, Register, Publish, Miss, events
<1>3. WebThread => (Start \/ Halt) /\ eventMap' = EmptyMap
  BY DEF WebThread, Configure, Start, StopBegin, StopEnd, Halt, SetPurge, RegisterDS, SetHeader, events
<1>4. ~(EnablePolling \/ PollContinue \/ PollExit \/ PollTimeout \/ \E s \in Sources : ReceiveID(s))
  BY DEF EnablePolling, PollContinue, PollExit, PollTimeout, ReceiveID, events
<1>. QED  BY <1>1, <1>2, <1>3, <1>4 DEF Next, PollThread

\* A trigger is built once, and never after a later one.
THEOREM BuiltInOrderHolds == ASSUME Nominal PROVE Spec => BuiltInOrder
<1>1. ASSUME IInv, [Next]_vars, NEW i \in Keys, NEW k \in Keys,
             delivered'[k] # delivered[k], delivered[i] # <<>>
      PROVE  i < k
  <2>1. PICK s \in Sources : ReceiveData(s)
    BY <1>1, OnlyDataDelivers
  <2>2. TypeOK /\ PipeInv /\ MapInv /\ Receive(s) /\ Head(pipe[s]) \in Keys
    BY <1>1, <2>1, DataIsCounted DEF IInv, ReceiveData
  <2>3. PICK h \in Keys : h = Head(pipe[s])
    BY <2>2
  <2>4. DataOutcome(s, h)
    BY <1>1, <2>1, <2>3, DataEffect
  <2>5. k = h
    BY <1>1, <2>2, <2>4 DEF DataOutcome, TypeOK
  <2>6. 1 \in DOMAIN pipe[s] /\ pipe[s][1] = k
    BY <2>2, <2>3, <2>5, ReceiveEffect
  <2>7. Passed(s, i)
    BY <1>1, <2>2 DEF MapInv
  <2>. QED  BY <2>6, <2>7 DEF Passed
<1>2. IInv /\ [Next]_vars =>
        [\A j, k \in Keys : delivered'[k] # delivered[k] /\ delivered[j] # <<>> => j < k]_vars
  BY <1>1
<1>. QED  BY <1>2, Invariant, PTL DEF Spec, BuiltInOrder

\* The plugins see events only between their start and their stop.
THEOREM EventsOnlyWhileStartedHolds == Spec => EventsOnlyWhileStarted
<1>1. ASSUME ThreadOwner, [Next]_vars, delivered' # delivered
      PROVE  started /\ started'
  <2>1. PICK s \in Sources : ReceiveData(s)
    BY <1>1, OnlyDataDelivers
  <2>2. thread = "recv" /\ started' = started
    BY <2>1 DEF ReceiveData, Receive, control
  <2>. QED  BY <1>1, <2>2, Zenon DEF ThreadOwner
<1>2. ThreadOwner /\ [Next]_vars => [delivered' # delivered => started /\ started']_vars
  BY <1>1
<1>. QED  BY <1>2, ThreadOwnerHolds, PTL DEF Spec, EventsOnlyWhileStarted

\* What has been asked for, what is pending and what has been written: a header
\* is pending only for an event somebody asked for, and one can be written only
\* after a request that has not been served yet.
HeaderInv ==
  /\ nextEventHeader # -1 => nextEventHeader \in SourcesOf(asked)
  /\ \A p \in 1..Processors :
       /\ SourcesOf(headerAt[p]) \subseteq SourcesOf(asked)
       /\ Len(headerAt[p]) <= Len(asked)
       /\ writeHeader => Len(headerAt[p]) < Len(asked)

\* The events that are built and SETHEADER are all that touches the headers.
LEMMA HeaderSteps ==
  ASSUME [Next]_vars
  PROVE  \/ UNCHANGED header
         \/ \E k \in Keys \cup {-1} : SetHeader(k)
         \/ /\ nextEventHeader > 0 /\ writeHeader
            /\ headerAt' = [headerAt EXCEPT ![1] = Append(@, nextEventHeader)]
            /\ writeHeader' = FALSE /\ nextEventHeader' = -1 /\ UNCHANGED asked
<1>1. ASSUME NEW s \in Sources, ReceiveData(s)
      PROVE  \/ UNCHANGED header
             \/ /\ nextEventHeader > 0 /\ writeHeader
                /\ headerAt' = [headerAt EXCEPT ![1] = Append(@, nextEventHeader)]
                /\ writeHeader' = FALSE /\ nextEventHeader' = -1 /\ UNCHANGED asked
  BY <1>1 DEF ReceiveData, ProcessData, ProcessEvents, header
<1>2. ASSUME PollThread, \A s \in Sources : ~ReceiveData(s) PROVE UNCHANGED header
  BY <1>2 DEF PollThread, EnablePolling, PollContinue, PollExit, PollTimeout, ReceiveID
<1>3. ASSUME WebThread, \A k \in Keys \cup {-1} : ~SetHeader(k) PROVE UNCHANGED header
  BY <1>3 DEF WebThread, Configure, Start, StopBegin, StopEnd, Halt, SetPurge,
               RegisterDS
<1>4. ASSUME DataSources PROVE UNCHANGED header
  BY <1>4 DEF DataSources, StartServers, StopServers, Register, Publish, Miss
<1>5. ASSUME UNCHANGED vars PROVE UNCHANGED header
  BY <1>5 DEF vars
<1>. QED  BY <1>1, <1>2, <1>3, <1>4, <1>5 DEF Next

LEMMA HeaderNext == TypeOK /\ HeaderInv /\ [Next]_vars => HeaderInv'
<1> SUFFICES ASSUME TypeOK, HeaderInv, [Next]_vars PROVE HeaderInv'
  OBVIOUS
<1>1. /\ asked \in Seq(Keys \cup {-1}) /\ nextEventHeader \in Keys \cup {-1}
      /\ headerAt \in [1..Processors -> Seq(Keys)]
      /\ 1 \in 1..Processors
  BY MergerAssumption DEF TypeOK
<1>2. CASE UNCHANGED header
  BY <1>2 DEF HeaderInv, header
<1>3. ASSUME NEW k \in Keys \cup {-1}, SetHeader(k) PROVE HeaderInv'
  <2>1. /\ asked' = Append(asked, k) /\ UNCHANGED headerAt
        /\ nextEventHeader' = IF k # -1 THEN k ELSE nextEventHeader
    BY <1>3 DEF SetHeader
  <2>2. SourcesOf(asked') = SourcesOf(asked) \cup {k}
    BY <1>1, <2>1, AppendElements DEF SourcesOf
  <2>3. Len(asked') = Len(asked) + 1 /\ Len(asked) \in Nat
    BY <1>1, <2>1
  <2>4. \A p \in 1..Processors : Len(headerAt[p]) \in Nat
    BY <1>1
  <2>. QED  BY <2>1, <2>2, <2>3, <2>4 DEF HeaderInv
<1>4. CASE /\ nextEventHeader > 0 /\ writeHeader
           /\ headerAt' = [headerAt EXCEPT ![1] = Append(@, nextEventHeader)]
           /\ writeHeader' = FALSE /\ nextEventHeader' = -1 /\ UNCHANGED asked
  <2>1. nextEventHeader \in Keys /\ nextEventHeader # -1
    BY <1>1, <1>4
  <2>2. /\ headerAt'[1] = Append(headerAt[1], nextEventHeader)
        /\ \A p \in 1..Processors : p # 1 => headerAt'[p] = headerAt[p]
        /\ headerAt[1] \in Seq(Keys)
    BY <1>1, <1>4
  <2>3. SourcesOf(headerAt'[1]) = SourcesOf(headerAt[1]) \cup {nextEventHeader}
    BY <2>1, <2>2, AppendElements DEF SourcesOf
  <2>4. Len(headerAt'[1]) = Len(headerAt[1]) + 1 /\ Len(headerAt[1]) \in Nat /\ Len(asked) \in Nat
    BY <1>1, <2>1, <2>2
  <2>5. Len(headerAt[1]) < Len(asked)
    BY <1>1, <1>4 DEF HeaderInv
  <2>. QED  BY <1>1, <1>4, <2>1, <2>2, <2>3, <2>4, <2>5 DEF HeaderInv
<1>. QED  BY <1>2, <1>3, <1>4, HeaderSteps

\* A run header is given to a plugin only with an event somebody asked for,
\* and not more often than it was asked for (zmMerger.cc:121-139), whatever the
\* order of the commands and the events.
THEOREM HeaderWhereAskedHolds == Spec => []HeaderWhereAsked
<1>1. Init => HeaderInv
  BY DEF Init, HeaderInv, SourcesOf
<1>2. HeaderInv => HeaderWhereAsked
  BY DEF HeaderInv, HeaderWhereAsked
<1>. QED  BY <1>1, <1>2, HeaderNext, TypeCorrect, PTL DEF Spec

\* The map holds finitely many events.
LEMMA HeldFinite == \A m : IsFiniteSet(Held(m)) /\ Cardinality(Held(m)) \in Nat
<1>1. IsFiniteSet(Keys)
  BY MergerAssumption, FS_Interval DEF Keys, MergerAssumption
<1>2. \A m : Held(m) \subseteq Keys
  BY DEF Held
<1>3. \A m : IsFiniteSet(Held(m))
  BY <1>1, <1>2, FS_Subset
<1>. QED  BY <1>3, FS_CardinalityType

\* A purge leaves at most ForcePurge events.
LEMMA PurgedBound ==
  ASSUME NEW m, NEW last
  PROVE  Cardinality(Held(Purged(m, last))) <= ForcePurge
<1> DEFINE young == Without(m, {k \in Keys : OlderThan(k, last)})
<1>1. CASE Cardinality(Held(young)) > ForcePurge
  <2>1. Purged(m, last) = Without(young, {k \in Keys : k > 1})
    BY <1>1 DEF Purged
  <2> HIDE DEF young
  <2>2. Held(Purged(m, last)) \subseteq {0, 1}
    <3>1. \A k \in Keys : k > 1 \/ k \in {0, 1}
      BY KeysFacts
    <3>. QED  BY <2>1, <3>1 DEF Held, Without
  <2>3. IsFiniteSet({0, 1}) /\ Cardinality({0, 1}) = 2
    <3>1. IsFiniteSet({0}) /\ Cardinality({0}) = 1
      BY FS_Singleton
    <3>2. {0, 1} = {0} \cup {1} /\ 1 \notin {0}
      OBVIOUS
    <3>. QED  BY <3>1, <3>2, FS_AddElement
  <2>4. Cardinality(Held(Purged(m, last))) <= Cardinality({0, 1})
    BY <2>2, <2>3, FS_Subset
  <2>. QED  BY <2>3, <2>4, HeldFinite, MergerAssumption DEF MergerAssumption
<1>2. CASE ~(Cardinality(Held(young)) > ForcePurge)
  <2>1. Purged(m, last) = young
    BY <1>2 DEF Purged
  <2> HIDE DEF young
  <2>. QED  BY <1>2, <2>1, HeldFinite, MergerAssumption DEF MergerAssumption
<1>. QED  BY <1>1, <1>2

\* Lost triggers cannot fill the map while the purge is active, whatever the
\* order of the commands and the number of registrations.
THEOREM MapBoundedHolds == Spec => MapBounded
<1>1. ASSUME [Next]_vars, thread = "recv", purge, eventMap' # eventMap
      PROVE  Cardinality(Held(eventMap')) <= ForcePurge
  <2>1. CASE eventMap' = EmptyMap
    <3>1. Held(eventMap') = {}
      BY <2>1 DEF Held, EmptyMap
    <3>. QED  BY <3>1, FS_EmptySet, MergerAssumption DEF MergerAssumption
  <2>2. CASE eventMap' # EmptyMap
    <3>1. PICK s \in Sources : ReceiveData(s)
      BY <1>1, <2>2, OnlyDataChangesMap
    <3>2. \E m, last : eventMap' = Purged(m, last)
      BY <1>1, <3>1 DEF ReceiveData, ProcessData
    <3>. QED  BY <3>2, PurgedBound
  <2>. QED  BY <2>1, <2>2
<1>2. [Next]_vars => [thread = "recv" /\ purge /\ eventMap' # eventMap
                        => Cardinality(Held(eventMap')) <= ForcePurge]_vars
  BY <1>1
<1>. QED  BY <1>2, PTL DEF Spec, MapBounded

\* An event that misses a source after a younger one has been built will
\* never be complete: its trigger has passed at every source.
LEMMA OlderIsHopeless ==
  ASSUME TypeOK, PipeInv, NEW k \in Keys, NEW h \in Keys, k < h,
         SourcesOf(eventMap[k]) # Sources, SourcesOf(eventMap[k]) \subseteq Sources,
         \A s \in Sources : \/ Passed(s, h)
                            \/ pipe[s] # <<>> /\ Head(pipe[s]) = h
  PROVE  ~CanComplete(k)
<1>1. PICK s \in Sources : s \notin SourcesOf(eventMap[k])
  OBVIOUS
<1>2. k \in Nat /\ h \in Nat
  BY KeysFacts
<1>3. /\ pipe[s] \in Seq(Keys \cup {ID})
      /\ nextKey[s] \in Nat
      /\ \A i \in DOMAIN pipe[s] : pipe[s][i] \in Int
  BY PipeElements
<1>4. k < nextKey[s] /\ \A i \in DOMAIN pipe[s] : k < pipe[s][i]
  <2>1. CASE Passed(s, h)
    BY <1>2, <1>3, <2>1 DEF Passed
  <2>2. CASE pipe[s] # <<>> /\ Head(pipe[s]) = h
    <3>1. 1 \in DOMAIN pipe[s] /\ pipe[s][1] = h
      BY <1>3, <2>2
    <3>2. \A i \in DOMAIN pipe[s] : i = 1 \/ 1 < i
      BY <1>3
    <3>3. \A i \in DOMAIN pipe[s] : i = 1 \/ h < pipe[s][i]
      BY <3>1, <3>2 DEF PipeInv
    <3>4. h < nextKey[s]
      BY <3>1 DEF PipeInv
    <3>. QED  BY <1>2, <1>3, <3>1, <3>3, <3>4
  <2>. QED  BY <2>1, <2>2
<1>5. \A i \in DOMAIN pipe[s] : pipe[s][i] # k
  BY <1>2, <1>3, <1>4
<1>. QED  BY <1>1, <1>2, <1>3, <1>4, <1>5 DEF CanComplete

\* One data message: what leaves the map unbuilt was hopeless, or the map was
\* at its limit.
LEMMA PurgeEffect ==
  ASSUME Nominal, IInv, NEW s \in Sources, ReceiveData(s),
         NEW k \in Keys, PurgedNow(k)
  PROVE  ~CanComplete(k) \/ Cardinality(Held(eventMap)) >= ForcePurge
<1>1. /\ TypeOK /\ MapInv /\ SizeInv /\ PipeInv /\ Receive(s) /\ Head(pipe[s]) \in Keys
      /\ Counted = Sources /\ nregistered \in {0, NSources}
      /\ s \notin SourcesOf(eventMap[Head(pipe[s])])
      /\ thread = "recv" /\ k # 0 /\ eventMap[k] # <<>> /\ eventMap'[k] = <<>>
      /\ delivered'[k] = delivered[k]
  BY DataIsCounted DEF IInv, ReceiveData, Receive, PurgedNow
<1>2. PICK h \in Keys : h = Head(pipe[s])
  BY <1>1
<1> DEFINE n      == IF nregistered > 0 THEN nregistered ELSE nDifs
           v      == Extended(s, h)
           filled == [eventMap EXCEPT ![h] = v]
           done   == Complete(filled, n)
           kept   == Without(filled, done)
<1>3. /\ ProcessEvents(done \ {0}, filled)
      /\ \/ \E last \in LastGtc(done) : eventMap' = Purged(kept, last)
         \/ eventMap' = kept
  BY <1>2 DEF ReceiveData, ProcessData, Extended
<1>4. n \in {0, NSources} /\ n \in Nat
  BY <1>1, SourcesNumber DEF SizeInv
<1>5. ASSUME NEW j \in Keys, n # 0
      PROVE  Len(eventMap[j]) # NSources
  <2>1. CASE nDifs # 0
    BY <1>1, <2>1 DEF SizeInv
  <2>2. CASE nDifs = 0
    <3>1. eventMap = EmptyMap
      BY <1>1, <1>5, <2>2, SourcesNumber DEF SizeInv, Polling
    <3>. QED  BY <3>1, SourcesNumber DEF EmptyMap
  <2>. QED  BY <2>1, <2>2
<1>6. /\ v \in Seq(Sources) /\ Distinct(v) /\ Len(v) > 0
      /\ SourcesOf(v) = SourcesOf(eventMap[h]) \cup {s}
  <2>1. eventMap[h] \in Seq(Sources) /\ Distinct(eventMap[h])
    BY <1>1 DEF TypeOK, MapInv
  <2>2. s \notin SourcesOf(eventMap[h])
    BY <1>1, <1>2
  <2>. QED  BY <2>1, <2>2, DistinctAppend, SourcesAppend DEF Extended
<1>7. filled \in [Keys -> Seq(Sources)] /\ filled[h] = v
      /\ \A j \in Keys \ {h} : filled[j] = eventMap[j]
  BY <1>1, <1>6 DEF TypeOK
<1>8. /\ delivered' = [j \in Keys |-> IF j \in done \ {0} THEN Append(delivered[j], filled[j])
                                                         ELSE delivered[j]]
  BY <1>3 DEF ProcessEvents
<1> HIDE DEF n, v, filled
<1>9. done \subseteq {h} /\ (done # {} => Len(v) = NSources)
  <2>1. ASSUME NEW j \in Keys, filled[j] # <<>>, Len(filled[j]) = n
        PROVE  j = h /\ n = NSources
    <3>1. Len(filled[j]) # 0
      BY <1>7, <2>1
    <3>2. n = NSources /\ n # 0
      BY <1>4, <2>1, <3>1
    <3>3. Len(eventMap[j]) # NSources
      BY <1>5, <3>2
    <3>. QED  BY <1>7, <2>1, <3>2, <3>3
  <2>. QED  BY <2>1, <1>7 DEF Complete, Held
<1>10. k \notin done
  <2>1. delivered \in [Keys -> Seq(Seq(Sources))] /\ filled[k] \in Seq(Sources)
    BY <1>1, <1>7 DEF TypeOK
  <2>2. delivered[k] # Append(delivered[k], filled[k])
    <3>1. delivered[k] \in Seq(Seq(Sources))
      BY <2>1
    <3>2. Len(Append(delivered[k], filled[k])) = Len(delivered[k]) + 1 /\ Len(delivered[k]) \in Nat
      BY <2>1, <3>1
    <3>. QED  BY <3>2
  <2>. QED  BY <1>1, <1>8, <2>2
<1> HIDE DEF done
<1>11. filled[k] # <<>>
  <2>1. v # <<>>
    BY <1>6
  <2>. QED  BY <1>1, <1>7, <2>1
<1>12. kept[k] # <<>> /\ Held(kept) \subseteq Held(eventMap) \cup {h}
  BY <1>7, <1>10, <1>11 DEF Without, Held
<1> HIDE DEF kept
<1>13. PICK last \in LastGtc(done) : eventMap' = Purged(kept, last)
  BY <1>1, <1>3, <1>12
<1> DEFINE young == Without(kept, {j \in Keys : OlderThan(j, last)})
<1>14. CASE OlderThan(k, last)
  <2>1. 0 < HalfRange /\ \A j \in Keys : j < HalfRange
    BY MergerAssumption DEF Nominal, MergerAssumption, Keys
  <2>2. last \in Keys
    BY <1>9, LastGtcType
  <2>3. k < last
    BY <1>14, <2>1, <2>2, KeysFacts, MergerAssumption DEF OlderThan, MergerAssumption
  <2>4. last = h /\ done # {}
    <3>1. last # 0
      BY <2>3, KeysFacts
    <3>. QED  BY <1>9, <1>13, <3>1 DEF LastGtc
  <2>5. SourcesOf(eventMap[h]) \cup {s} = Sources
    BY <1>6, <1>9, <2>4, DistinctIsFull
  <2>6. \A t \in Sources : Passed(t, h) \/ (pipe[t] # <<>> /\ Head(pipe[t]) = h)
    <3>1. \A t \in SourcesOf(eventMap[h]) : Passed(t, h)
      BY <1>1 DEF MapInv, SourcesOf
    <3>. QED  BY <1>1, <1>2, <2>5, <3>1 DEF Receive
  <2>7. SourcesOf(eventMap[k]) # Sources /\ SourcesOf(eventMap[k]) \subseteq Sources
    <3>1. eventMap[k] \in Seq(Sources) /\ Distinct(eventMap[k])
      BY <1>1 DEF TypeOK, MapInv
    <3>2. Len(eventMap[k]) # NSources
      <4>1. PICK j \in Keys : filled[j] # <<>> /\ Len(filled[j]) = n
        BY <2>4 DEF done, Complete, Held
      <4>2. n # 0
        BY <1>7, <4>1
      <4>. QED  BY <1>5, <4>2
    <3>. QED  BY <3>1, <3>2, FullIsDistinct DEF SourcesOf
  <2>. QED  BY <1>1, <2>3, <2>4, <2>6, <2>7, OlderIsHopeless
<1>15. CASE ~OlderThan(k, last)
  <2>1. young[k] # <<>>
    BY <1>12, <1>15 DEF Without
  <2>2. Cardinality(Held(young)) > ForcePurge
    BY <1>1, <1>13, <2>1 DEF Purged
  <2>3. Held(young) \subseteq Held(eventMap) \cup {h}
    BY <1>12 DEF Without, Held
  <2> HIDE DEF young
  <2>4. Cardinality(Held(young)) <= Cardinality(Held(eventMap)) + 1
    <3>1. /\ IsFiniteSet(Held(eventMap) \cup {h})
          /\ Cardinality(Held(eventMap) \cup {h}) <= Cardinality(Held(eventMap)) + 1
      <4>1. IsFiniteSet(Held(eventMap)) /\ Cardinality(Held(eventMap)) \in Nat
        BY HeldFinite
      <4>2. /\ IsFiniteSet(Held(eventMap) \cup {h})
            /\ Cardinality(Held(eventMap) \cup {h}) = IF h \in Held(eventMap)
                 THEN Cardinality(Held(eventMap)) ELSE Cardinality(Held(eventMap)) + 1
        BY <4>1, FS_AddElement
      <4>. QED  BY <4>1, <4>2
    <3>2. Cardinality(Held(young)) <= Cardinality(Held(eventMap) \cup {h})
      BY <2>3, <3>1, FS_Subset
    <3>3. Cardinality(Held(eventMap) \cup {h}) \in Nat
      BY <3>1, FS_CardinalityType
    <3>. QED  BY <3>1, <3>2, <3>3, HeldFinite
  <2>. QED  BY <2>2, <2>4, HeldFinite, MergerAssumption DEF MergerAssumption
<1>. QED  BY <1>14, <1>15

\* The window purge drops only events that have already lost a fragment.
THEOREM OnlyHopelessPurgedHolds == ASSUME Nominal PROVE Spec => OnlyHopelessPurged
<1>1. ASSUME IInv, [Next]_vars, NEW k \in Keys, PurgedNow(k)
      PROVE  ~CanComplete(k) \/ Cardinality(Held(eventMap)) >= ForcePurge
  <2>1. thread = "recv" /\ eventMap' # eventMap /\ thread # "none"
    BY <1>1 DEF PurgedNow
  <2>2. ~(Start \/ Halt)
    BY <1>1, <2>1 DEF Start, Halt, IInv, ThreadInv
  <2>3. PICK s \in Sources : ReceiveData(s)
    BY <1>1, <2>1, <2>2, OnlyDataChangesMap
  <2>. QED  BY <1>1, <2>3, PurgeEffect
<1>2. IInv /\ [Next]_vars =>
        [\A k \in Keys : PurgedNow(k) =>
           ~CanComplete(k) \/ Cardinality(Held(eventMap)) >= ForcePurge]_vars
  BY <1>1
<1>. QED  BY <1>2, Invariant, PTL DEF Spec, OnlyHopelessPurged

-----------------------------------------------------------------------------
(* The builder implements TriggerAssembly.                                  *)

\* Nothing that has been taken from a connection goes back.
LEMMA QueuedShrinks ==
  ASSUME TypeOK, PipeInv, NEW s \in Sources, Receive(s)
  PROVE  \A t \in Sources : Queued(t)' \subseteq Queued(t)
<1>1. /\ \A t \in Sources : t # s => pipe'[t] = pipe[t]
      /\ \A i \in DOMAIN pipe'[s] :
           i + 1 \in DOMAIN pipe[s] /\ pipe'[s][i] = pipe[s][i + 1]
  BY ReceiveEffect
<1>. QED  BY <1>1 DEF Queued

\* Steps without a delivery or a new trigger use fragments at most.
LEMMA DiscardStep ==
  ASSUME UNCHANGED <<nextKey, delivered>>, Waiting' \subseteq Waiting
  PROVE  Assembly!Discard
BY DEF Assembly!Discard, Seen, Built

\* A delivery is a Build of the abstract specification.
LEMMA BuildStep ==
  ASSUME Nominal, IInv, NEW s \in Sources, ReceiveData(s), delivered' # delivered
  PROVE  \E k \in Keys : Assembly!Build(k)
<1>1. /\ TypeOK /\ PipeInv /\ MapInv /\ Receive(s) /\ Head(pipe[s]) \in Keys
      /\ nextKey' = nextKey
  BY DataIsCounted DEF IInv, ReceiveData, Receive
<1>2. PICK k \in Keys : k = Head(pipe[s])
  BY <1>1
<1>3. /\ DataOutcome(s, k)
      /\ delivered' = [delivered EXCEPT ![k] = Append(@, Extended(s, k))]
      /\ Len(Extended(s, k)) = NSources
      /\ eventMap'[k] = <<>>
  BY <1>2, DataEffect DEF DataOutcome
<1>4. SourcesOf(Extended(s, k)) = Sources
  BY <1>3, DistinctIsFull DEF DataOutcome
<1>5. \A t \in Sources : k \in Queued(t) \cup InMap(t)
  <2>1. k \in Queued(s)
    BY <1>1, <1>2, ReceiveEffect DEF Queued
  <2>2. eventMap[k] \in Seq(Sources)
    BY <1>1 DEF TypeOK
  <2>3. \A t \in Sources : t = s \/ t \in SourcesOf(eventMap[k])
    BY <1>4, <2>2, SourcesAppend DEF Extended
  <2>. QED  BY <2>1, <2>3 DEF InMap
<1>6. Assembly!Fragments(k) \subseteq Waiting
  BY <1>5 DEF Waiting, Assembly!Fragments
<1>7. \A j \in Built : j < k
  <2>1. 1 \in DOMAIN pipe[s] /\ pipe[s][1] = k
    BY <1>1, <1>2, ReceiveEffect
  <2>. QED  BY <1>1, <2>1 DEF MapInv, Passed, Built
<1>8. Built' = Built \cup {k}
  <2>1. Append(delivered[k], Extended(s, k)) # <<>>
    <3>1. delivered[k] \in Seq(Seq(Sources)) /\ Extended(s, k) \in Seq(Sources)
      BY <1>1, <1>3 DEF TypeOK, DataOutcome
    <3>. QED  BY <3>1
  <2>2. delivered'[k] # <<>> /\ \A j \in Keys : j # k => delivered'[j] = delivered[j]
    BY <1>1, <1>3, <2>1 DEF TypeOK
  <2>. QED  BY <2>2 DEF Built
<1>9. Waiting' \subseteq Waiting \ Assembly!Fragments(k)
  <2>1. \A t \in Sources : Queued(t)' \subseteq Queued(t)
    BY <1>1, QueuedShrinks
  <2>2. \A t \in Sources : Passed(t, k)'
    <3>1. SourcesOf(eventMap[k]) \cup {s} = Sources
      <4>1. eventMap[k] \in Seq(Sources)
        BY <1>1 DEF TypeOK
      <4>. QED  BY <1>4, <4>1, SourcesAppend DEF Extended
    <3>2. Passed(s, k)' /\ \A t \in Sources : Passed(t, k) => Passed(t, k)'
      BY <1>1, <1>2, ReceiveEffect
    <3>3. \A t \in SourcesOf(eventMap[k]) : Passed(t, k)
      BY <1>1 DEF MapInv, SourcesOf
    <3>. QED  BY <3>1, <3>2, <3>3
  <2>3. \A t \in Sources : k \notin Queued(t)'
    BY <2>2, KeysFacts DEF Queued, Passed
  <2>4. \A t \in Sources : InMap(t)' \subseteq InMap(t) \ {k}
    BY <1>3 DEF InMap, DataOutcome, SourcesOf
  <2>. QED  BY <2>1, <2>3, <2>4 DEF Waiting, Assembly!Fragments
<1>10. Seen' = Seen
  BY <1>1 DEF Seen
<1>. QED  BY <1>6, <1>7, <1>8, <1>9, <1>10 DEF Assembly!Build

\* A fragment that completes nothing only moves, or is given up.
LEMMA DataDiscardStep ==
  ASSUME Nominal, IInv, NEW s \in Sources, ReceiveData(s), delivered' = delivered
  PROVE  Assembly!Discard
<1>1. /\ TypeOK /\ PipeInv /\ Receive(s) /\ Head(pipe[s]) \in Keys
      /\ nextKey' = nextKey
  BY DataIsCounted DEF IInv, ReceiveData, Receive
<1>2. PICK k \in Keys : k = Head(pipe[s])
  BY <1>1
<1>3. DataOutcome(s, k)
  BY <1>2, DataEffect
<1>4. k \in Queued(s)
  BY <1>1, <1>2, ReceiveEffect DEF Queued
<1>5. SourcesOf(Extended(s, k)) = SourcesOf(eventMap[k]) \cup {s}
  BY <1>1, SourcesAppend DEF Extended, TypeOK
<1>6. \A t \in Sources : InMap(t)' \subseteq InMap(t) \cup (IF t = s THEN {k} ELSE {})
  <2>1. ASSUME NEW t \in Sources, NEW j \in Keys, t \in SourcesOf(eventMap'[j])
        PROVE  t \in SourcesOf(eventMap[j]) \/ (j = k /\ t = s)
    <3>1. SourcesOf(<<>>) = {}
      BY DEF SourcesOf
    <3>. QED  BY <1>3, <1>5, <2>1, <3>1 DEF DataOutcome
  <2>. QED  BY <2>1 DEF InMap, SourcesOf
<1>7. \A t \in Sources : Queued(t)' \subseteq Queued(t)
  BY <1>1, QueuedShrinks
<1>8. Waiting' \subseteq Waiting
  BY <1>4, <1>6, <1>7 DEF Waiting
<1>. QED  BY <1>1, <1>8, DiscardStep

\* A trigger at one source is a Trigger of the abstract specification.
LEMMA TriggerStep ==
  ASSUME Nominal, IInv, NEW s \in Sources, Publish(s) \/ Miss(s)
  PROVE  \E k \in Keys : Assembly!Trigger(s, k)
<1>1. /\ UNCHANGED <<eventMap, delivered>>
      /\ nextKey' = [nextKey EXCEPT ![s] = @ + 1]
      /\ pipe' = pipe \/ pipe' = [pipe EXCEPT ![s] = Append(@, nextKey[s])]
      /\ nextKey[s] <= MaxKey
  BY DEF Publish, Miss, events
<1>2. TypeOK
  BY DEF IInv
<1>3. nextKey[s] \in Keys /\ pipe[s] \in Seq(Keys \cup {ID})
  BY <1>1, <1>2, PipeElements DEF Keys
<1>4. PICK k \in Keys : k = nextKey[s]
  BY <1>3
<1>5. \A j \in Seen[s] : j < k
  BY <1>4 DEF Seen
<1>6. Seen' = [Seen EXCEPT ![s] = @ \cup {k}]
  <2>1. \A t \in Sources : t # s => nextKey'[t] = nextKey[t]
    BY <1>1, <1>2 DEF TypeOK
  <2>2. nextKey'[s] = k + 1
    BY <1>1, <1>2, <1>4 DEF TypeOK
  <2>3. {j \in Keys : j < nextKey'[s]} = {j \in Keys : j < nextKey[s]} \cup {k}
    <3>1. \A j \in Keys : j < k + 1 <=> j < k \/ j = k
      BY KeysFacts
    <3>. QED  BY <1>4, <2>2, <3>1
  <2>. QED  BY <2>1, <2>3 DEF Seen
<1>7. Waiting' \in {Waiting, Waiting \cup {<<s, k>>}}
  <2>1. \A t \in Sources : InMap(t)' = InMap(t)
    BY <1>1 DEF InMap, SourcesOf
  <2>2. CASE pipe' = pipe
    <3>1. \A t \in Sources : Queued(t)' = Queued(t)
      BY <2>2 DEF Queued
    <3>. QED  BY <2>1, <3>1 DEF Waiting
  <2>3. CASE pipe' = [pipe EXCEPT ![s] = Append(@, nextKey[s])]
    <3>1. \A t \in Sources : t # s => Queued(t)' = Queued(t)
      BY <1>2, <2>3 DEF Queued, TypeOK
    <3>2. pipe'[s] = Append(pipe[s], k)
      BY <1>2, <1>4, <2>3 DEF TypeOK
    <3>3. Queued(s)' = Queued(s) \cup {k}
      <4>1. \A i \in DOMAIN pipe'[s] : (i \in DOMAIN pipe[s] /\ pipe'[s][i] = pipe[s][i])
                                       \/ pipe'[s][i] = k
        BY <1>3, <3>2, AppendElements
      <4>2. \A i \in DOMAIN pipe[s] : i \in DOMAIN pipe'[s] /\ pipe'[s][i] = pipe[s][i]
        BY <1>3, <3>2, AppendElements
      <4>3. \E i \in DOMAIN pipe'[s] : pipe'[s][i] = k
        BY <1>3, <3>2, Len(pipe[s]) + 1 \in DOMAIN Append(pipe[s], k)
      <4>. QED  BY <4>1, <4>2, <4>3 DEF Queued
    <3>. QED  BY <2>1, <3>1, <3>3 DEF Waiting
  <2>. QED  BY <1>1, <2>2, <2>3
<1>8. Built' = Built
  BY <1>1 DEF Built
<1>. QED  BY <1>5, <1>6, <1>7, <1>8 DEF Assembly!Trigger

\* Initial states map to initial states.
LEMMA AssemblyInit == Init => Assembly!Init
<1> SUFFICES ASSUME Init PROVE Assembly!Init
  OBVIOUS
<1>1. Seen = [s \in Sources |-> {}]
  <2>1. \A s \in Sources : nextKey[s] = 0
    BY DEF Init
  <2>2. \A k \in Keys : ~(k < 0)
    BY KeysFacts
  <2>3. \A s \in Sources : {k \in Keys : k < nextKey[s]} = {}
    BY <2>1, <2>2
  <2>. QED  BY <2>3 DEF Seen
<1>2. Waiting = {}
  BY DEF Init, Waiting, Queued, InMap, EmptyMap, SourcesOf
<1>3. Built = {}
  BY DEF Init, Built, EmptyMap
<1>. QED  BY <1>1, <1>2, <1>3 DEF Assembly!Init

\* Every step maps to a step of the abstract specification or to a stutter.
LEMMA AssemblyNext ==
  Nominal /\ IInv /\ [Next]_vars => [Assembly!Next]_(Assembly!vars)
<1> SUFFICES ASSUME Nominal, IInv, [Next]_vars PROVE [Assembly!Next]_(Assembly!vars)
  OBVIOUS
<1>1. ASSUME NEW s \in Sources, ReceiveData(s) PROVE Assembly!Next
  BY <1>1, BuildStep, DataDiscardStep DEF Assembly!Next
<1>2. ASSUME NEW s \in Sources, Publish(s) \/ Miss(s) PROVE Assembly!Next
  BY <1>2, TriggerStep DEF Assembly!Next
<1>3. ASSUME NEW s \in Sources, ReceiveID(s) PROVE Assembly!Next
  <2>1. /\ TypeOK /\ PipeInv /\ Receive(s)
        /\ UNCHANGED <<eventMap, delivered, nextKey>>
    BY <1>3 DEF IInv, ReceiveID, Receive, events
  <2>2. \A t \in Sources : Queued(t)' \subseteq Queued(t)
    BY <2>1, QueuedShrinks
  <2>3. \A t \in Sources : InMap(t)' = InMap(t)
    BY <2>1 DEF InMap, SourcesOf
  <2>4. Waiting' \subseteq Waiting
    BY <2>2, <2>3 DEF Waiting
  <2>. QED  BY <2>1, <2>4, DiscardStep DEF Assembly!Next
<1>4. ASSUME NEW s \in Sources, Register(s) PROVE Assembly!Next
  <2>1. /\ UNCHANGED <<eventMap, delivered, nextKey>>
        /\ pipe' = [pipe EXCEPT ![s] = Append(@, ID)]
        /\ TypeOK
    BY <1>4 DEF IInv, Register, events
  <2>2. \A t \in Sources : Queued(t)' \subseteq Queued(t)
    <3>1. \A t \in Sources : t # s => pipe'[t] = pipe[t]
      BY <2>1 DEF TypeOK
    <3>2. pipe'[s] = Append(pipe[s], ID) /\ pipe[s] \in Seq(Keys \cup {ID})
      BY <2>1, PipeElements DEF TypeOK
    <3>3. \A i \in DOMAIN pipe'[s] : (i \in DOMAIN pipe[s] /\ pipe'[s][i] = pipe[s][i])
                                     \/ pipe'[s][i] = ID
      BY <3>2, AppendElements
    <3>. QED  BY <3>1, <3>3, KeysFacts DEF Queued
  <2>3. \A t \in Sources : InMap(t)' = InMap(t)
    BY <2>1 DEF InMap, SourcesOf
  <2>4. Waiting' \subseteq Waiting
    BY <2>2, <2>3 DEF Waiting
  <2>. QED  BY <2>1, <2>4, DiscardStep DEF Assembly!Next
<1>5. CASE Start \/ Halt
  <2>1. UNCHANGED <<pipe, delivered, nextKey>> /\ eventMap' = EmptyMap
    BY <1>5 DEF Start, Halt, world
  <2>2. \A t \in Sources : InMap(t)' = {} /\ Queued(t)' = Queued(t)
    BY <2>1 DEF InMap, Queued, EmptyMap, SourcesOf
  <2>3. Waiting' \subseteq Waiting
    BY <2>2 DEF Waiting
  <2>. QED  BY <2>1, <2>3, DiscardStep DEF Assembly!Next
<1>6. ASSUME UNCHANGED <<eventMap, delivered, nextKey, pipe>>
      PROVE  UNCHANGED Assembly!vars
  <2>1. \A t \in Sources : InMap(t)' = InMap(t) /\ Queued(t)' = Queued(t)
    BY <1>6 DEF InMap, Queued, SourcesOf
  <2>. QED  BY <1>6, <2>1 DEF Assembly!vars, Seen, Waiting, Built
<1>7. CASE EnablePolling \/ PollContinue \/ PollExit \/ PollTimeout
  BY <1>6, <1>7 DEF EnablePolling, PollContinue, PollExit, PollTimeout, events, world
<1>8. CASE StopEnd \/ StartServers \/ StopServers
  BY <1>6, <1>8 DEF StopEnd, StartServers, StopServers, events, world
<1>9. CASE \/ \E complete \in BOOLEAN : Configure(complete)
           \/ \E handler \in {"stop", "halt"} : StopBegin(handler)
           \/ \E n \in RegisterDs : RegisterDS(n)
           \/ \E active \in BOOLEAN : SetPurge(active)
           \/ \E k \in Keys \cup {-1} : SetHeader(k)
  BY <1>6, <1>9 DEF Configure, StopBegin, RegisterDS, SetPurge, SetHeader, events, world
<1>10. CASE UNCHANGED vars
  BY <1>6, <1>10 DEF vars, events, world
<1>. QED  BY <1>1, <1>2, <1>3, <1>4, <1>5, <1>7, <1>8, <1>9, <1>10
          DEF Next, PollThread, WebThread, DataSources

\* The builder implements the abstract event builder for any number of
\* sources, triggers and runs, with purges, missed triggers and restarts.
THEOREM Refinement == ASSUME Nominal PROVE Spec => RefinesAssembly
<1>1. Init => Assembly!Init
  BY AssemblyInit
<1>2. IInv /\ [Next]_vars => [Assembly!Next]_(Assembly!vars)
  BY AssemblyNext
<1>. QED  BY <1>1, <1>2, Invariant, PTL DEF Spec, RefinesAssembly, Assembly!Spec
=============================================================================
