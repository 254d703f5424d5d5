------------------------------ MODULE MergerInv ------------------------------
(***************************************************************************)
(* The inductive invariant behind the safety properties of Merger, for     *)
(* Nominal constants.  MergerProofs proves it, TLC checks it on the        *)
(* instances of MCMerger.                                                  *)
(***************************************************************************)
EXTENDS Merger

Polling == thread \in {"loop", "recv"}

\* The two threads: who is where, and what the flags say of it.
ThreadInv ==
  /\ bstate # "RUNNING" => thread = "none" /\ ctl = "idle"
  /\ bstate = "RUNNING" => runs # 0
  /\ thread # "none" => started
  /\ ctl # "idle" => ~polling /\ thread # "created"
  /\ Polling /\ ctl = "idle" => polling
  /\ thread = "none" /\ bstate = "RUNNING" => ctl # "idle"

\* Sources whose registration the poll thread has read.
Counted == {s \in Sources : registrations[s] = 1 /\
                            \A i \in DOMAIN pipe[s] : pipe[s][i] # ID}

\* Registrations are read in one run, before any data is sent.
RegistrationInv ==
  /\ \A s \in Sources : registrations[s] = 0 => pipe[s] = <<>>
  /\ \A s \in Sources : registrations[s] <= 1
  /\ bstate = "RUNNING" => AllRegistered
  /\ serving => Counted = Sources
  /\ \A s \in Sources : \A i \in DOMAIN pipe[s] :
       pipe[s][i] # ID => Counted = Sources
  /\ Polling => \/ nregistered = Cardinality(Counted)
                \/ nregistered = 0 /\ Counted = Sources
  /\ ~Polling => Counted = {} \/ Counted = Sources
  /\ ctl # "idle" => Counted = Sources
  /\ \A k \in Keys : eventMap[k] # <<>> \/ delivered[k] # <<>> => Counted = Sources

\* A connection holds what its source sent in ascending order; the
\* registration, ID = -1, can only be its first message.
PipeInv ==
  \A s \in Sources : \A i \in DOMAIN pipe[s] :
    /\ pipe[s][i] < nextKey[s]
    /\ \A j \in DOMAIN pipe[s] : i < j => pipe[s][i] < pipe[s][j]

\* Nothing of trigger k is to come from s, or on its way.
Passed(s, k) ==
  /\ k < nextKey[s]
  /\ \A i \in DOMAIN pipe[s] : k < pipe[s][i]

Distinct(v) == \A i, j \in DOMAIN v : v[i] = v[j] => i = j

\* The event map: no source twice in an event, no fragment left behind it.
MapInv ==
  /\ \A k \in Keys : Distinct(eventMap[k])
  /\ \A k \in Keys : \A i \in DOMAIN eventMap[k] : Passed(eventMap[k][i], k)
  /\ \A k \in Keys : delivered[k] # <<>> => \A s \in Sources : Passed(s, k)

\* The number of fragments of an event: unknown, or right from the first
\* fragment of the map on.
SizeInv ==
  /\ nDifs \in {0, NSources}
  /\ nDifs # 0 => \A k \in Keys : Len(eventMap[k]) # NSources
  /\ nDifs = 0 /\ eventMap # EmptyMap => (Polling => nregistered = 0)
  /\ eventMap # EmptyMap => bound /\ runs # 0
  /\ DsNumber # 0 /\ bound => nDifs = NSources

\* The first run: it reads the registrations itself, so that the number of
\* fragments is known from its first one on.
FirstRunInv ==
  /\ runs = 0 \/ (runs = 1 /\ thread = "created") => Counted = {}
  /\ runs <= 1 /\ Polling => nregistered = Cardinality(Counted)
  /\ runs <= 1 /\ nDifs = 0 => eventMap = EmptyMap

IInv ==
  /\ TypeOK
  /\ ThreadInv
  /\ RegistrationInv
  /\ PipeInv
  /\ MapInv
  /\ SizeInv
  /\ BuiltComplete
=============================================================================
