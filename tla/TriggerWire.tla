----------------------------- MODULE TriggerWire -----------------------------
(***************************************************************************)
(* What the trigger and the data source servers share: the PUB/SUB stream  *)
(* from zPublisher to every server's zSubscriber (src/zPublisher.cc,       *)
(* src/zSubscriber.cc) and the statistics a server answers to STATUS.      *)
(***************************************************************************)
EXTENDS Integers, Sequences, FiniteSets

CONSTANTS
  Servers,       (* the data source servers, all subscribed to the trigger   *)
  WordSize,      (* 2^32, the modulus of uint32_t                            *)
  MaxKey,        (* bound: bunch crossings are numbered 0..MaxKey            *)
  MaxRuns        (* bound: runs started                                      *)

ASSUME TriggerWireAssumption == WordSize \in Nat \ {0} /\ MaxKey \in Nat

VARIABLES
  wire,          \* bursts each server has not yet read, oldest first
  stat,          \* exServer::_stat, last event number each server published
  lost,          \* history: a burst did not reach some server
  up             \* the run control is past START and not yet at STOP

shared == <<wire, stat, lost, up>>

\* One trigger message: the first of ntrg consecutive triggers.  event counts
\* within a run, bx over all runs until a HALT.
Burst(event, bx, ntrg) == [event |-> event, bx |-> bx, ntrg |-> ntrg]

=============================================================================
