---------------------------- MODULE DeliveryQueue ----------------------------
(***************************************************************************)
(* What a disk buffer promises its plugin (docs/source/buffering.rst):     *)
(* messages are handed over in the order they were accepted, each until    *)
(* the plugin has finalized it, over again if need be after the plugin or  *)
(* the process went down.  QueueBuffer implements it.  A message may be    *)
(* passed over, once accepted: the code does that when a file is rolled at *)
(* the wrong moment, and nowhere else.                                     *)
(***************************************************************************)
EXTENDS Naturals, Sequences, Functions

CONSTANT Msgs       \* in the order in which they are offered

VARIABLES accepted,     \* messages in the queue's care, now or before
          hand,         \* what the plugin has and has not finalized
          done,         \* finalized, or dropped by the plugin
          passed        \* passed over

dvars == <<accepted, hand, done, passed>>

DInit == accepted = {} /\ hand = <<>> /\ done = {} /\ passed = {}

Accept ==
    /\ \E m \in Msgs : /\ \A q \in accepted : q < m
                       /\ accepted' = accepted \cup {m}
    /\ UNCHANGED <<hand, done, passed>>

\* Nothing that was accepted before m is left out, and none comes twice at a time.
MayGive(m) ==
    /\ \A i \in DOMAIN hand : hand[i] < m
    /\ \A q \in accepted : q < m => q \in done \cup passed \cup Range(hand)

Give ==
    /\ \E m \in accepted : MayGive(m) /\ hand' = Append(hand, m)
    /\ UNCHANGED <<accepted, done, passed>>

\* The plugin refuses the message for good.
Refuse ==
    /\ \E m \in accepted : MayGive(m) /\ done' = done \cup {m}
    /\ UNCHANGED <<accepted, hand, passed>>

Finalize ==
    /\ \E n \in DOMAIN hand :
          /\ hand' = SubSeq(hand, n + 1, Len(hand))
          /\ done' = done \cup {hand[i] : i \in 1..n}
    /\ UNCHANGED <<accepted, passed>>

\* The plugin, or the process, loses what it had.
Lose == hand' = <<>> /\ UNCHANGED <<accepted, done, passed>>

PassOver ==
    /\ \E S \in SUBSET accepted : passed' = passed \cup S
    /\ UNCHANGED <<accepted, hand, done>>

DNext == Accept \/ Give \/ Refuse \/ Finalize \/ Lose \/ PassOver

DSpec == DInit /\ [][DNext]_dvars
==============================================================================
