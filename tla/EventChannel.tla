---------------------------- MODULE EventChannel ----------------------------
(***************************************************************************)
(* What the ISR-deferred event path promises, with no ring, no indices, no *)
(* pump and no dropped counter: a first-in first-out queue of at most      *)
(* Depth events from which the oldest is lost when an event is raised on a *)
(* full queue, and which tells the reader, with each event delivered, how  *)
(* many events were lost since the previous one.                           *)
(*                                                                         *)
(* An event is identified by its serial number: event n is the n-th raised.*)
(***************************************************************************)
EXTENDS Integers, Sequences

CONSTANTS Depth,      \* most events held
          DropMax,    \* largest loss that can be reported
          MaxEvents   \* bound: how many events are raised

VARIABLES sent,       \* how many events were raised
          queue,      \* those that wait
          delivered   \* what the reader got: [event, missed], in order

vars == <<sent, queue, delivered>>

Clamp(n) == IF n < DropMax THEN n ELSE DropMax

LastDelivered ==
    IF delivered = <<>> THEN 0 ELSE delivered[Len(delivered)].event

Init == /\ sent = 0
        /\ queue = <<>>
        /\ delivered = <<>>

Raise == /\ sent < MaxEvents
         /\ sent' = sent + 1
         /\ queue' = Append(IF Len(queue) = Depth THEN Tail(queue) ELSE queue,
                            sent + 1)
         /\ UNCHANGED delivered

\* The loss is what the reader could work out by itself, were the serial
\* numbers visible: the gap between two consecutive events.
Deliver == /\ queue # <<>>
           /\ delivered' = Append(delivered,
                  [event  |-> Head(queue),
                   missed |-> Clamp(Head(queue) - LastDelivered - 1)])
           /\ queue' = Tail(queue)
           /\ UNCHANGED sent

Next == Raise \/ Deliver

Spec == Init /\ [][Next]_vars

FairSpec == Spec /\ WF_vars(Deliver)
=============================================================================
