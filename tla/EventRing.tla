------------------------------ MODULE EventRing ------------------------------
(***************************************************************************)
(* The ISR-deferred event ring of src/riglink_io.c and the flush that      *)
(* drains it at the top of rig_run().  Interrupts enqueue at any moment at *)
(* which the IRQ lock is not held, in particular between the pop of a      *)
(* record and the emission of its line.                                    *)
(*                                                                         *)
(* A record is its serial number: record n was enqueued n-th (0 stands for *)
(* the zeroed slot of the static array).  Its name and its integer pairs   *)
(* play no role in the ring.                                               *)
(***************************************************************************)
EXTENDS Integers, Sequences

CONSTANTS Depth,      \* RIG_EVENT_QUEUE_DEPTH
          DropMax,    \* INT32_MAX, where g_evt_dropped stops counting
          MaxEvents   \* bound: how many times interrupts enqueue

ASSUME DepthAssumption     == Depth \in Nat \ {0}
ASSUME DropMaxAssumption   == DropMax \in Nat \ {0}
ASSUME MaxEventsAssumption == MaxEvents \in Nat

VARIABLES ring,       \* g_evt_ring
          head,       \* g_evt_head, the next slot to write
          tail,       \* g_evt_tail, the next slot to read
          count,      \* g_evt_count, records queued
          dropped,    \* g_evt_dropped, losses not yet taken by the flush
          pc,         \* where the pump is, see Pump below
          rec,        \* the flush's local copy of the last record popped
          snap,       \* the flush's local copy of g_evt_dropped
          enq,        \* history: records enqueued so far
          out         \* history: event lines emitted, [event, missed]

ringVars == <<ring, head, tail, count, dropped>>
vars     == <<ring, head, tail, count, dropped, pc, rec, snap, enq, out>>

Slots == 0 .. Depth - 1

-----------------------------------------------------------------------------
\* Fault: the index is not wrapped.
NextSlotUnwrapped(i) == i + 1

NextSlot(i) == (i + 1) % Depth

\* Fault: the loss counter wraps instead of saturating.
BumpWraps(d) == (d + 1) % (DropMax + 1)

Bump(d) == IF d < DropMax THEN d + 1 ELSE d

Init == /\ ring = [s \in Slots |-> 0]
        /\ head = 0
        /\ tail = 0
        /\ count = 0
        /\ dropped = 0
        /\ pc = "pump"
        /\ rec = 0
        /\ snap = 0
        /\ enq = 0
        /\ out = <<>>

(***************************************************************************)
(* rig_io_event_enqueue(): one critical section.                           *)
(***************************************************************************)
Write == /\ enq < MaxEvents
         /\ ring' = [ring EXCEPT ![head] = enq + 1]
         /\ head' = NextSlot(head)
         /\ enq' = enq + 1
         /\ UNCHANGED <<pc, rec, snap, out>>

EnqueueRoom == /\ count # Depth
               /\ Write
               /\ count' = count + 1
               /\ UNCHANGED <<tail, dropped>>

\* Fault: the oldest record is counted as lost but stays the next to be read.
EnqueueFullKeepsTail == /\ count = Depth
                        /\ Write
                        /\ dropped' = Bump(dropped)
                        /\ UNCHANGED <<tail, count>>

EnqueueFull == /\ count = Depth
               /\ Write
               /\ tail' = NextSlot(tail)
               /\ dropped' = Bump(dropped)
               /\ UNCHANGED count

Enqueue == EnqueueRoom \/ EnqueueFull

(***************************************************************************)
(* rig_io_event_flush(), as rig_run() calls it: "pump" is any point of the *)
(* pump's loop outside the flush, "flush" the head of its for(;;), "emit"  *)
(* the stretch between the IRQ unlock and the end of the event line.       *)
(***************************************************************************)
CallFlush == /\ pc = "pump"
             /\ pc' = "flush"
             /\ UNCHANGED <<ringVars, rec, snap, enq, out>>

\* Fault: the last record is taken for an empty ring.
HaveRecordOffByOne == count > 1

HaveRecord == count > 0

\* Fault: the losses are reported but not reset.
TakeLossesKeeps == /\ snap' = dropped
                   /\ UNCHANGED dropped

TakeLosses == /\ snap' = dropped
              /\ dropped' = 0

Pop == /\ pc = "flush"
       /\ HaveRecord
       /\ rec' = ring[tail]
       /\ tail' = NextSlot(tail)
       /\ count' = count - 1
       /\ TakeLosses
       /\ pc' = "emit"
       /\ UNCHANGED <<ring, head, enq, out>>

FlushDone == /\ pc = "flush"
             /\ ~HaveRecord
             /\ pc' = "pump"
             /\ UNCHANGED <<ringVars, rec, snap, enq, out>>

\* Fault: the loss counter is reset where the line is printed, not under the
\* lock under which it was read.
EmitLineResets == /\ pc = "emit"
                  /\ out' = Append(out, [event |-> rec, missed |-> snap])
                  /\ dropped' = 0
                  /\ pc' = "flush"
                  /\ UNCHANGED <<ring, head, tail, count, rec, snap, enq>>

EmitLine == /\ pc = "emit"
            /\ out' = Append(out, [event |-> rec, missed |-> snap])
            /\ pc' = "flush"
            /\ UNCHANGED <<ringVars, rec, snap, enq>>

Pump == CallFlush \/ Pop \/ FlushDone \/ EmitLine

Next == Enqueue \/ Pump

Spec == Init /\ [][Next]_vars

\* rig_run() is called forever by the pump thread (or the flush by the work
\* item, which reschedules itself).  Interrupts owe nothing.
FairSpec == Spec /\ WF_vars(Pump)

-----------------------------------------------------------------------------
Line == [event : Nat, missed : 0 .. DropMax]

TypeOK == /\ ring \in [Slots -> Nat]
          /\ head \in Slots
          /\ tail \in Slots
          /\ count \in 0 .. Depth
          /\ dropped \in 0 .. DropMax
          /\ pc \in {"pump", "flush", "emit"}
          /\ rec \in Nat
          /\ snap \in 0 .. DropMax
          /\ enq \in Nat
          /\ out \in Seq(Line)

Clamp(n) == IF n < DropMax THEN n ELSE DropMax

\* The record i places behind the oldest one.
Queued(i) == ring[(tail + i) % Depth]

LastOut == IF out = <<>> THEN 0 ELSE out[Len(out)].event

(***************************************************************************)
(* The ring holds exactly the newest records, oldest first: an enqueue on  *)
(* a full ring costs the oldest record and no other, and no slot is read   *)
(* twice or skipped, whatever the interrupts do between a pop and its line.*)
(***************************************************************************)
QueueIsNewest ==
    /\ head = (tail + count) % Depth
    /\ \A i \in 0 .. count - 1 : Queued(i) = enq - count + 1 + i

(***************************************************************************)
(* Each event line tells the truth about what was lost before it: the      *)
(* events come out in the order they were enqueued, none twice, and the    *)
(* "_dropped" of a line is the number of records missing between it and    *)
(* the line before (INT32_MAX if more), although the counter is taken      *)
(* under one lock and printed after it, while interrupts go on counting.   *)
(***************************************************************************)
GapExact ==
    \A k \in 1 .. Len(out) :
        LET before == IF k = 1 THEN 0 ELSE out[k - 1].event
        IN  /\ before < out[k].event
            /\ out[k].missed = Clamp(out[k].event - before - 1)

(***************************************************************************)
(* A loss is never stranded: the flush prints "_dropped" only on the line  *)
(* of a record, so while losses wait a record must wait to carry them.     *)
(***************************************************************************)
DropsHaveCarrier == dropped > 0 => count > 0

(***************************************************************************)
(* Every enqueued event is eventually either printed or counted in the     *)
(* "_dropped" of a printed line (by GapExact, once a later event is out).  *)
(***************************************************************************)
EventuallyAccounted ==
    \A n \in 1 .. MaxEvents : enq >= n ~> LastOut >= n

(***************************************************************************)
(* The ring implements the lossy channel: from the moment a record is      *)
(* popped its delivery is decided, with the losses taken in the same       *)
(* critical section.                                                       *)
(***************************************************************************)
Contents == [i \in 1 .. count |-> Queued(i - 1)]

Decided == IF pc = "emit" THEN Append(out, [event |-> rec, missed |-> snap])
                          ELSE out

Channel == INSTANCE EventChannel
               WITH sent <- enq, queue <- Contents, delivered <- Decided

ImplementsChannel == Channel!FairSpec

(***************************************************************************)
(* The inductive invariant behind the theorems of EventRing_proofs.        *)
(***************************************************************************)
LossExact ==
    /\ rec <= enq - count
    /\ dropped = Clamp(enq - count - rec)

InFlight ==
    IF pc = "emit" THEN /\ LastOut < rec
                        /\ snap = Clamp(rec - LastOut - 1)
                   ELSE rec = LastOut

IInv == TypeOK /\ QueueIsNewest /\ LossExact /\ InFlight /\ GapExact
=============================================================================
