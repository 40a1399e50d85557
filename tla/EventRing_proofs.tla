--------------------------- MODULE EventRing_proofs ---------------------------
(***************************************************************************)
(* Proofs about EventRing for every ring depth, every saturation point of  *)
(* the loss counter and any number of interrupts.                          *)
(***************************************************************************)
EXTENDS EventRing, SequenceTheorems, TLAPS

(* Arithmetic modulo Depth over the sums the ring computes: a slot plus an *)
(* offset of at most Depth.                                                *)
LEMMA ModDepth ==
    ASSUME NEW x \in 0 .. Depth - 1, NEW i \in 0 .. Depth
    PROVE  /\ (x + i) % Depth = IF x + i < Depth THEN x + i ELSE x + i - Depth
           /\ (x + i) % Depth \in Slots
<1>1. \A y \in 0 .. Depth - 1 : y % Depth = y
  BY DepthAssumption
<1>2. \A y \in 0 .. Depth - 1 : (y + Depth) % Depth = y
  BY DepthAssumption
<1>3. CASE x + i < Depth
  BY <1>1, <1>3, DepthAssumption DEF Slots
<1>4. CASE x + i >= Depth
  <2> DEFINE y == x + i - Depth
  <2>1. y \in 0 .. Depth - 1 /\ x + i = y + Depth
    BY <1>4, DepthAssumption
  <2>2. (x + i) % Depth = y
    BY <2>1, <1>2
  <2> QED
    BY <2>1, <2>2, <1>4, DepthAssumption DEF Slots
<1> QED
  BY <1>3, <1>4, DepthAssumption

(* No offset and a full turn both lead back to the slot.                   *)
LEMMA FullTurn ==
    ASSUME NEW x \in Slots
    PROVE  (x + 0) % Depth = x /\ (x + Depth) % Depth = x
<1>1. \A y \in 0 .. Depth - 1 : y % Depth = y /\ (y + Depth) % Depth = y
  BY DepthAssumption
<1>2. x + 0 = x /\ x \in 0 .. Depth - 1
  BY DepthAssumption DEF Slots
<1> QED
  BY <1>1, <1>2

(* Counting on from a slot wraps like the indices of the ring do.          *)
LEMMA NextSlotShift ==
    ASSUME NEW x \in Slots, NEW i \in 0 .. Depth - 1
    PROVE  /\ NextSlot(x) \in Slots
           /\ (NextSlot(x) + i) % Depth = (x + i + 1) % Depth
<1>1. x \in 0 .. Depth - 1 /\ 1 \in 0 .. Depth /\ i + 1 \in 0 .. Depth /\ i \in 0 .. Depth
  BY DepthAssumption DEF Slots
<1>2. NextSlot(x) = IF x + 1 < Depth THEN x + 1 ELSE x + 1 - Depth
  BY <1>1, ModDepth DEF NextSlot
<1>3. NextSlot(x) \in Slots
  BY <1>1, ModDepth DEF NextSlot
<1>4. (x + (i + 1)) % Depth = IF x + (i + 1) < Depth THEN x + (i + 1) ELSE x + (i + 1) - Depth
  BY <1>1, ModDepth
<1>5. (NextSlot(x) + i) % Depth
         = IF NextSlot(x) + i < Depth THEN NextSlot(x) + i ELSE NextSlot(x) + i - Depth
  BY <1>1, <1>3, ModDepth DEF Slots
<1>6. x + i + 1 = x + (i + 1)
  BY <1>1
<1> QED
  BY <1>1, <1>2, <1>3, <1>4, <1>5, <1>6, DepthAssumption DEF Slots

(* Two offsets below Depth name the same slot only if they are equal.      *)
LEMMA SlotsDistinct ==
    ASSUME NEW x \in Slots, NEW i \in 0 .. Depth - 1, NEW j \in 0 .. Depth - 1,
           (x + i) % Depth = (x + j) % Depth
    PROVE  i = j
<1>1. x \in 0 .. Depth - 1 /\ i \in 0 .. Depth /\ j \in 0 .. Depth
  BY DepthAssumption DEF Slots
<1>2. (x + i) % Depth = IF x + i < Depth THEN x + i ELSE x + i - Depth
  BY <1>1, ModDepth
<1>3. (x + j) % Depth = IF x + j < Depth THEN x + j ELSE x + j - Depth
  BY <1>1, ModDepth
<1> QED
  BY <1>1, <1>2, <1>3, DepthAssumption

(* The slot after the one at some offset is at the next offset.            *)
LEMMA NextSlotOffset ==
    ASSUME NEW x \in Slots, NEW i \in 0 .. Depth - 1
    PROVE  NextSlot((x + i) % Depth) = (x + (i + 1)) % Depth
<1> DEFINE y == (x + i) % Depth
<1>1. x \in 0 .. Depth - 1 /\ 1 \in 0 .. Depth /\ i + 1 \in 0 .. Depth /\ i \in 0 .. Depth
  BY DepthAssumption DEF Slots
<1>2. y \in Slots /\ y = IF x + i < Depth THEN x + i ELSE x + i - Depth
  BY <1>1, ModDepth
<1>3. NextSlot(y) = IF y + 1 < Depth THEN y + 1 ELSE y + 1 - Depth
  BY <1>1, <1>2, ModDepth DEF NextSlot, Slots
<1>4. (x + (i + 1)) % Depth
         = IF x + (i + 1) < Depth THEN x + (i + 1) ELSE x + (i + 1) - Depth
  BY <1>1, ModDepth
<1> QED
  BY <1>1, <1>2, <1>3, <1>4, DepthAssumption DEF Slots

-------------------------------------------------------------------------------
(* The last line of an extended output is the line appended.               *)
LEMMA AppendOut ==
    ASSUME NEW s \in Seq(Line), NEW e \in Line
    PROVE  /\ Append(s, e) \in Seq(Line)
           /\ Len(Append(s, e)) = Len(s) + 1
           /\ Len(s) \in Nat
           /\ \A k \in 1 .. Len(s) : Append(s, e)[k] = s[k]
           /\ Append(s, e)[Len(s) + 1] = e
           /\ Append(s, e) # <<>>
OBVIOUS

(* Every variable keeps its type: no index leaves the ring, the count      *)
(* never exceeds the depth, the counter never leaves the range of an int.  *)
LEMMA TypeInductive == TypeOK /\ [Next]_vars => TypeOK'
<1> SUFFICES ASSUME TypeOK, [Next]_vars PROVE TypeOK'
  OBVIOUS
<1> USE DepthAssumption, DropMaxAssumption
<1>0. NextSlot(head) \in Slots /\ NextSlot(tail) \in Slots
  <2>1. 0 \in 0 .. Depth - 1
    OBVIOUS
  <2> QED
    BY <2>1, NextSlotShift DEF TypeOK
<1>1. CASE EnqueueRoom
  BY <1>1, <1>0 DEF TypeOK, EnqueueRoom, Write
<1>2. CASE EnqueueFull
  BY <1>2, <1>0 DEF TypeOK, EnqueueFull, Write, Bump
<1>3. CASE CallFlush
  BY <1>3 DEF TypeOK, CallFlush, ringVars
<1>4. CASE Pop
  BY <1>4, <1>0 DEF TypeOK, Pop, HaveRecord, TakeLosses
<1>5. CASE FlushDone
  BY <1>5 DEF TypeOK, FlushDone, ringVars
<1>6. CASE EmitLine
  <2>1. [event |-> rec, missed |-> snap] \in Line
    BY DEF TypeOK, Line
  <2>2. out' \in Seq(Line)
    BY <1>6, <2>1, AppendOut DEF TypeOK, EmitLine
  <2> QED
    BY <1>6, <2>2 DEF TypeOK, EmitLine, ringVars
<1>7. CASE UNCHANGED vars
  BY <1>7 DEF TypeOK, vars
<1> QED
  BY <1>1, <1>2, <1>3, <1>4, <1>5, <1>6, <1>7 DEF Next, Enqueue, Pump

(* TypeOK holds of every reachable state, for every depth.                 *)
THEOREM TypeCorrect == Spec => []TypeOK
<1>1. Init => TypeOK
  BY DepthAssumption, DropMaxAssumption DEF Init, TypeOK, Slots
<1> QED
  BY <1>1, TypeInductive, PTL DEF Spec

(* While losses wait to be reported a record waits that will carry them:   *)
(* an enqueue counts a loss only on a full ring and leaves it full, and a  *)
(* pop takes the whole count with the record.                              *)
THEOREM LossesCarried == Spec => []DropsHaveCarrier
<1>1. Init => DropsHaveCarrier
  BY DEF Init, DropsHaveCarrier
<1>2. TypeOK /\ DropsHaveCarrier /\ [Next]_vars => DropsHaveCarrier'
  BY DepthAssumption
  DEF TypeOK, DropsHaveCarrier, Next, vars, ringVars, Enqueue, EnqueueRoom,
      EnqueueFull, Write, Pump, CallFlush, Pop, HaveRecord, TakeLosses, FlushDone, EmitLine
<1> QED
  BY <1>1, <1>2, TypeCorrect, PTL DEF Spec

-------------------------------------------------------------------------------
(* The parts of IInv speak of disjoint things, and each enqueue or pop     *)
(* disturbs only some of them.                                             *)
LEMMA EnqueueRoomQueue ==
    ASSUME TypeOK, QueueIsNewest, EnqueueRoom
    PROVE  QueueIsNewest'
<1> USE DepthAssumption
<1>1. count \in 0 .. Depth - 1 /\ tail \in Slots /\ tail' = tail /\ count' = count + 1
  BY DEF TypeOK, EnqueueRoom
<1>2. head' = (tail' + count') % Depth
  BY <1>1, NextSlotOffset DEF QueueIsNewest, EnqueueRoom, Write
<1>3. ASSUME NEW i \in 0 .. count' - 1
      PROVE  Queued(i)' = enq' - count' + 1 + i
  <2>1. (tail + i) % Depth \in Slots
    BY <1>1, <1>3, ModDepth DEF Slots
  <2>2. Queued(i)' = IF (tail + i) % Depth = head THEN enq + 1 ELSE Queued(i)
    BY <1>1, <2>1 DEF Queued, EnqueueRoom, Write, TypeOK
  <2>3. CASE i = count
    BY <1>1, <2>2, <2>3 DEF QueueIsNewest, EnqueueRoom, Write, TypeOK
  <2>4. CASE i # count
    <3>1. i \in 0 .. count - 1 /\ i \in 0 .. Depth - 1
      BY <1>1, <1>3, <2>4
    <3>2. (tail + i) % Depth # head
      BY <1>1, <3>1, <2>4, SlotsDistinct DEF QueueIsNewest
    <3> QED
      BY <1>1, <2>2, <3>1, <3>2 DEF QueueIsNewest, EnqueueRoom, Write, TypeOK
  <2> QED
    BY <2>3, <2>4
<1> QED
  BY <1>2, <1>3 DEF QueueIsNewest

LEMMA EnqueueFullQueue ==
    ASSUME TypeOK, QueueIsNewest, EnqueueFull
    PROVE  QueueIsNewest'
<1> USE DepthAssumption
<1>1. /\ count = Depth /\ count' = Depth
      /\ tail \in Slots /\ tail' = NextSlot(tail) /\ tail' \in Slots
      /\ 0 \in 0 .. Depth - 1 /\ Depth - 1 \in 0 .. Depth - 1
  BY NextSlotShift DEF TypeOK, EnqueueFull, Write
<1>2. head = tail
  BY <1>1, FullTurn DEF QueueIsNewest
<1>3. head' = (tail' + count') % Depth
  <2>1. (tail' + Depth) % Depth = tail'
    BY <1>1, FullTurn
  <2> QED
    BY <1>1, <1>2, <2>1 DEF EnqueueFull, Write
<1>4. ASSUME NEW i \in 0 .. count' - 1
      PROVE  Queued(i)' = enq' - count' + 1 + i
  <2>1. i \in 0 .. Depth - 1 /\ i + 1 \in 0 .. Depth
    BY <1>1, <1>4
  <2>2. (tail' + i) % Depth = (tail + (i + 1)) % Depth
    <3>1. tail + i + 1 = tail + (i + 1)
      BY <1>1, <2>1 DEF Slots
    <3> QED
      BY <1>1, <2>1, <3>1, NextSlotShift
  <2>3. (tail + (i + 1)) % Depth \in Slots
    BY <1>1, <2>1, ModDepth DEF Slots
  <2>4. Queued(i)' = IF (tail + (i + 1)) % Depth = tail THEN enq + 1 ELSE Queued(i + 1)
    BY <1>2, <2>2, <2>3 DEF Queued, EnqueueFull, Write, TypeOK
  <2>5. CASE i = Depth - 1
    <3>1. i + 1 = Depth
      BY <2>5
    <3>2. (tail + (i + 1)) % Depth = tail
      BY <1>1, <3>1, FullTurn
    <3> QED
      BY <1>1, <2>4, <2>5, <3>2 DEF EnqueueFull, Write, TypeOK
  <2>6. CASE i # Depth - 1
    <3>1. i + 1 \in 0 .. Depth - 1 /\ i + 1 # 0
      BY <2>1, <2>6
    <3>2. (tail + 0) % Depth = tail
      BY <1>1, FullTurn
    <3>3. (tail + (i + 1)) % Depth # tail
      BY <1>1, <3>1, <3>2, SlotsDistinct
    <3>4. Queued(i + 1) = enq - count + 1 + (i + 1)
      BY <1>1, <3>1 DEF QueueIsNewest
    <3> QED
      BY <1>1, <2>1, <2>4, <3>3, <3>4 DEF EnqueueFull, Write, TypeOK
  <2> QED
    BY <2>5, <2>6
<1> QED
  BY <1>3, <1>4 DEF QueueIsNewest

LEMMA PopQueue ==
    ASSUME TypeOK, QueueIsNewest, Pop
    PROVE  QueueIsNewest' /\ rec' = enq - count + 1
<1> USE DepthAssumption
<1>1. /\ count \in 1 .. Depth /\ count' = count - 1 /\ count - 1 \in 0 .. Depth - 1
      /\ tail \in Slots /\ tail' = NextSlot(tail) /\ tail' \in Slots
      /\ 0 \in 0 .. Depth - 1 /\ 0 \in 0 .. count - 1
  BY NextSlotShift DEF TypeOK, Pop, HaveRecord
<1>2. head' = (tail' + count') % Depth
  <2>1. (tail' + count') % Depth = (tail + (count - 1) + 1) % Depth
    BY <1>1, NextSlotShift
  <2>2. tail + (count - 1) + 1 = tail + count
    BY <1>1 DEF Slots
  <2> QED
    BY <2>1, <2>2 DEF QueueIsNewest, Pop
<1>3. ASSUME NEW i \in 0 .. count' - 1
      PROVE  Queued(i)' = enq' - count' + 1 + i
  <2>1. i \in 0 .. Depth - 1 /\ i + 1 \in 0 .. count - 1
    BY <1>1, <1>3
  <2>2. (tail' + i) % Depth = (tail + (i + 1)) % Depth
    <3>1. tail + i + 1 = tail + (i + 1)
      BY <1>1, <2>1 DEF Slots
    <3> QED
      BY <1>1, <2>1, <3>1, NextSlotShift
  <2>3. Queued(i)' = Queued(i + 1)
    BY <2>2 DEF Queued, Pop
  <2> QED
    BY <1>1, <2>1, <2>3 DEF QueueIsNewest, Pop, TypeOK
<1>4. rec' = Queued(0)
  <2>1. (tail + 0) % Depth = tail
    BY <1>1, FullTurn
  <2> QED
    BY <2>1 DEF Pop, Queued
<1> QED
  BY <1>1, <1>2, <1>3, <1>4 DEF QueueIsNewest, TypeOK

-------------------------------------------------------------------------------
(* One step of the ring keeps the invariant: the loss counter is exact     *)
(* because a record is lost only at the tail, right behind the last one    *)
(* popped, and because a pop takes the count in its own critical section.  *)
LEMMA IInvInductive == IInv /\ [Next]_vars => IInv'
<1> SUFFICES ASSUME IInv, [Next]_vars PROVE IInv'
  OBVIOUS
<1> USE DepthAssumption, DropMaxAssumption
<1>1. TypeOK'
  BY TypeInductive DEF IInv
<1>2. TypeOK /\ QueueIsNewest /\ LossExact /\ InFlight /\ GapExact
  BY DEF IInv
<1>3. CASE EnqueueRoom
  <2>1. QueueIsNewest'
    BY <1>2, <1>3, EnqueueRoomQueue
  <2>2. LossExact'
    BY <1>2, <1>3 DEF LossExact, Clamp, EnqueueRoom, Write, TypeOK
  <2>3. InFlight' /\ GapExact'
    BY <1>2, <1>3 DEF InFlight, GapExact, LastOut, Clamp, EnqueueRoom, Write
  <2> QED
    BY <1>1, <2>1, <2>2, <2>3 DEF IInv
<1>4. CASE EnqueueFull
  <2>1. QueueIsNewest'
    BY <1>2, <1>4, EnqueueFullQueue
  <2>2. LossExact'
    BY <1>2, <1>4 DEF LossExact, Clamp, Bump, EnqueueFull, Write, TypeOK
  <2>3. InFlight' /\ GapExact'
    BY <1>2, <1>4 DEF InFlight, GapExact, LastOut, Clamp, EnqueueFull, Write
  <2> QED
    BY <1>1, <2>1, <2>2, <2>3 DEF IInv
<1>5. CASE Pop
  <2>1. QueueIsNewest' /\ rec' = enq - count + 1
    BY <1>2, <1>5, PopQueue
  <2>2. LossExact'
    BY <1>2, <1>5, <2>1 DEF LossExact, Clamp, Pop, TakeLosses, TypeOK
  <2>3. InFlight'
    <3>1. LastOut' = rec /\ pc' = "emit"
      BY <1>2, <1>5 DEF InFlight, Pop, LastOut
    <3>2. snap' = Clamp(enq - count - rec) /\ rec <= enq - count
      BY <1>2, <1>5 DEF LossExact, Pop, TakeLosses
    <3> QED
      BY <1>2, <2>1, <3>1, <3>2 DEF InFlight, Clamp, TypeOK
  <2>4. GapExact'
    BY <1>2, <1>5 DEF GapExact, Clamp, Pop
  <2> QED
    BY <1>1, <2>1, <2>2, <2>3, <2>4 DEF IInv
<1>6. CASE EmitLine
  <2> DEFINE e == [event |-> rec, missed |-> snap]
  <2>1. e \in Line /\ out \in Seq(Line) /\ out' = Append(out, e)
    BY <1>2, <1>6 DEF TypeOK, Line, EmitLine
  <2>2. QueueIsNewest' /\ LossExact'
    BY <1>2, <1>6 DEF QueueIsNewest, Queued, LossExact, Clamp, EmitLine, ringVars
  <2>3. LastOut' = rec /\ LastOut < rec /\ snap = Clamp(rec - LastOut - 1)
    BY <1>2, <1>6, <2>1, AppendOut DEF LastOut, InFlight, EmitLine
  <2>4. InFlight'
    BY <1>6, <2>3 DEF InFlight, EmitLine
  <2>5. GapExact'
    <3> SUFFICES ASSUME NEW k \in 1 .. Len(out')
                 PROVE  LET before == IF k = 1 THEN 0 ELSE out'[k - 1].event
                        IN  /\ before < out'[k].event
                            /\ out'[k].missed = Clamp(out'[k].event - before - 1)
      BY DEF GapExact, Clamp
    <3>1. Len(out') = Len(out) + 1 /\ Len(out) \in Nat
      BY <2>1, AppendOut
    <3>2. CASE k \in 1 .. Len(out)
      <4>1. out'[k] = out[k] /\ (k # 1 => out'[k - 1] = out[k - 1])
        BY <2>1, <3>1, <3>2, AppendOut
      <4> QED
        BY <1>2, <3>2, <4>1 DEF GapExact
    <3>3. CASE k = Len(out) + 1
      <4>1. out'[k] = e
        BY <2>1, <3>3, AppendOut
      <4>2. k # 1 => out'[k - 1] = out[Len(out)] /\ out # <<>>
        BY <2>1, <3>1, <3>3, AppendOut
      <4>3. k = 1 => out = <<>>
        BY <2>1, <3>1, <3>3
      <4>4. LastOut = IF k = 1 THEN 0 ELSE out'[k - 1].event
        BY <4>2, <4>3 DEF LastOut
      <4> QED
        BY <2>3, <4>1, <4>4
    <3> QED
      BY <3>1, <3>2, <3>3
  <2> QED
    BY <1>1, <2>2, <2>4, <2>5 DEF IInv
<1>7. CASE CallFlush \/ FlushDone
  BY <1>1, <1>2, <1>7 DEF IInv, QueueIsNewest, Queued, LossExact, InFlight,
     GapExact, LastOut, Clamp, CallFlush, FlushDone, ringVars
<1>8. CASE UNCHANGED vars
  BY <1>1, <1>2, <1>8 DEF IInv, QueueIsNewest, Queued, LossExact, InFlight,
     GapExact, LastOut, Clamp, vars
<1> QED
  BY <1>3, <1>4, <1>5, <1>6, <1>7, <1>8 DEF Next, Enqueue, Pump

LEMMA IInvInvariant == Spec => []IInv
<1>1. Init => IInv
  <2> SUFFICES ASSUME Init PROVE IInv
    OBVIOUS
  <2> USE DepthAssumption, DropMaxAssumption
  <2>1. TypeOK
    BY DEF Init, TypeOK, Slots
  <2>2. QueueIsNewest
    <3>1. 0 \in Slots
      BY DEF Slots
    <3>2. (0 + 0) % Depth = 0
      BY <3>1, FullTurn
    <3> QED
      BY <3>2 DEF Init, QueueIsNewest
  <2>3. LossExact /\ InFlight /\ GapExact
    BY DEF Init, LossExact, InFlight, GapExact, Clamp, LastOut
  <2> QED
    BY <2>1, <2>2, <2>3 DEF IInv
<1> QED
  BY <1>1, IInvInductive, PTL DEF Spec

(* The ring holds exactly the newest records, in order.                    *)
THEOREM RingHoldsNewest == Spec => []QueueIsNewest
<1>1. IInv => QueueIsNewest
  BY DEF IInv
<1> QED
  BY <1>1, IInvInvariant, PTL

(* Event lines come out in order, none twice, and each "_dropped" is the   *)
(* exact number of records lost since the line before it.                  *)
THEOREM LossReportsExact == Spec => []GapExact
<1>1. IInv => GapExact
  BY DEF IInv
<1> QED
  BY <1>1, IInvInvariant, PTL

-------------------------------------------------------------------------------
(* Refinement of EventChannel.  The queue of the channel is an interval of *)
(* serial numbers, on which Append, Head and Tail are arithmetic.          *)
Interval(a, n) == [i \in 1 .. n |-> a + i]

LEMMA IntervalOps ==
    ASSUME NEW a \in Int, NEW n \in Nat
    PROVE  /\ Interval(a, n) \in Seq(Int)
           /\ Len(Interval(a, n)) = n
           /\ Append(Interval(a, n), a + n + 1) = Interval(a, n + 1)
           /\ n > 0 => /\ Interval(a, n) # <<>>
                       /\ Head(Interval(a, n)) = a + 1
                       /\ Tail(Interval(a, n)) = Interval(a + 1, n - 1)
<1>1. Interval(a, n) \in Seq(Int) /\ Len(Interval(a, n)) = n
  BY DEF Interval
<1>2. Append(Interval(a, n), a + n + 1) = Interval(a, n + 1)
  BY <1>1 DEF Interval
<1>3. ASSUME n > 0
      PROVE  /\ Interval(a, n) # <<>>
             /\ Head(Interval(a, n)) = a + 1
             /\ Tail(Interval(a, n)) = Interval(a + 1, n - 1)
  <2>1. Interval(a, n) # <<>> /\ Interval(a, n)[1] = a + 1
    BY <1>1, <1>3 DEF Interval
  <2> DEFINE t == Tail(Interval(a, n))
  <2>2. /\ t \in Seq(Int)
        /\ Len(t) = n - 1
        /\ \A i \in 1 .. n - 1 : t[i] = Interval(a, n)[i + 1]
    BY <1>1, <2>1, HeadTailProperties
  <2>3. \A i \in 1 .. n - 1 : Interval(a, n)[i + 1] = (a + 1) + i
    BY DEF Interval
  <2>4. /\ Interval(a + 1, n - 1) \in Seq(Int)
        /\ Len(Interval(a + 1, n - 1)) = n - 1
        /\ \A i \in 1 .. n - 1 : Interval(a + 1, n - 1)[i] = (a + 1) + i
    BY <1>3 DEF Interval
  <2>5. t = Interval(a + 1, n - 1)
    <3> HIDE DEF t
    <3> QED
      BY <2>2, <2>3, <2>4, SeqEqual
  <2> QED
    BY <1>1, <2>1, <2>5
<1> QED
  BY <1>1, <1>2, <1>3

LEMMA ContentsInterval ==
    TypeOK /\ QueueIsNewest => Contents = Interval(enq - count, count)
<1> SUFFICES ASSUME TypeOK, QueueIsNewest
             PROVE  Contents = Interval(enq - count, count)
  OBVIOUS
<1>1. \A i \in 1 .. count : Queued(i - 1) = enq - count + i
  BY DEF TypeOK, QueueIsNewest
<1> QED
  BY <1>1 DEF Contents, Interval

LEMMA StepRefines == IInv /\ IInv' /\ [Next]_vars => [Channel!Next]_(Channel!vars)
<1> SUFFICES ASSUME IInv, IInv', [Next]_vars
             PROVE  [Channel!Next]_(Channel!vars)
  OBVIOUS
<1> USE DepthAssumption, DropMaxAssumption
<1>1. TypeOK /\ QueueIsNewest /\ LossExact /\ InFlight
  BY DEF IInv
<1>2. Contents = Interval(enq - count, count)
  BY <1>1, ContentsInterval
<1>3. Contents' = Interval(enq' - count', count')
  <2>1. (TypeOK /\ QueueIsNewest => Contents = Interval(enq - count, count))'
    BY ContentsInterval, PTL
  <2>2. (TypeOK /\ QueueIsNewest)'
    BY DEF IInv
  <2> QED
    BY <2>1, <2>2 DEF Interval
<1>4. Len(Contents) = count /\ enq - count \in Int /\ count \in Nat
  BY <1>1, <1>2, IntervalOps DEF TypeOK
<1>5. CASE EnqueueRoom
  <2>1. Contents' = Append(Contents, enq + 1)
    <3>1. /\ enq' - count' = enq - count
          /\ count' = count + 1
          /\ enq - count + count + 1 = enq + 1
      BY <1>1, <1>5 DEF TypeOK, EnqueueRoom, Write
    <3>2. Append(Contents, enq - count + count + 1) = Interval(enq - count, count + 1)
      BY <1>2, <1>4, IntervalOps
    <3> QED
      BY <1>3, <3>1, <3>2
  <2>2. Decided' = Decided
    BY <1>5 DEF Decided, EnqueueRoom, Write
  <2> QED
    BY <1>4, <1>5, <2>1, <2>2 DEF EnqueueRoom, Write, Channel!Next, Channel!Raise
<1>6. CASE EnqueueFull
  <2>1. Tail(Contents) = Interval(enq - count + 1, count - 1)
    <3>1. count > 0
      BY <1>6 DEF EnqueueFull
    <3> QED
      BY <1>2, <1>4, <3>1, IntervalOps
  <2>2. Contents' = Append(Tail(Contents), enq + 1)
    <3>1. /\ enq' - count' = enq - count + 1
          /\ count' = (count - 1) + 1
          /\ count - 1 \in Nat
          /\ (enq - count + 1) + (count - 1) + 1 = enq + 1
          /\ enq - count + 1 \in Int
      BY <1>1, <1>6 DEF TypeOK, EnqueueFull, Write
    <3>2. Append(Interval(enq - count + 1, count - 1),
                 (enq - count + 1) + (count - 1) + 1)
            = Interval(enq - count + 1, (count - 1) + 1)
      BY <3>1, IntervalOps
    <3> QED
      BY <1>3, <2>1, <3>1, <3>2
  <2>3. Decided' = Decided
    BY <1>6 DEF Decided, EnqueueFull, Write
  <2> QED
    BY <1>4, <1>6, <2>2, <2>3 DEF EnqueueFull, Write, Channel!Next, Channel!Raise
<1>7. CASE Pop
  <2>1. rec' = enq - count + 1
    BY <1>1, <1>7, PopQueue
  <2>2. /\ Contents # <<>>
        /\ Head(Contents) = rec'
        /\ Tail(Contents) = Interval(enq - count + 1, count - 1)
    BY <1>2, <1>4, <1>7, <2>1, IntervalOps DEF Pop, HaveRecord
  <2>3. Contents' = Tail(Contents)
    <3>1. enq' - count' = enq - count + 1 /\ count' = count - 1
      BY <1>1, <1>7 DEF TypeOK, Pop, HaveRecord
    <3> QED
      BY <1>3, <2>2, <3>1
  <2>4. Decided = out /\ Decided' = Append(out, [event |-> rec', missed |-> snap'])
    BY <1>7 DEF Decided, Pop
  <2>5. Channel!LastDelivered = rec
    BY <1>1, <1>7, <2>4 DEF Channel!LastDelivered, InFlight, LastOut, Pop
  <2>6. snap' = Channel!Clamp(rec' - rec - 1)
    <3>1. rec' - rec - 1 = enq - count - rec
      BY <1>1, <2>1 DEF TypeOK
    <3> QED
      BY <1>1, <1>7, <3>1 DEF LossExact, Clamp, Channel!Clamp, Pop, TakeLosses
  <2> QED
    BY <1>7, <2>2, <2>3, <2>4, <2>5, <2>6 DEF Pop, Channel!Next, Channel!Deliver
<1>8. CASE EmitLine
  BY <1>8 DEF EmitLine, ringVars, Decided, Contents, Queued, Channel!vars
<1>9. CASE CallFlush \/ FlushDone \/ UNCHANGED vars
  BY <1>9 DEF CallFlush, FlushDone, vars, ringVars, Decided, Contents, Queued,
     Channel!vars
<1> QED
  BY <1>5, <1>6, <1>7, <1>8, <1>9 DEF Next, Enqueue, Pump

(* Whatever the depth, the ring behaves as the lossy channel that reports  *)
(* every gap: each step of the ring is a step of the channel or none.      *)
THEOREM ImplementsChannelSafety == Spec => Channel!Spec
<1>1. Init => Channel!Init
  <2>1. Init => Contents = <<>>
    BY DEF Init, Contents
  <2> QED
    BY <2>1 DEF Init, Decided, Channel!Init
<1>2. IInv /\ IInv' /\ [Next]_vars => [Channel!Next]_(Channel!vars)
  BY StepRefines
<1> QED
  BY <1>1, <1>2, IInvInvariant, PTL DEF Spec, Channel!Spec
===============================================================================
