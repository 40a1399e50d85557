------------------------- MODULE HostDelivery_proofs -------------------------
(***************************************************************************)
(* Proofs about HostDevice, continued: what happens to answers, events and *)
(* malformed lines between the wire and the application.  The theorems     *)
(* rest on what a step does to the queues (Thinned, Grown) and each on an  *)
(* invariant of its own: Order and Settled for the answers, Deque for the  *)
(* events, Halves for the lines that reboots cut short.                    *)
(***************************************************************************)
EXTENDS HostDevice_proofs

USE ThreadsAssumption, BoundsAssumption

-----------------------------------------------------------------------------
(* What a step does to the queues.  Lines go away from the front or all at *)
(* once, may be damaged on the way, and come to the end; so do requests    *)
(* and answers.                                                            *)
Rest(new, old) ==
    \E d \in Nat : \A k \in DOMAIN new : k + d \in DOMAIN old /\ new[k] = old[k + d]

SameBut(new, old) == new.n = old.n /\ new.kind \in {old.kind, "damaged"}

Thinned ==
    \E d \in Nat : \A k \in DOMAIN toHost' :
        k + d \in DOMAIN toHost /\ SameBut(toHost'[k], toHost[k + d])

Grown(line) ==
    \A k \in DOMAIN toHost' :
        \/ k \in DOMAIN toHost /\ toHost'[k] = toHost[k]
        \/ /\ \A j \in DOMAIN toHost : j < k
           /\ toHost'[k].kind = "fragment" \/ (k = Len(toHost') /\ toHost'[k] = line)

LEMMA RestOf ==
    ASSUME NEW S, NEW s \in Seq(S)
    PROVE  /\ Rest(s, s) /\ Rest(<<>>, s)
           /\ s # <<>> => Rest(Tail(s), s)
<1>1. Rest(s, s)
  <2>1. \A k \in DOMAIN s : k + 0 = k
    BY LenProperties
  <2> QED
    BY <2>1 DEF Rest
<1>2. Rest(<<>>, s)
  BY DEF Rest
<1>3. ASSUME s # <<>> PROVE Rest(Tail(s), s)
  <2>1. /\ Len(s) \in Nat /\ DOMAIN s = 1 .. Len(s)
        /\ DOMAIN Tail(s) = 1 .. Len(s) - 1
        /\ \A k \in 1 .. Len(s) - 1 : Tail(s)[k] = s[k + 1]
    BY <1>3, LenProperties, HeadTailProperties
  <2>2. \A k \in DOMAIN Tail(s) : k + 1 \in DOMAIN s /\ Tail(s)[k] = s[k + 1]
    BY <2>1
  <2> QED
    BY <2>2 DEF Rest
<1> QED
  BY <1>1, <1>2, <1>3

LEMMA ThinnedOf ==
    ASSUME NEW S, toHost \in Seq(S), Rest(toHost', toHost)
    PROVE  Thinned
BY DEF Rest, Thinned, SameBut

\* The types of the queues as the lemmas below need them.
LEMMA QueueTypes ==
    ASSUME TypeInv
    PROVE  /\ toHost \in Seq(Lines) /\ Len(toHost) \in Nat /\ DOMAIN toHost = 1 .. Len(toHost)
           /\ \A k \in DOMAIN toHost : /\ toHost[k] \in Lines
                                       /\ toHost[k].kind = "response" => toHost[k].n \in DOMAIN calls
           /\ toDev \in Seq(Requests) /\ Len(toDev) \in Nat /\ DOMAIN toDev = 1 .. Len(toDev)
           /\ \A k \in DOMAIN toDev : toDev[k].n \in DOMAIN calls
           /\ pending \in Seq(DOMAIN calls) /\ Len(pending) \in Nat
           /\ DOMAIN pending = 1 .. Len(pending)
           /\ \A k \in DOMAIN pending : pending[k] \in DOMAIN calls
           /\ calls \in Seq(CallRecord) /\ Len(calls) \in Nat /\ DOMAIN calls = 1 .. Len(calls)
<1>1. /\ toHost \in Seq(WireLines) /\ toDev \in Seq(Requests) /\ pending \in Seq(DOMAIN calls)
      /\ calls \in Seq(CallRecord)
  BY DEF TypeInv, WireOK, OpOK
<1>2. /\ Len(toHost) \in Nat /\ DOMAIN toHost = 1 .. Len(toHost)
      /\ Len(toDev) \in Nat /\ DOMAIN toDev = 1 .. Len(toDev)
      /\ Len(pending) \in Nat /\ DOMAIN pending = 1 .. Len(pending)
      /\ Len(calls) \in Nat /\ DOMAIN calls = 1 .. Len(calls)
  BY <1>1, LenProperties
<1>3. WireLines \subseteq Lines
  BY DEF WireLines
<1>4. toHost \in Seq(Lines)
  BY <1>1, <1>3, SeqMonotonic
<1>5. \A k \in DOMAIN toHost : toHost[k] \in WireLines
  BY <1>1
<1>6. \A k \in DOMAIN toDev : toDev[k] \in Requests
  BY <1>1
<1>7. \A k \in DOMAIN pending : pending[k] \in DOMAIN calls
  BY <1>1
<1> QED
  BY <1>1, <1>2, <1>4, <1>5, <1>6, <1>7 DEF WireLines, Requests

LEMMA NextQueues ==
    ASSUME TypeInv'
    PROVE  /\ DOMAIN toHost' \subseteq Nat /\ DOMAIN toDev' \subseteq Nat /\ DOMAIN pending' \subseteq Nat
           /\ Len(toHost') \in Nat /\ DOMAIN toHost' = 1 .. Len(toHost')
<1>1. toHost' \in Seq(WireLines') /\ toDev' \in Seq(Requests') /\ pending' \in Seq(DOMAIN calls')
  BY DEF TypeInv, WireOK
<1> QED
  BY <1>1, LenProperties

LEMMA PrintedMoves ==
    ASSUME toHost \in Seq(Lines), NEW l \in Lines,
           toHost' = Printed(<<l>>) \/ toHost' = Printed(<<Fragment, l>>)
    PROVE  Thinned \/ Grown(l)
<1>1. Len(toHost) \in Nat /\ DOMAIN toHost = 1 .. Len(toHost)
  BY LenProperties
<1>2. CASE toHost' = toHost
  BY <1>2, RestOf, ThinnedOf
<1>3. CASE toHost' = toHost \o <<l>>
  <2>1. /\ DOMAIN toHost' = 1 .. Len(toHost) + 1 /\ Len(toHost') = Len(toHost) + 1
        /\ \A k \in 1 .. Len(toHost) : toHost'[k] = toHost[k]
        /\ toHost'[Len(toHost) + 1] = l
    BY <1>1, <1>3
  <2> QED
    BY <1>1, <2>1 DEF Grown
<1>4. CASE toHost' = toHost \o <<Fragment, l>>
  <2>1. Fragment \in Lines /\ Fragment.kind = "fragment"
    BY DEF Fragment, Line, Lines
  <2>2. PICK f : f = Fragment
    OBVIOUS
  <2>3. toHost' = toHost \o <<f, l>> /\ <<f, l>> \in Seq(Lines)
    BY <1>4, <2>1, <2>2
  <2>4. /\ DOMAIN toHost' = 1 .. Len(toHost) + 2 /\ Len(toHost') = Len(toHost) + 2
        /\ \A k \in 1 .. Len(toHost) : toHost'[k] = toHost[k]
        /\ toHost'[Len(toHost) + 1] = f /\ toHost'[Len(toHost) + 2] = l
    BY <1>1, <2>3
  <2>5. \A k \in 1 .. Len(toHost) + 2 :
           k \in 1 .. Len(toHost) \/ k = Len(toHost) + 1 \/ k = Len(toHost) + 2
    BY <1>1
  <2> QED
    BY <1>1, <2>1, <2>2, <2>4, <2>5 DEF Grown
<1> QED
  BY <1>2, <1>3, <1>4 DEF Printed

LEMMA MarkedMoves ==
    ASSUME toHost \in Seq(Lines), toHost # <<>>,
           \/ toHost' = [toHost EXCEPT ![1].begun = TRUE]
           \/ toHost' = [toHost EXCEPT ![1].kind = "damaged"]
    PROVE  Thinned
<1>1. toHost[1] \in Lines /\ Len(toHost) \in Nat /\ DOMAIN toHost = 1 .. Len(toHost)
  BY LenProperties, HeadTailProperties
<1>2. PICK l : \/ l = [toHost[1] EXCEPT !.begun = TRUE]
               \/ l = [toHost[1] EXCEPT !.kind = "damaged"]
        /\ toHost' = [toHost EXCEPT ![1] = l]
  OBVIOUS
<1>3. SameBut(l, toHost[1])
  BY <1>1, <1>2 DEF SameBut, Lines
<1>4. \A k \in DOMAIN toHost' : k + 0 = k /\ k \in DOMAIN toHost /\ SameBut(toHost'[k], toHost[k])
  BY <1>1, <1>2, <1>3 DEF SameBut
<1> QED
  BY <1>4, ZenonT(60) DEF Thinned
-----------------------------------------------------------------------------
(* Answers keep the order of their requests from the wire to the queue, so *)
(* that the numbers that are on their way rise from one end to the other.  *)
Numbered == {"response", "event", "ready"}

Rising(lines) ==
    \A j, k \in DOMAIN lines :
        j < k /\ lines[j].kind = lines[k].kind /\ lines[j].kind \in Numbered
            => lines[j].n < lines[k].n

Order ==
    /\ Rising(toHost)
    /\ \A j, k \in DOMAIN toDev : j < k => toDev[j].n < toDev[k].n
    /\ \A j, k \in DOMAIN pending : j < k => pending[j] < pending[k]
    /\ \A j \in DOMAIN toHost :
          toHost[j].kind = "response" =>
              /\ \A k \in DOMAIN toDev : toHost[j].n < toDev[k].n
              /\ \A i \in DOMAIN pending : pending[i] < toHost[j].n
    /\ \A i \in DOMAIN pending, k \in DOMAIN toDev : pending[i] < toDev[k].n

\* The requests that are still to be read, answered or handed over.
Sent == {toDev[k].n : k \in DOMAIN toDev}
        \union {toHost[k].n : k \in {j \in DOMAIN toHost : toHost[j].kind = "response"}}
        \union {pending[k] : k \in DOMAIN pending}

LEMMA RisingThinned ==
    ASSUME TypeInv, TypeInv', Rising(toHost), Thinned
    PROVE  Rising(toHost')
<1>1. PICK d \in Nat : \A k \in DOMAIN toHost' :
                           k + d \in DOMAIN toHost /\ SameBut(toHost'[k], toHost[k + d])
  BY DEF Thinned
<1>2. DOMAIN toHost' \subseteq Nat
  BY NextQueues
<1> SUFFICES ASSUME NEW j \in DOMAIN toHost', NEW k \in DOMAIN toHost', j < k,
                    toHost'[j].kind = toHost'[k].kind, toHost'[j].kind \in Numbered
             PROVE  toHost'[j].n < toHost'[k].n
  BY DEF Rising
<1>3. j + d < k + d
  BY <1>2
<1>4. /\ toHost'[j].kind = toHost[j + d].kind /\ toHost'[k].kind = toHost[k + d].kind
      /\ toHost'[j].n = toHost[j + d].n /\ toHost'[k].n = toHost[k + d].n
  BY <1>1 DEF SameBut, Numbered
<1> QED
  BY <1>1, <1>3, <1>4 DEF Rising

LEMMA RisingGrown ==
    ASSUME TypeInv, TypeInv', Rising(toHost), NEW l, Grown(l),
           \A k \in DOMAIN toHost : toHost[k].kind = l.kind => toHost[k].n < l.n
    PROVE  Rising(toHost')
<1>1. DOMAIN toHost' \subseteq Nat /\ DOMAIN toHost \subseteq Nat
      /\ Len(toHost') \in Nat /\ DOMAIN toHost' = 1 .. Len(toHost')
  BY QueueTypes, NextQueues
<1> SUFFICES ASSUME NEW j \in DOMAIN toHost', NEW k \in DOMAIN toHost', j < k,
                    toHost'[j].kind = toHost'[k].kind, toHost'[j].kind \in Numbered
             PROVE  toHost'[j].n < toHost'[k].n
  BY DEF Rising
<1>2. CASE k \in DOMAIN toHost /\ toHost'[k] = toHost[k]
  <2>1. j \in DOMAIN toHost /\ toHost'[j] = toHost[j]
    BY <1>1, <1>2 DEF Grown
  <2> QED
    BY <1>2, <2>1 DEF Rising
<1>3. CASE k = Len(toHost') /\ toHost'[k] = l
  <2>1. j # Len(toHost') /\ toHost'[j].kind # "fragment"
    BY <1>1, <1>3 DEF Numbered
  <2>2. j \in DOMAIN toHost /\ toHost'[j] = toHost[j]
    BY <2>1 DEF Grown
  <2> QED
    BY <1>3, <2>2
<1>4. toHost'[k].kind # "fragment"
  BY DEF Numbered
<1> QED
  BY <1>2, <1>3, <1>4 DEF Grown

\* Nothing new is on its way.
LEMMA OrderThinned ==
    ASSUME TypeInv, TypeInv', Order, Thinned, Rest(toDev', toDev), Rest(pending', pending)
    PROVE  Order' /\ Sent' \subseteq Sent
<1>1. PICK d \in Nat : \A k \in DOMAIN toHost' :
                           k + d \in DOMAIN toHost /\ SameBut(toHost'[k], toHost[k + d])
  BY DEF Thinned
<1>2. PICK e \in Nat : \A k \in DOMAIN toDev' :
                           k + e \in DOMAIN toDev /\ toDev'[k] = toDev[k + e]
  BY DEF Rest
<1>3. PICK f \in Nat : \A k \in DOMAIN pending' :
                           k + f \in DOMAIN pending /\ pending'[k] = pending[k + f]
  BY DEF Rest
<1>4. /\ DOMAIN toHost' \subseteq Nat /\ DOMAIN toDev' \subseteq Nat /\ DOMAIN pending' \subseteq Nat
      /\ \A j, k, m \in Nat : j < k => j + m < k + m
  BY NextQueues
<1>5. \A k \in DOMAIN toHost' :
         toHost'[k].kind = "response" =>
            toHost[k + d].kind = "response" /\ toHost'[k].n = toHost[k + d].n
  BY <1>1 DEF SameBut
<1>6. Rising(toHost')
  BY RisingThinned DEF Order
<1>7. \A j, k \in DOMAIN toDev' : j < k => toDev'[j].n < toDev'[k].n
  BY <1>2, <1>4 DEF Order
<1>8. \A j, k \in DOMAIN pending' : j < k => pending'[j] < pending'[k]
  BY <1>3, <1>4 DEF Order
<1>9. \A j \in DOMAIN toHost' :
          toHost'[j].kind = "response" =>
              /\ \A k \in DOMAIN toDev' : toHost'[j].n < toDev'[k].n
              /\ \A i \in DOMAIN pending' : pending'[i] < toHost'[j].n
  BY <1>1, <1>2, <1>3, <1>5 DEF Order
<1>10. \A i \in DOMAIN pending', k \in DOMAIN toDev' : pending'[i] < toDev'[k].n
  BY <1>2, <1>3 DEF Order
<1>11. Sent' \subseteq Sent
  BY <1>1, <1>2, <1>3, <1>5 DEF Sent
<1> QED
  BY <1>6, <1>7, <1>8, <1>9, <1>10, <1>11 DEF Order

\* An event, or ready, is printed.
LEMMA OrderGrown ==
    ASSUME TypeInv, TypeInv', Order, NEW l, Grown(l), l.kind \in {"event", "ready"},
           \A k \in DOMAIN toHost : toHost[k].kind = l.kind => toHost[k].n < l.n,
           Rest(toDev', toDev), pending' = pending
    PROVE  Order' /\ Sent' \subseteq Sent
<1>1. Rising(toHost')
  BY RisingGrown DEF Order
<1>2. \A k \in DOMAIN toHost' : toHost'[k].kind = "response" => k \in DOMAIN toHost /\ toHost'[k] = toHost[k]
  BY DEF Grown
<1>3. PICK e \in Nat : \A k \in DOMAIN toDev' :
                           k + e \in DOMAIN toDev /\ toDev'[k] = toDev[k + e]
  BY DEF Rest
<1>4. /\ DOMAIN toDev' \subseteq Nat
      /\ \A j, k, m \in Nat : j < k => j + m < k + m
  BY NextQueues
<1>5. \A j, k \in DOMAIN toDev' : j < k => toDev'[j].n < toDev'[k].n
  BY <1>3, <1>4 DEF Order
<1>6. Sent' \subseteq Sent
  BY <1>2, <1>3 DEF Sent
<1> QED
  BY <1>1, <1>2, <1>3, <1>5, <1>6 DEF Order

\* A request is answered: its number goes from one queue to the next.
LEMMA OrderServed ==
    ASSUME TypeInv, TypeInv', Order, Serve
    PROVE  Order' /\ Sent' \subseteq Sent
<1>1. /\ toDev # <<>> /\ toDev' = Tail(toDev) /\ pending' = pending
      /\ toHost' = Printed(<<Line("response", Head(toDev).n)>>)
  BY DEF Serve, hostVars, callVars
<1>2. /\ Head(toDev) = toDev[1] /\ 1 \in DOMAIN toDev
      /\ \A k \in DOMAIN toDev' : k + 1 \in DOMAIN toDev /\ k + 1 > 1 /\ toDev'[k] = toDev[k + 1]
      /\ \A k \in DOMAIN toDev' : k \in Nat
  BY <1>1, QueueTypes, HeadTailProperties
<1>3. Rest(toDev', toDev) /\ Rest(pending', pending)
  BY <1>1, QueueTypes, RestOf
<1>4. PICK l : l = Line("response", toDev[1].n)
  OBVIOUS
<1>5. l \in Lines /\ l.kind = "response" /\ l.n = toDev[1].n
  BY <1>2, <1>4, QueueTypes DEF Line, Lines
<1>6. Thinned \/ Grown(l)
  BY <1>1, <1>2, <1>4, <1>5, QueueTypes, PrintedMoves
<1>7. CASE Grown(l)
  <2>1. Rising(toHost')
    BY <1>2, <1>5, <1>7, RisingGrown DEF Order
  <2>2. \A k \in DOMAIN toHost' :
            toHost'[k].kind = "response" => \/ k \in DOMAIN toHost /\ toHost'[k] = toHost[k]
                                            \/ toHost'[k] = l
    BY <1>7 DEF Grown
  <2>3. \A j, k \in DOMAIN toDev' : j < k => toDev'[j].n < toDev'[k].n
    BY <1>2 DEF Order
  <2>4. \A j \in DOMAIN toHost' :
            toHost'[j].kind = "response" =>
                /\ \A k \in DOMAIN toDev' : toHost'[j].n < toDev'[k].n
                /\ \A i \in DOMAIN pending' : pending'[i] < toHost'[j].n
    BY <1>1, <1>2, <1>5, <2>2, ZenonT(60) DEF Order
  <2>5. \A i \in DOMAIN pending', k \in DOMAIN toDev' : pending'[i] < toDev'[k].n
    BY <1>1, <1>2 DEF Order
  <2>6. Sent' \subseteq Sent
    BY <1>1, <1>2, <1>5, <2>2 DEF Sent
  <2> QED
    BY <1>1, <2>1, <2>3, <2>4, <2>5, <2>6 DEF Order
<1> QED
  BY <1>3, <1>6, <1>7, OrderThinned

\* An answer is read: likewise.
LEMMA OrderRead ==
    ASSUME TypeInv, TypeInv', Order, toHost # <<>>, toHost' = Tail(toHost),
           toHost[1].kind = "response", pending' = Append(pending, toHost[1].n), toDev' = toDev
    PROVE  Order' /\ Sent' \subseteq Sent
<1>1. /\ 1 \in DOMAIN toHost
      /\ \A k \in DOMAIN toHost' : /\ k \in Nat /\ k + 1 \in DOMAIN toHost /\ k + 1 > 1
                                   /\ toHost'[k] = toHost[k + 1]
  BY QueueTypes, HeadTailProperties
<1>2. PICK n \in DOMAIN calls : n = toHost[1].n
  BY <1>1, QueueTypes
<1>3. /\ DOMAIN pending' = 1 .. Len(pending) + 1
      /\ \A k \in 1 .. Len(pending) : pending'[k] = pending[k]
      /\ pending'[Len(pending) + 1] = n
      /\ Len(pending) \in Nat /\ DOMAIN pending = 1 .. Len(pending)
  BY <1>2, QueueTypes, AppendProperties
<1>4. Rest(toHost', toHost)
  BY QueueTypes, RestOf
<1>5. Rising(toHost')
  BY <1>4, QueueTypes, ThinnedOf, RisingThinned DEF Order
<1>6. \A k \in DOMAIN pending' : \/ k \in DOMAIN pending /\ pending'[k] = pending[k]
                                 \/ k = Len(pending) + 1 /\ pending'[k] = n
  BY <1>3
<1>7. \A i \in DOMAIN pending : pending[i] < n
  BY <1>1, <1>2 DEF Order
<1>8. \A j, k \in DOMAIN pending' : j < k => pending'[j] < pending'[k]
  BY <1>3, <1>6, <1>7 DEF Order
<1>9. \A j \in DOMAIN toHost' : toHost'[j].kind = "response" => n < toHost'[j].n
  BY <1>1, <1>2 DEF Order, Rising, Numbered
<1>10. \A j \in DOMAIN toHost' :
          toHost'[j].kind = "response" =>
              /\ \A k \in DOMAIN toDev' : toHost'[j].n < toDev'[k].n
              /\ \A i \in DOMAIN pending' : pending'[i] < toHost'[j].n
  BY <1>1, <1>6, <1>9 DEF Order
<1>11. \A i \in DOMAIN pending', k \in DOMAIN toDev' : pending'[i] < toDev'[k].n
  BY <1>1, <1>2, <1>6 DEF Order
<1>12. Sent' \subseteq Sent
  BY <1>1, <1>2, <1>6 DEF Sent
<1> QED
  BY <1>5, <1>8, <1>10, <1>11, <1>12 DEF Order

\* A request is written: the next number, above all that are on their way.
LEMMA OrderWritten ==
    ASSUME TypeInv, TypeInv', Order, NEW kind \in {"call", "rig.reset"},
           toDev' = Append(toDev, [kind |-> kind, n |-> Len(calls) + 1]),
           UNCHANGED <<toHost, pending>>
    PROVE  Order' /\ Sent' \subseteq Sent \union {Len(calls) + 1}
<1>1. /\ Len(calls) \in Nat /\ DOMAIN calls = 1 .. Len(calls)
      /\ Len(toDev) \in Nat /\ DOMAIN toDev = 1 .. Len(toDev)
  BY QueueTypes
<1> DEFINE r == [kind |-> kind, n |-> Len(calls) + 1]
<1>2. r.n = Len(calls) + 1 /\ toDev \in Seq([kind : {"call", "rig.reset"}, n : Nat])
      /\ r \in [kind : {"call", "rig.reset"}, n : Nat]
  <2>1. Requests \subseteq [kind : {"call", "rig.reset"}, n : Nat]
    BY <1>1 DEF Requests
  <2>2. toDev \in Seq([kind : {"call", "rig.reset"}, n : Nat])
    BY <2>1, QueueTypes, SeqMonotonic
  <2> QED
    BY <1>1, <2>2
<1>3. toDev' = Append(toDev, r)
  OBVIOUS
<1> HIDE DEF r
<1>4. /\ DOMAIN toDev' = 1 .. Len(toDev) + 1
      /\ \A k \in 1 .. Len(toDev) : toDev'[k] = toDev[k]
      /\ toDev'[Len(toDev) + 1] = r
  BY <1>2, <1>3, AppendProperties
<1>5. \A k \in DOMAIN toDev' : \/ k \in DOMAIN toDev /\ toDev'[k] = toDev[k]
                               \/ k = Len(toDev) + 1 /\ toDev'[k].n = Len(calls) + 1
  BY <1>1, <1>2, <1>4
<1>6. /\ \A k \in DOMAIN toDev : toDev[k].n < Len(calls) + 1
      /\ \A k \in DOMAIN pending : pending[k] < Len(calls) + 1
      /\ \A k \in DOMAIN toHost : toHost[k].kind = "response" => toHost[k].n < Len(calls) + 1
  BY <1>1, QueueTypes
<1>7. \A j, k \in DOMAIN toDev' : j < k => toDev'[j].n < toDev'[k].n
  BY <1>1, <1>4, <1>5, <1>6 DEF Order
<1>8. \A j \in DOMAIN toHost' :
          toHost'[j].kind = "response" =>
              /\ \A k \in DOMAIN toDev' : toHost'[j].n < toDev'[k].n
              /\ \A i \in DOMAIN pending' : pending'[i] < toHost'[j].n
  BY <1>5, <1>6 DEF Order
<1>9. \A i \in DOMAIN pending', k \in DOMAIN toDev' : pending'[i] < toDev'[k].n
  BY <1>5, <1>6 DEF Order
<1>10. Sent' \subseteq Sent \union {Len(calls) + 1}
  BY <1>5 DEF Sent
<1> QED
  BY <1>7, <1>8, <1>9, <1>10 DEF Order
-----------------------------------------------------------------------------
(* Where each step stands among these.                                     *)
Raised(kind) == IF kind = "event" THEN raised ELSE boots

Bounded == \A k \in DOMAIN toHost :
               toHost[k].kind \in {"event", "ready"} => toHost[k].n <= Raised(toHost[k].kind)

LEMMA RaisedLine ==
    ASSUME TypeInv, NEW kind \in {"event", "ready"}
    PROVE  /\ Raised(kind) \in Nat
           /\ Line(kind, Raised(kind) + 1) \in Lines
           /\ Line(kind, Raised(kind) + 1).kind = kind
           /\ Line(kind, Raised(kind) + 1).n = Raised(kind) + 1
<1>1. Raised(kind) \in Nat
  BY DEF TypeInv, NumbersOK, Raised
<1> QED
  BY <1>1 DEF Line, Lines

\* The lines that go up, those that come, and what the numbers do meanwhile.
LEMMA HostMoves ==
    ASSUME TypeInv, [Next]_vars
    PROVE  /\ raised' = raised \/ raised' = raised + 1
           /\ boots' = boots \/ boots' = boots + 1
           /\ \/ Thinned
              \/ Serve /\ UNCHANGED <<raised, boots>> /\ \E n : Grown(Line("response", n))
              \/ \E kind \in {"event", "ready"} :
                    Raised(kind)' = Raised(kind) + 1 /\ Grown(Line(kind, Raised(kind) + 1))
<1> USE DEF outside, deviceVars, hostVars
<1>1. CASE Serve
  <2>1. toHost' = Printed(<<Line("response", Head(toDev).n)>>) /\ toDev # <<>>
        /\ UNCHANGED <<raised, boots>>
    BY <1>1 DEF Serve
  <2>2. Head(toDev).n \in Nat
    BY <2>1, QueueTypes, HeadTailProperties, SMTT(30)
  <2>3. PICK l \in Lines : l = Line("response", Head(toDev).n)
    BY <2>2 DEF Line, Lines
  <2> QED
    BY <1>1, <2>1, <2>3, QueueTypes, PrintedMoves
<1>2. CASE RaiseEvent
  <2>1. toHost' = Printed(<<Line("event", raised + 1)>>) /\ raised' = raised + 1 /\ boots' = boots
    BY <1>2 DEF RaiseEvent
  <2>2. PICK l \in Lines : l = Line("event", raised + 1)
    BY RaisedLine DEF Raised
  <2>3. Thinned \/ Grown(l)
    BY <2>1, <2>2, QueueTypes, PrintedMoves
  <2> QED
    BY <2>1, <2>2, <2>3 DEF Raised
<1>3. CASE Reboot
  <2>1. /\ boots' = boots + 1 /\ raised' = raised
        /\ \/ toHost' = Printed(<<Line("ready", boots + 1)>>)
           \/ toHost' = Printed(<<Fragment, Line("ready", boots + 1)>>)
    BY <1>3 DEF Reboot
  <2>2. PICK l \in Lines : l = Line("ready", boots + 1)
    BY RaisedLine DEF Raised
  <2>3. Thinned \/ Grown(l)
    BY <2>1, <2>2, QueueTypes, PrintedMoves
  <2> QED
    BY <2>1, <2>2, <2>3 DEF Raised
<1>4. ASSUME UNCHANGED <<raised, boots>>,
             \/ toHost' \in {toHost, <<>>}
             \/ toHost # <<>> /\ toHost' = Tail(toHost)
      PROVE  Thinned
  BY <1>4, QueueTypes, RestOf, ThinnedOf
<1>5. CASE LinkDown \/ LinkUp
  BY <1>4, <1>5 DEF LinkDown, LinkUp
<1>6. CASE Damage
  BY <1>6, QueueTypes, MarkedMoves DEF Damage
<1>7. CASE Reader
  <2>1. CASE ReadPart
    <3>1. /\ toHost # <<>> /\ UNCHANGED <<raised, boots>>
          /\ toHost' = Tail(toHost) \/ toHost' = [toHost EXCEPT ![1].begun = TRUE]
      BY <2>1 DEF ReadPart, Reading
    <3> QED
      BY <1>4, <3>1, QueueTypes, MarkedMoves
  <2>2. CASE ReadLine
    BY <1>4, <2>2 DEF ReadLine, Reading
  <2>3. CASE ReaderEnds
    BY <1>4, <2>3 DEF ReaderEnds
  <2> QED
    BY <1>7, <2>1, <2>2, <2>3 DEF Reader
<1>8. ASSUME NEW t \in Threads, Begin(t) \/ Continue(t)
      PROVE  UNCHANGED <<raised, boots>> /\ Thinned
  <2>1. UNCHANGED <<raised, boots>> /\ toHost' \in {toHost, <<>>}
    BY <1>8 DEF Begin, Call, Reset, ExpectEvent, DrainEvents, WriteLine, Close, Continue, Acquire,
                Drain, Write, GetAnswer, Timeout, CheckAlive, Reopen, Restart, Refresh,
                CloseTransport, JoinReader, TakeEvent, Sleep, NoEvent, GiveUp, WaitExpires, Go
  <2> QED
    BY <1>4, <2>1
<1>9. CASE UNCHANGED vars
  BY <1>4, <1>9 DEF vars
<1> QED
  BY <1>1, <1>2, <1>3, <1>5, <1>6, <1>7, <1>8, <1>9 DEF Next, Environment

LEMMA BoundedStep == ASSUME TypeInv, TypeInv', Bounded, [Next]_vars PROVE Bounded'
<1>1. \A kind \in {"event", "ready"} :
          Raised(kind)' \in Nat /\ Raised(kind) \in Nat /\ Raised(kind) <= Raised(kind)'
  BY HostMoves DEF TypeInv, NumbersOK, Raised
<1>2. \A k \in DOMAIN toHost : toHost[k].n \in Nat
  BY QueueTypes DEF Lines
<1>3. CASE Thinned
  <2>1. PICK d \in Nat : \A k \in DOMAIN toHost' :
                             k + d \in DOMAIN toHost /\ SameBut(toHost'[k], toHost[k + d])
    BY <1>3 DEF Thinned
  <2> QED
    BY <1>1, <1>2, <2>1 DEF Bounded, SameBut
<1>4. ASSUME NEW kind \in {"event", "ready", "response"}, NEW n,
             Grown(Line(kind, n)), kind # "response" => n <= Raised(kind)'
      PROVE  Bounded'
  <2>1. Line(kind, n).kind = kind /\ Line(kind, n).n = n
    BY DEF Line
  <2> QED
    BY <1>1, <1>2, <1>4, <2>1 DEF Bounded, Grown
<1> QED
  BY <1>1, <1>3, <1>4, HostMoves

\* Requests are written by Write and WriteLine, over a live link.
Writes(t) == /\ port = "good"
             /\ Write(t) \/ WriteLine(t)

\* Nothing goes to the queue of answers or to the device.
LEMMA OrderQuiet ==
    ASSUME TypeInv, TypeInv', Order, Bounded, [Next]_vars,
           Rest(toDev', toDev), pending' = pending
    PROVE  Order' /\ Sent' \subseteq Sent
<1>1. CASE Thinned
  BY <1>1, QueueTypes, RestOf, OrderThinned
<1>2. CASE Serve
  BY <1>2, OrderServed
<1>3. ASSUME NEW kind \in {"event", "ready"}, Grown(Line(kind, Raised(kind) + 1))
      PROVE  Order' /\ Sent' \subseteq Sent
  <2>1. PICK l : l = Line(kind, Raised(kind) + 1) /\ l.kind = kind /\ l.n = Raised(kind) + 1
    BY RaisedLine
  <2>2. \A k \in DOMAIN toHost : toHost[k].kind = l.kind => toHost[k].n < l.n
    <3>1. \A k \in DOMAIN toHost : toHost[k].n \in Nat
      BY QueueTypes DEF Lines
    <3> QED
      BY <2>1, <3>1, RaisedLine DEF Bounded
  <2> QED
    BY <1>3, <2>1, <2>2, OrderGrown
<1> QED
  BY <1>1, <1>2, <1>3, HostMoves

LEMMA OrderStep ==
    ASSUME TypeInv, TypeInv', Order, Bounded, [Next]_vars
    PROVE  /\ Order'
           /\ \/ Sent' \subseteq Sent
              \/ /\ \E t \in Threads : Writes(t)
                 /\ Sent' \subseteq Sent \union {Len(calls) + 1}
<1> USE DEF outside, hostVars, callVars
<1>0. ASSUME toDev' \in {toDev, <<>>}, pending' = pending PROVE Order' /\ Sent' \subseteq Sent
  BY <1>0, QueueTypes, RestOf, OrderQuiet
<1>1. CASE Serve
  BY <1>1, OrderServed
<1>2. CASE \/ RaiseEvent \/ Reboot \/ LinkDown \/ LinkUp \/ Damage
           \/ ReadPart \/ ReaderEnds \/ UNCHANGED vars
  <2>1. toDev' \in {toDev, <<>>} /\ pending' = pending
    BY <1>2 DEF RaiseEvent, Reboot, LinkDown, LinkUp, Damage, ReadPart, ReaderEnds, vars
  <2> QED
    BY <1>0, <2>1
<1>3. CASE ReadLine
  <2>1. /\ toHost # <<>> /\ toHost' = Tail(toHost) /\ toDev' = toDev
        /\ \E l \in WireLines :
              /\ l.kind = toHost[1].kind /\ l.n = toHost[1].n
              /\ FilesResponse(l) \/ FilesEvent(l) \/ FilesDamaged(l) \/ FilesNothing
    BY <1>3, ReadLineStep DEF TypeInv
  <2>2. PICK l \in WireLines :
              /\ l.kind = toHost[1].kind /\ l.n = toHost[1].n
              /\ FilesResponse(l) \/ FilesEvent(l) \/ FilesDamaged(l) \/ FilesNothing
    BY <2>1
  <2>3. CASE FilesResponse(l)
    <3>1. toHost[1].kind = "response" /\ pending' = Append(pending, toHost[1].n)
      BY <2>2, <2>3 DEF FilesResponse
    <3> QED
      BY <2>1, <3>1, OrderRead
  <2>4. CASE ~FilesResponse(l)
    <3>1. pending' = pending
      BY <2>2, <2>4 DEF FilesEvent, FilesDamaged, FilesNothing
    <3> QED
      BY <1>0, <2>1, <3>1
  <2> QED
    BY <2>3, <2>4
<1>4. ASSUME NEW t \in Threads, Drain(t) \/ GetAnswer(t)
      PROVE  Order' /\ Sent' \subseteq Sent
  <2>1. /\ toDev' = toDev /\ toHost' = toHost
        /\ pending' = <<>> \/ (pending # <<>> /\ pending' = Tail(pending))
    BY <1>4 DEF Drain, GetAnswer
  <2>2. Rest(toDev', toDev) /\ Rest(pending', pending) /\ Thinned
    BY <2>1, QueueTypes, RestOf, ThinnedOf
  <2> QED
    BY <2>2, OrderThinned
<1>5. ASSUME NEW t \in Threads, Writes(t)
      PROVE  Order' /\ Sent' \subseteq Sent \union {Len(calls) + 1}
  <2>1. \E kind \in {"call", "rig.reset"} :
             toDev' = Append(toDev, [kind |-> kind, n |-> Len(calls) + 1])
    BY <1>5 DEF Writes, Write, WriteRequest, Request, WriteLine
  <2>2. UNCHANGED <<toHost, pending>>
    BY <1>5 DEF Writes, Write, WriteLine
  <2> QED
    BY <2>1, <2>2, OrderWritten
<1>6. ASSUME NEW t \in Threads, Begin(t) \/ Continue(t),
             ~Drain(t), ~GetAnswer(t), ~Writes(t)
      PROVE  Order' /\ Sent' \subseteq Sent
  <2>1. CASE Write(t)
    <3>1. toDev' = toDev /\ pending' = pending
      BY <1>6, <2>1 DEF Writes, Write, WriteRequest
    <3> QED
      BY <1>0, <3>1
  <2>2. ~WriteLine(t)
    BY <1>6 DEF Writes, WriteLine
  <2>3. CASE ~Write(t)
    <3>1. toDev' = toDev /\ pending' = pending
      BY <1>6, <2>2, <2>3 DEF Begin, Call, Reset, ExpectEvent, DrainEvents, Close, Continue,
                Acquire, Timeout, CheckAlive, Reopen, Restart, Refresh, CloseTransport,
                JoinReader, TakeEvent, Sleep, NoEvent, GiveUp, WaitExpires, Go
    <3> QED
      BY <1>0, <3>1
  <2> QED
    BY <2>1, <2>3
<1> QED
  BY <1>1, <1>2, <1>3, <1>4, <1>5, <1>6 DEF Next, Environment, Reader
-----------------------------------------------------------------------------
(* Answers and calls.  A call that got an answer got one that is older     *)
(* than all that are on their way; only the call that is in progress has   *)
(* no outcome; a request that was never written is answered by nobody.     *)
Waits == {t \in Threads : op[t].pc = "wait"}

Outcomes == \A c \in DOMAIN calls : /\ calls[c].got \in 0 .. Len(calls)
                                    /\ calls[c].left = "answered" <=> calls[c].got # 0

GotOlder == \A c \in DOMAIN calls : calls[c].got # 0 => \A n \in Sent : calls[c].got < n

SentWritten == \A n \in Sent : calls[n].left # "broken"

OpenWaits == \A c \in DOMAIN calls : calls[c].left = "open" <=> \E t \in Waits : op[t].txn = c

Settled == Outcomes /\ GotOlder /\ SentWritten /\ OpenWaits /\ AnswersPaired

\* The same threads wait, for the same calls.
WaitsSame == Waits' = Waits /\ \A t \in Waits : op'[t].txn = op[t].txn

LEMMA SentMade ==
    ASSUME TypeInv
    PROVE  /\ Sent \subseteq 1 .. Len(calls)
           /\ Len(calls) \in Nat /\ DOMAIN calls = 1 .. Len(calls)
           /\ \A c \in DOMAIN calls : calls[c] \in CallRecord
BY QueueTypes DEF Sent

LEMMA OneWaits ==
    ASSUME TypeInv, NEW s \in Threads, NEW t \in Threads,
           op[s].pc \in TxnPoints, op[t].pc \in TxnPoints
    PROVE  s = t
BY DEF TypeInv, LockOK, InTxn, TxnPoints

LEMMA OthersWait ==
    ASSUME TypeInv, [Next]_vars,
           \A t \in Threads : ~Write(t) /\ ~GetAnswer(t) /\ ~Timeout(t)
    PROVE  WaitsSame
<1>1. op \in [Threads -> Operation]
  BY DEF TypeInv, OpOK
<1>2. CASE Environment \/ ReadPart \/ ReaderEnds \/ UNCHANGED vars
  <2>1. op' = op
    BY <1>2 DEF Environment, Serve, RaiseEvent, Reboot, LinkDown, LinkUp, Damage, ReadPart,
                ReaderEnds, vars, hostVars, threadVars
  <2> QED
    BY <2>1 DEF WaitsSame, Waits
<1>3. CASE ReadLine
  <2>1. \A t \in Threads : op'[t] = op[t] \/ (op[t].pc # "wait" /\ op'[t].pc # "wait")
    <3>1. OnLine \in Threads => op[OnLine].pc = "idle"
      BY <1>3 DEF ReadLine, Reading, InCallback
    <3> QED
      BY <1>3, <3>1, LineMoves
  <2> QED
    BY <2>1 DEF WaitsSame, Waits
<1>4. ASSUME NEW t \in Threads, Begin(t) \/ Continue(t) PROVE WaitsSame
  <2>1. op[t].pc # "wait"
    BY <1>4 DEF Begin, Call, Reset, ExpectEvent, DrainEvents, WriteLine, Close, Start, Continue,
                Acquire, Drain, CheckAlive, Reopen, Restart, Refresh, CloseTransport, JoinReader,
                TakeEvent, Sleep, NoEvent, WaitExpires
  <2>2. op'[t].pc # "wait"
    <3>1. CASE Drain(t)
      <4>1. Goto(t, "write")
        BY <3>1 DEF Drain
      <4> QED
        BY <1>1, <4>1, GotoStep DEF Points
    <3> QED
      BY <1>4, <3>1, Leads
  <2>3. \A s \in Threads : s = t \/ op'[s] = op[s]
    BY <1>4, OthersStay
  <2> QED
    BY <2>1, <2>2, <2>3 DEF WaitsSame, Waits
<1> QED
  BY <1>2, <1>3, <1>4 DEF Next, Reader

\* No call is begun or ended.
LEMMA SettledSame ==
    ASSUME TypeInv, Settled, calls' = calls, WaitsSame, Sent' \subseteq Sent
    PROVE  Settled'
<1>1. Outcomes' /\ AnswersPaired'
  BY DEF Settled, Outcomes, AnswersPaired
<1>2. GotOlder' /\ SentWritten'
  BY DEF Settled, GotOlder, SentWritten
<1>3. OpenWaits'
  BY DEF Settled, OpenWaits, WaitsSame
<1> QED
  BY <1>1, <1>2, <1>3 DEF Settled

\* One more call, which waits if it is open.
LEMMA SettledBegun ==
    ASSUME TypeInv, Settled, NEW how \in {"open", "abandoned", "broken"},
           calls' = Append(calls, [left |-> how, got |-> 0]),
           Sent' \subseteq Sent \union {Len(calls) + 1},
           how = "broken" => Sent' \subseteq Sent,
           IF how = "open"
           THEN \E t \in Threads : /\ Waits = {} /\ Waits' = {t}
                                   /\ op'[t].txn = Len(calls) + 1
           ELSE WaitsSame
    PROVE  Settled'
<1> PICK m : m = Len(calls) + 1
  OBVIOUS
<1>1. /\ Sent \subseteq 1 .. Len(calls)
      /\ Len(calls) \in Nat /\ DOMAIN calls = 1 .. Len(calls)
  BY SentMade
<1>2. /\ DOMAIN calls' = 1 .. m /\ Len(calls') = m
      /\ \A c \in 1 .. Len(calls) : calls'[c] = calls[c]
      /\ calls'[m].left = how /\ calls'[m].got = 0
  <2> DEFINE r == [left |-> how, got |-> 0]
  <2>1. r \in CallRecord /\ r.left = how /\ r.got = 0
    BY DEF CallRecord
  <2>2. calls \in Seq(CallRecord) /\ calls' = Append(calls, r)
    BY QueueTypes
  <2> HIDE DEF r
  <2> QED
    BY <1>1, <2>1, <2>2, AppendProperties
<1>3. \A c \in DOMAIN calls' : c = m \/ (c \in DOMAIN calls /\ calls'[c] = calls[c])
  BY <1>1, <1>2
<1>4. Outcomes'
  BY <1>1, <1>2, <1>3 DEF Settled, Outcomes
<1>5. GotOlder'
  <2>1. \A c \in DOMAIN calls : calls[c].got # 0 => calls[c].got < m
    BY <1>1 DEF Settled, Outcomes
  <2> QED
    BY <1>2, <1>3, <2>1 DEF Settled, GotOlder
<1>6. SentWritten'
  BY <1>1, <1>2 DEF Settled, SentWritten
<1>7. OpenWaits'
  <2>1. CASE how = "open"
    <3>1. PICK t \in Threads : Waits = {} /\ Waits' = {t} /\ op'[t].txn = m
      BY <2>1
    <3>2. \A c \in DOMAIN calls : calls[c].left # "open"
      BY <3>1 DEF Settled, OpenWaits
    <3> QED
      BY <1>1, <1>2, <1>3, <2>1, <3>1, <3>2 DEF OpenWaits
  <2>2. CASE how # "open"
    <3>1. \A t \in Waits : op[t].txn # m
      BY <1>1 DEF TypeInv, OpOK, Waits
    <3> QED
      BY <1>1, <1>2, <1>3, <2>2, <3>1 DEF Settled, OpenWaits, WaitsSame
  <2> QED
    BY <2>1, <2>2
<1>8. AnswersPaired'
  <2> SUFFICES ASSUME NEW c \in DOMAIN calls', calls'[c].got # 0
               PROVE  /\ \A e \in DOMAIN calls' : calls'[e].got = calls'[c].got => e = c
                      /\ calls'[c].got # c =>
                            \E e \in 1 .. calls'[c].got : calls'[e].left = "abandoned"
    BY DEF AnswersPaired
  <2>1. c \in DOMAIN calls /\ calls'[c] = calls[c] /\ calls[c].got # 0
    BY <1>2, <1>3
  <2>2. \A e \in DOMAIN calls' : calls'[e].got = calls'[c].got => e = c
    BY <1>2, <1>3, <2>1 DEF Settled, AnswersPaired
  <2>3. ASSUME calls'[c].got # c
        PROVE  \E e \in 1 .. calls'[c].got : calls'[e].left = "abandoned"
    <3>1. PICK e \in 1 .. calls[c].got : calls[e].left = "abandoned"
      BY <2>1, <2>3 DEF Settled, AnswersPaired
    <3>2. e \in 1 .. Len(calls)
      BY <1>1, <2>1, <3>1 DEF Settled, Outcomes
    <3> QED
      BY <1>2, <2>1, <3>1, <3>2
  <2> QED
    BY <2>2, <2>3
<1> QED
  BY <1>4, <1>5, <1>6, <1>7, <1>8 DEF Settled

\* The call in progress is over: with an answer that is older than all that
\* are on their way, or without.
LEMMA SettledEnded ==
    ASSUME TypeInv, Settled, NEW t \in Threads, op[t].pc = "wait", NEW how, NEW answer,
           Leave(t, how, answer), Waits' = {},
           Sent' \subseteq Sent,
           \/ how = "abandoned" /\ answer = 0
           \/ how = "answered" /\ answer \in Sent /\ \A n \in Sent' : answer < n
    PROVE  Settled'
<1> PICK m : m = op[t].txn
  OBVIOUS
<1>1. /\ Sent \subseteq 1 .. Len(calls)
      /\ Len(calls) \in Nat /\ DOMAIN calls = 1 .. Len(calls)
      /\ \A c \in DOMAIN calls : calls[c] \in CallRecord
  BY SentMade
<1>2. m \in DOMAIN calls
  BY DEF TypeInv, OpOK
<1>0. \/ how = "abandoned" /\ answer = 0
      \/ how = "answered" /\ answer \in Sent /\ answer \in 1 .. Len(calls)
  BY <1>1
<1>3. /\ DOMAIN calls' = DOMAIN calls /\ Len(calls') = Len(calls)
      /\ \A c \in DOMAIN calls : c # m => calls'[c] = calls[c]
      /\ calls'[m].left = how /\ calls'[m].got = answer
  <2> DEFINE r == [left |-> how, got |-> answer]
  <2>1. calls' = [calls EXCEPT ![m] = r] /\ r.left = how /\ r.got = answer
    BY DEF Leave
  <2>2. how \in {"abandoned", "answered"} /\ answer \in Nat
    BY <1>0, <1>1
  <2>3. r \in CallRecord
    BY <2>2 DEF CallRecord
  <2>4. calls \in Seq(CallRecord)
    BY QueueTypes
  <2> HIDE DEF r
  <2>5. Len(calls') = Len(calls) /\ DOMAIN calls' = DOMAIN calls
    BY <1>1, <1>2, <2>1, <2>3, <2>4, ExceptSeq
  <2> QED
    BY <1>2, <2>1, <2>5
<1>4. \A c \in DOMAIN calls : calls[c].left = "open" <=> c = m
  <2>1. t \in Waits /\ \A s \in Waits : s = t
    BY OneWaits DEF Waits, TxnPoints
  <2> QED
    BY <1>2, <2>1 DEF Settled, OpenWaits
<1>5. Outcomes'
  BY <1>0, <1>1, <1>3 DEF Settled, Outcomes
<1>6. GotOlder'
  BY <1>3 DEF Settled, GotOlder
<1>7. SentWritten'
  BY <1>1, <1>3 DEF Settled, SentWritten
<1>8. OpenWaits'
  BY <1>3, <1>4 DEF OpenWaits
<1>9. AnswersPaired'
  <2>1. ASSUME NEW d \in DOMAIN calls, NEW e \in 1 .. d, calls[e].left = "abandoned"
        PROVE  calls'[e].left = "abandoned"
    <3>1. e \in DOMAIN calls /\ e # m
      BY <1>1, <1>4, <2>1
    <3> QED
      BY <1>3, <2>1, <3>1
  <2>2. \A c \in DOMAIN calls : calls[c].got # 0 => calls[c].got \in DOMAIN calls
    BY <1>1 DEF Settled, Outcomes
  <2>3. ASSUME NEW c \in DOMAIN calls, c # m, calls[c].got # 0
        PROVE  /\ \A e \in DOMAIN calls : calls'[e].got = calls[c].got => e = c
               /\ calls[c].got # c =>
                     \E e \in 1 .. calls[c].got : calls'[e].left = "abandoned"
    <3>1. answer # calls[c].got
      BY <1>0, <1>1, <2>2, <2>3 DEF Settled, GotOlder
    <3>2. \A e \in DOMAIN calls : calls[e].got = calls[c].got => e = c
      BY <2>3 DEF Settled, AnswersPaired
    <3>3. calls[c].got # c => \E e \in 1 .. calls[c].got : calls[e].left = "abandoned"
      BY <2>3 DEF Settled, AnswersPaired
    <3> QED
      BY <1>3, <2>1, <2>2, <2>3, <3>1, <3>2, <3>3
  <2>4. ASSUME answer # 0
        PROVE  /\ \A e \in DOMAIN calls : calls'[e].got = answer => e = m
               /\ answer # m => \E e \in 1 .. answer : calls'[e].left = "abandoned"
    <3>1. answer \in Sent /\ answer \in DOMAIN calls /\ answer \in Nat
      BY <1>1, <2>4
    <3>2. \A e \in DOMAIN calls : e # m /\ calls[e].got # 0 => calls[e].got < answer
      BY <3>1 DEF Settled, GotOlder
    <3>3. \A e \in DOMAIN calls : calls'[e].got = answer => e = m
      <4>1. \A e \in DOMAIN calls : calls[e].got \in Nat
        BY <1>1 DEF CallRecord
      <4> QED
        BY <1>3, <2>4, <3>1, <3>2, <4>1
    <3>4. ASSUME answer # m
          PROVE  \E e \in 1 .. answer : calls'[e].left = "abandoned"
      <4>1. calls[answer].left \in {"answered", "abandoned"}
        BY <1>1, <1>4, <3>1, <3>4 DEF Settled, SentWritten, CallRecord
      <4>2. CASE calls[answer].left = "abandoned"
        <5>1. answer \in 1 .. answer
          BY <1>1, <3>1
        <5> QED
          BY <2>1, <3>1, <4>2, <5>1
      <4>3. CASE calls[answer].left = "answered"
        <5> PICK g : g = calls[answer].got
          OBVIOUS
        <5>1. g # 0 /\ g \in DOMAIN calls /\ g < answer
          BY <2>2, <3>1, <3>2, <3>4, <4>3 DEF Settled, Outcomes
        <5>2. PICK e \in 1 .. g : calls[e].left = "abandoned"
          BY <1>1, <3>1, <5>1 DEF Settled, AnswersPaired
        <5>3. e \in 1 .. answer
          BY <1>1, <3>1, <5>1, <5>2
        <5> QED
          BY <2>1, <5>1, <5>2, <5>3
      <4> QED
        BY <4>1, <4>2, <4>3
    <3> QED
      BY <3>3, <3>4
  <2> QED
    BY <1>3, <2>3, <2>4 DEF AnswersPaired
<1> QED
  BY <1>5, <1>6, <1>7, <1>8, <1>9 DEF Settled
LEMMA SettledStep ==
    ASSUME TypeInv, TypeInv', Order, Bounded, Settled, [Next]_vars
    PROVE  Settled'
<1> USE DEF outside, hostVars, callVars, threadVars
<1>0. op \in [Threads -> Operation]
  BY DEF TypeInv, OpOK
<1>1. ASSUME NEW t \in Threads, Write(t), port = "good" PROVE Settled'
  <2>1. /\ calls' = Append(calls, [left |-> "open", got |-> 0])
        /\ op' = [op EXCEPT ![t].pc = "wait", ![t].txn = Len(calls')]
        /\ op[t].pc = "write"
    BY <1>1 DEF Write, WriteRequest
  <2>2. Len(calls') = Len(calls) + 1
    BY <2>1, CallsAppend DEF TypeInv
  <2>3. PICK o : o = [op[t] EXCEPT !.pc = "wait", !.txn = Len(calls) + 1]
    OBVIOUS
  <2>4. o.pc = "wait" /\ o.txn = Len(calls) + 1 /\ op' = [op EXCEPT ![t] = o]
    BY <1>0, <2>1, <2>2, <2>3 DEF Operation
  <2>5. Waits = {} /\ Waits' = {t} /\ op'[t].txn = Len(calls) + 1
    <3>1. \A s \in Threads : op[s].pc # "wait"
      BY <2>1, OneWaits DEF TxnPoints
    <3> QED
      BY <1>0, <2>4, <3>1 DEF Waits
  <2>6. Sent' \subseteq Sent \union {Len(calls) + 1}
    BY OrderStep
  <2> QED
    BY <2>1, <2>5, <2>6, SettledBegun
<1>2. ASSUME NEW t \in Threads, WriteLine(t) PROVE Settled'
  <2>1. calls' = Append(calls, [left |-> "abandoned", got |-> 0])
    BY <1>2 DEF WriteLine
  <2>2. Sent' \subseteq Sent \union {Len(calls) + 1}
    BY OrderStep
  <2>3. WaitsSame
    <3>1. op[t].pc = "idle" /\ op'[t] = Idle /\ \A s \in Threads : s = t \/ op'[s] = op[s]
      <4>1. Start("write_line", t, Idle)
        BY <1>2 DEF WriteLine
      <4> QED
        BY <1>0, <4>1, IdleType DEF Start
    <3> QED
      BY <3>1, IdleType DEF WaitsSame, Waits
  <2> QED
    BY <2>1, <2>2, <2>3, SettledBegun
<1> SUFFICES ASSUME \A t \in Threads : ~Writes(t) PROVE Settled'
  BY <1>1, <1>2 DEF Writes, WriteLine
<1>3. Sent' \subseteq Sent
  BY OrderStep
\* The thread of a transaction leaves it.
<1>4. ASSUME NEW t \in Threads, op[t].pc \in TxnPoints, Goto(t, AfterTxn(t))
      PROVE  /\ op'[t].pc # "wait" /\ \A s \in Threads : s = t \/ op'[s] = op[s]
             /\ \A s \in Threads : s = t \/ op[s].pc # "wait"
             /\ Waits' = {}
  <2>1. AfterTxn(t) \in Points \ TxnPoints
    BY AfterTxnType
  <2>2. op'[t].pc = AfterTxn(t) /\ \A s \in Threads : s = t \/ op'[s] = op[s]
    BY <1>0, <1>4, <2>1, GotoStep
  <2>3. \A s \in Threads : s = t \/ op[s].pc # "wait"
    BY <1>4, OneWaits DEF TxnPoints
  <2> QED
    BY <2>1, <2>2, <2>3 DEF Waits, TxnPoints
<1>5. ASSUME NEW t \in Threads, Write(t) PROVE Settled'
  <2>1. /\ calls' = Append(calls, [left |-> "broken", got |-> 0])
        /\ op[t].pc = "write" /\ Goto(t, AfterTxn(t))
    BY <1>5 DEF Writes, Write, WriteRequest
  <2>2. Waits' = {} /\ \A s \in Threads : op[s].pc # "wait"
    BY <1>4, <2>1 DEF TxnPoints
  <2>3. WaitsSame
    BY <2>2 DEF WaitsSame, Waits
  <2> QED
    BY <1>3, <2>1, <2>3, SettledBegun
<1>6. ASSUME NEW t \in Threads, GetAnswer(t) PROVE Settled'
  <2>1. /\ op[t].pc = "wait" /\ pending # <<>> /\ pending' = Tail(pending)
        /\ Leave(t, "answered", Head(pending)) /\ Goto(t, AfterTxn(t))
        /\ UNCHANGED <<toDev, toHost>>
    BY <1>6 DEF GetAnswer
  <2>2. Waits' = {}
    BY <1>4, <2>1 DEF TxnPoints
  <2>3. /\ Head(pending) = pending[1] /\ 1 \in DOMAIN pending
        /\ \A k \in DOMAIN pending' : k + 1 \in DOMAIN pending /\ 1 < k + 1
                                      /\ pending'[k] = pending[k + 1]
    BY <2>1, QueueTypes, HeadTailProperties, SMTT(30)
  <2>4. Head(pending) \in Sent /\ \A n \in Sent' : Head(pending) < n
    <3>1. Head(pending) \in Sent
      BY <2>3 DEF Sent
    <3>2. \A n \in Sent' : Head(pending) < n
      BY <2>1, <2>3 DEF Sent, Order
    <3> QED
      BY <3>1, <3>2
  <2> QED
    BY <1>3, <2>1, <2>2, <2>4, SettledEnded
<1>7. ASSUME NEW t \in Threads, Timeout(t) PROVE Settled'
  <2>1. op[t].pc = "wait" /\ Leave(t, "abandoned", 0) /\ Goto(t, AfterTxn(t))
    BY <1>7 DEF Timeout
  <2>2. Waits' = {}
    BY <1>4, <2>1 DEF TxnPoints
  <2> QED
    BY <1>3, <2>1, <2>2, SettledEnded
<1>8. CASE \A t \in Threads : ~Write(t) /\ ~GetAnswer(t) /\ ~Timeout(t)
  <2>1. calls' = calls
    <3>1. ASSUME NEW t \in Threads, Begin(t) \/ Continue(t) PROVE calls' = calls
      <4>1. ~WriteLine(t)
        BY DEF Writes, WriteLine
      <4> QED
        BY <1>8, <3>1, <4>1 DEF Begin, Call, Reset, ExpectEvent, DrainEvents, Close, Continue,
              Acquire, Drain, CheckAlive, Reopen, Restart, Refresh, CloseTransport,
              JoinReader, TakeEvent, Sleep, NoEvent, GiveUp, WaitExpires, Go
    <3>2. CASE Environment \/ Reader \/ UNCHANGED vars
      BY <3>2 DEF Environment, Serve, RaiseEvent, Reboot, LinkDown, LinkUp, Damage, Reader,
                  ReadPart, ReadLine, ReaderEnds, vars
    <3> QED
      BY <3>1, <3>2 DEF Next
  <2>2. WaitsSame
    BY <1>8, OthersWait
  <2> QED
    BY <1>3, <2>1, <2>2, SettledSame
<1> QED
  BY <1>5, <1>6, <1>7, <1>8

DeliveryInv == Order /\ Bounded /\ Settled

LEMMA DeliveryInit == Init => DeliveryInv
<1> SUFFICES ASSUME Init PROVE DeliveryInv
  OBVIOUS
<1>1. toDev = <<>> /\ toHost = <<>> /\ pending = <<>> /\ calls = <<>>
  BY DEF Init
<1>2. Order /\ Bounded
  BY <1>1 DEF Order, Rising, Bounded
<1>3. Settled
  BY <1>1 DEF Settled, Outcomes, GotOlder, SentWritten, OpenWaits, AnswersPaired, Sent
<1> QED
  BY <1>2, <1>3 DEF DeliveryInv

LEMMA DeliveryAlways == Spec => [](TypeInv /\ DeliveryInv)
<1>1. TypeInv /\ DeliveryInv /\ [Next]_vars => (TypeInv /\ DeliveryInv)'
  BY TypeStep, OrderStep, BoundedStep, SettledStep DEF DeliveryInv
<1> QED
  BY <1>1, TypeInit, DeliveryInit, PTL DEF Spec

(***************************************************************************)
(* No answer is given to two calls, and a call gets another call's answer  *)
(* only if a request no newer than that one was abandoned: for any threads *)
(* calling at once, any reboots, lost lines and reconnections.             *)
(***************************************************************************)
THEOREM AnswersNeverCross == Spec => []AnswersPaired
<1>1. DeliveryInv => AnswersPaired
  BY DEF DeliveryInv, Settled
<1> QED
  BY <1>1, DeliveryAlways, PTL
-----------------------------------------------------------------------------
(* The deque.  What is filed was raised before what is on the wire.        *)
FiledSet == {filed[k] : k \in DOMAIN filed}

FiledBounded == \A k \in DOMAIN filed : /\ filed[k].kind \in {"event", "ready"}
                                        /\ filed[k].n <= Raised(filed[k].kind)

FiledFirst == \A i \in DOMAIN filed, k \in DOMAIN toHost :
                  filed[i].kind = toHost[k].kind => filed[i].n < toHost[k].n

Deque == FiledBounded /\ FiledFirst /\ taken \subseteq FiledSet /\ EventsKept

LEMMA EventTypes ==
    ASSUME TypeInv
    PROVE  /\ filed \in Seq(Lines) /\ Len(filed) \in Nat /\ DOMAIN filed = 1 .. Len(filed)
           /\ \A k \in DOMAIN filed : filed[k] \in Lines
           /\ events \in Seq(Lines) /\ Len(events) \in Nat /\ DOMAIN events = 1 .. Len(events)
           /\ \A kind : Raised(kind) \in Nat
BY LenProperties DEF TypeInv, EventsOK, NumbersOK, Raised

LEMMA RaisedRises ==
    ASSUME TypeInv, TypeInv', [Next]_vars, NEW kind
    PROVE  Raised(kind)' \in Nat /\ Raised(kind) \in Nat /\ Raised(kind) <= Raised(kind)'
BY HostMoves DEF TypeInv, NumbersOK, Raised

\* No two filed lines are equal.
LEMMA FiledDiffer ==
    ASSUME TypeInv, EventsKept, NEW j \in DOMAIN filed, NEW k \in DOMAIN filed, j # k
    PROVE  filed[j] # filed[k]
<1>1. j \in Nat /\ k \in Nat /\ filed[j].n \in Nat /\ filed[k].n \in Nat
  BY EventTypes DEF Lines
<1> QED
  BY <1>1 DEF EventsKept

\* No event is twice in the deque.
LEMMA EventsDiffer ==
    ASSUME TypeInv, EventsKept, NEW i \in DOMAIN events, NEW j \in DOMAIN events, i # j
    PROVE  events[i] # events[j]
<1>1. i \in Nat /\ j \in Nat /\ DOMAIN filed \subseteq Nat
  BY EventTypes
<1>2. ASSUME NEW a \in DOMAIN events, NEW b \in DOMAIN events, a < b
      PROVE  events[a] # events[b]
  <2>1. PICK k, l \in DOMAIN filed : k < l /\ events[a] = filed[k] /\ events[b] = filed[l]
    BY <1>2 DEF EventsKept
  <2> QED
    BY <1>1, <2>1, FiledDiffer
<1> QED
  BY <1>1, <1>2

\* The lines that come are of events that nobody has filed yet.
LEMMA FiledStays ==
    ASSUME TypeInv, TypeInv', Bounded, FiledBounded, FiledFirst, [Next]_vars, filed' = filed
    PROVE  FiledBounded' /\ FiledFirst'
<1>1. \A k \in DOMAIN filed : filed[k].n \in Nat /\ filed[k].kind \in {"event", "ready"}
  BY EventTypes DEF Lines, FiledBounded
<1>2. \A kind : Raised(kind) \in Nat /\ Raised(kind)' \in Nat /\ Raised(kind) <= Raised(kind)'
  BY RaisedRises
<1>3. FiledBounded'
  BY <1>1, <1>2 DEF FiledBounded
<1>4. CASE Thinned
  <2>1. PICK d \in Nat : \A k \in DOMAIN toHost' :
                             k + d \in DOMAIN toHost /\ SameBut(toHost'[k], toHost[k + d])
    BY <1>4 DEF Thinned
  <2>2. FiledFirst'
    BY <1>1, <2>1 DEF FiledFirst, SameBut
  <2> QED
    BY <1>3, <2>2
<1>5. ASSUME NEW kind, NEW n, Grown(Line(kind, n)),
             kind = "response" \/ n = Raised(kind) + 1
      PROVE  FiledFirst'
  <2>1. Line(kind, n).kind = kind /\ Line(kind, n).n = n
    BY DEF Line
  <2> SUFFICES ASSUME NEW i \in DOMAIN filed, NEW k \in DOMAIN toHost',
                      filed[i].kind = toHost'[k].kind
               PROVE  filed[i].n < toHost'[k].n
    BY DEF FiledFirst
  <2>2. CASE k \in DOMAIN toHost /\ toHost'[k] = toHost[k]
    BY <2>2 DEF FiledFirst
  <2>3. CASE toHost'[k] = Line(kind, n)
    <3>1. filed[i].kind = kind /\ n = Raised(kind) + 1
      BY <1>1, <1>5, <2>1, <2>3
    <3> QED
      BY <1>1, <1>2, <2>1, <2>3, <3>1 DEF FiledBounded
  <2> QED
    BY <1>1, <1>5, <2>2, <2>3 DEF Grown
<1> QED
  BY <1>3, <1>4, <1>5, HostMoves

\* A line of the wire is filed.
LEMMA DequeFiles ==
    ASSUME TypeInv, TypeInv', Order, Bounded, Deque, [Next]_vars,
           toHost # <<>>, toHost' = Tail(toHost),
           NEW line \in Lines, line.kind = toHost[1].kind, line.n = toHost[1].n,
           line.kind \in {"event", "ready"},
           events' = Append(events, line), filed' = Append(filed, line), taken' = taken
    PROVE  Deque'
<1> PICK m : m = Len(filed) + 1
  OBVIOUS
<1> PICK z : z = Len(events) + 1
  OBVIOUS
<1>1. /\ filed \in Seq(Lines) /\ Len(filed) \in Nat /\ DOMAIN filed = 1 .. Len(filed)
      /\ events \in Seq(Lines) /\ Len(events) \in Nat /\ DOMAIN events = 1 .. Len(events)
      /\ \A k \in DOMAIN filed : filed[k].n \in Nat
  BY EventTypes DEF Lines
<1>2. /\ DOMAIN filed' = 1 .. m /\ filed'[m] = line
      /\ \A k \in 1 .. Len(filed) : filed'[k] = filed[k]
      /\ DOMAIN events' = 1 .. z /\ events'[z] = line
      /\ \A k \in 1 .. Len(events) : events'[k] = events[k]
  BY <1>1, AppendProperties
<1>3. \A k \in DOMAIN filed' : \/ k \in DOMAIN filed /\ filed'[k] = filed[k]
                               \/ k = m /\ filed'[k] = line
  BY <1>1, <1>2
<1>4. /\ 1 \in DOMAIN toHost
      /\ \A k \in DOMAIN toHost' : /\ k \in Nat /\ k + 1 \in DOMAIN toHost /\ k + 1 > 1
                                   /\ toHost'[k] = toHost[k + 1]
  BY QueueTypes, HeadTailProperties, SMTT(30)
<1>5. \A k \in DOMAIN filed : filed[k].kind = line.kind => filed[k].n < line.n
  BY <1>4 DEF Deque, FiledFirst
<1>6. \A k \in DOMAIN toHost' : toHost'[k].kind = line.kind => line.n < toHost'[k].n
  BY <1>4 DEF Order, Rising, Numbered
<1>7. FiledFirst'
  <2> SUFFICES ASSUME NEW i \in DOMAIN filed', NEW k \in DOMAIN toHost',
                      filed'[i].kind = toHost'[k].kind
               PROVE  filed'[i].n < toHost'[k].n
    BY DEF FiledFirst
  <2>1. CASE i \in DOMAIN filed /\ filed'[i] = filed[i]
    BY <1>4, <2>1 DEF Deque, FiledFirst
  <2>2. CASE filed'[i] = line
    BY <1>6, <2>2
  <2> QED
    BY <1>3, <2>1, <2>2
<1>8. FiledBounded'
  <2>1. \A kind : Raised(kind) \in Nat /\ Raised(kind)' \in Nat /\ Raised(kind) <= Raised(kind)'
    BY RaisedRises
  <2>2. line.n <= Raised(line.kind) /\ line.n \in Nat
    BY <1>4 DEF Bounded, Lines
  <2> QED
    BY <1>1, <1>3, <2>1, <2>2, SMTT(30) DEF Deque, FiledBounded
<1>9. FiledSet' = FiledSet \union {line}
  <2>1. m \in DOMAIN filed' /\ \A k \in DOMAIN filed : k \in DOMAIN filed'
    BY <1>1, <1>2
  <2>2. FiledSet' = {filed'[k] : k \in DOMAIN filed'}
    BY DEF FiledSet
  <2>3. \A l \in FiledSet' : l \in FiledSet \union {line}
    BY <1>3, <2>2 DEF FiledSet
  <2>4. FiledSet \union {line} \subseteq FiledSet'
    BY <1>1, <1>2, <2>1, <2>2, SMTT(30) DEF FiledSet
  <2> QED
    BY <2>3, <2>4
<1>10. line \notin FiledSet
  <2> SUFFICES ASSUME NEW k \in DOMAIN filed, filed[k] = line PROVE FALSE
    BY DEF FiledSet
  <2>1. filed[k].n \in Nat /\ filed[k].kind = line.kind /\ filed[k].n = line.n
    BY <1>1
  <2>2. filed[k].n < line.n
    BY <1>5, <2>1
  <2> QED
    BY <2>1, <2>2
<1>11. EventSet' = EventSet \union {line}
  <2>1. \A k \in DOMAIN events' : \/ k \in DOMAIN events /\ events'[k] = events[k]
                                  \/ k = z /\ events'[k] = line
    BY <1>1, <1>2
  <2>2. z \in DOMAIN events' /\ \A k \in DOMAIN events : k \in DOMAIN events'
    BY <1>1, <1>2
  <2>3. EventSet' = {events'[k] : k \in DOMAIN events'}
    BY DEF EventSet
  <2>4. \A l \in EventSet' : l \in EventSet \union {line}
    BY <2>1, <2>3 DEF EventSet
  <2>5. EventSet \union {line} \subseteq EventSet'
    BY <1>1, <1>2, <2>2, <2>3 DEF EventSet
  <2> QED
    BY <2>4, <2>5
<1>12. EventsKept'
  <2>1. \A j, k \in DOMAIN filed' :
            j < k /\ filed'[j].kind = filed'[k].kind => filed'[j].n < filed'[k].n
    BY <1>1, <1>2, <1>3, <1>5 DEF Deque, EventsKept
  <2>2. EventSet' = FiledSet' \ taken'
    BY <1>9, <1>10, <1>11 DEF Deque, EventsKept, FiledSet
  <2>3. ASSUME NEW i \in DOMAIN events', NEW j \in DOMAIN events', i < j
        PROVE  \E k, l \in DOMAIN filed' : k < l /\ events'[i] = filed'[k] /\ events'[j] = filed'[l]
    <3>1. i \in DOMAIN events /\ events'[i] = events[i]
      BY <1>1, <1>2, <2>3
    <3>2. CASE j \in DOMAIN events
      <4>1. PICK k, l \in DOMAIN filed : k < l /\ events[i] = filed[k] /\ events[j] = filed[l]
        BY <2>3, <3>1, <3>2 DEF Deque, EventsKept
      <4> QED
        BY <1>1, <1>2, <3>1, <3>2, <4>1
    <3>3. CASE j \notin DOMAIN events
      <4>1. j = z /\ events'[j] = line
        BY <1>1, <1>2, <3>3
      <4>2. events[i] \in EventSet
        BY <3>1 DEF EventSet
      <4>3. PICK k \in DOMAIN filed : events[i] = filed[k]
        BY <4>2 DEF Deque, EventsKept
      <4>4. k \in DOMAIN filed' /\ m \in DOMAIN filed' /\ k < m
        BY <1>1, <1>2
      <4> QED
        BY <1>1, <1>2, <3>1, <4>1, <4>3, <4>4, SMTT(30)
    <3> QED
      BY <3>2, <3>3
  <2> QED
    BY <2>1, <2>2, <2>3 DEF EventsKept, FiledSet
<1> QED
  BY <1>7, <1>8, <1>9, <1>12 DEF Deque

\* Events are taken: those that stay keep their order.
LEMMA DequeTaken ==
    ASSUME TypeInv, TypeInv', Bounded, Deque, [Next]_vars, filed' = filed,
           NEW out \in SUBSET EventSet, taken' = taken \union out, EventSet' = EventSet \ out,
           \A i, j \in DOMAIN events' :
               i < j => \E a, b \in DOMAIN events :
                           a < b /\ events'[i] = events[a] /\ events'[j] = events[b]
    PROVE  Deque'
<1>1. FiledBounded' /\ FiledFirst'
  BY FiledStays DEF Deque
<1>2. EventSet = FiledSet \ taken /\ FiledSet' = FiledSet
  BY DEF Deque, EventsKept, FiledSet
<1>3. taken' \subseteq FiledSet' /\ EventSet' = FiledSet' \ taken'
  BY <1>2 DEF Deque
<1>4. ASSUME NEW i \in DOMAIN events', NEW j \in DOMAIN events', i < j
      PROVE  \E k, l \in DOMAIN filed' : k < l /\ events'[i] = filed'[k] /\ events'[j] = filed'[l]
  <2>1. PICK a, b \in DOMAIN events : a < b /\ events'[i] = events[a] /\ events'[j] = events[b]
    BY <1>4
  <2> QED
    BY <2>1 DEF Deque, EventsKept
<1>5. \A j, k \in DOMAIN filed' :
          j < k /\ filed'[j].kind = filed'[k].kind => filed'[j].n < filed'[k].n
  BY DEF Deque, EventsKept
<1>6. EventsKept'
  BY <1>3, <1>4, <1>5 DEF EventsKept, FiledSet
<1> QED
  BY <1>1, <1>3, <1>6 DEF Deque

LEMMA RemoveKeepsOrder ==
    ASSUME TypeInv, EventsKept, NEW k \in DOMAIN events, events' = RemoveEvent(k)
    PROVE  /\ EventSet' = EventSet \ {events[k]}
           /\ \A i, j \in DOMAIN events' :
                  i < j => \E a, b \in DOMAIN events :
                              a < b /\ events'[i] = events[a] /\ events'[j] = events[b]
<1> DEFINE from(i) == IF i < k THEN i ELSE i + 1
<1>1. Len(events) \in Nat /\ k \in 1 .. Len(events) /\ DOMAIN events = 1 .. Len(events)
      /\ events \in Seq(Lines)
  BY EventTypes
<1>2. /\ DOMAIN events' = 1 .. Len(events) - 1
      /\ \A i \in 1 .. Len(events) - 1 : events'[i] = events[from(i)]
  <2> PICK p : p = SubSeq(events, 1, k - 1)
    OBVIOUS
  <2> PICK q : q = SubSeq(events, k + 1, Len(events))
    OBVIOUS
  <2>1. /\ p \in Seq(Lines) /\ Len(p) = k - 1 /\ \A i \in 1 .. k - 1 : p[i] = events[i]
    BY <1>1, SubSeqProperties
  <2>2. /\ q \in Seq(Lines) /\ Len(q) = Len(events) - k
        /\ \A i \in 1 .. Len(events) - k : q[i] = events[k + i]
    BY <1>1, SubSeqProperties, SMTT(30)
  <2>3. events' = p \o q
    BY DEF RemoveEvent
  <2>4. /\ DOMAIN (p \o q) = 1 .. Len(p) + Len(q)
        /\ \A i \in 1 .. Len(p) + Len(q) :
               (p \o q)[i] = IF i <= Len(p) THEN p[i] ELSE q[i - Len(p)]
    <3>1. /\ Len(p \o q) = Len(p) + Len(q) /\ p \o q \in Seq(Lines)
          /\ \A i \in 1 .. Len(p) + Len(q) :
                 (p \o q)[i] = IF i <= Len(p) THEN p[i] ELSE q[i - Len(p)]
      <4>1. p \in Seq(Lines) /\ q \in Seq(Lines)
        BY <2>1, <2>2
      <4> QED
        BY <4>1, ConcatProperties, Zenon
    <3> QED
      BY <3>1, LenProperties
  <2>5. DOMAIN events' = 1 .. Len(events) - 1
    BY <1>1, <2>1, <2>2, <2>3, <2>4
  <2>6. ASSUME NEW i \in 1 .. Len(events) - 1 PROVE events'[i] = events[from(i)]
    <3>0. i \in 1 .. Len(p) + Len(q) /\ i \in Nat /\ k \in Nat
      BY <1>1, <2>1, <2>2, SMTT(30)
    <3>1. CASE i < k
      <4>1. i \in 1 .. k - 1 /\ i <= Len(p)
        BY <2>1, <3>0, <3>1, SMTT(30)
      <4> QED
        BY <2>1, <2>3, <2>4, <3>0, <3>1, <4>1
    <3>2. CASE ~(i < k)
      <4>0. ~(i <= Len(p)) /\ i - (k - 1) \in 1 .. Len(events) - k
        BY <1>1, <2>1, <3>0, <3>2, SMTT(30)
      <4>1. events'[i] = q[i - (k - 1)] /\ i - (k - 1) \in 1 .. Len(events) - k
        BY <2>1, <2>3, <2>4, <3>0, <4>0
      <4>2. k + (i - (k - 1)) = i + 1
        BY <1>1
      <4> QED
        BY <2>2, <3>2, <4>1, <4>2
    <3> QED
      BY <3>1, <3>2
  <2> QED
    BY <2>5, <2>6
<1>3. \A i \in 1 .. Len(events) - 1 : from(i) \in DOMAIN events /\ from(i) # k
  BY <1>1
<1>4. \A a \in DOMAIN events : a # k => \E i \in 1 .. Len(events) - 1 : from(i) = a
  <2> SUFFICES ASSUME NEW a \in DOMAIN events, a # k
               PROVE  \E i \in 1 .. Len(events) - 1 : from(i) = a
    OBVIOUS
  <2>1. CASE a < k
    <3>1. a \in 1 .. Len(events) - 1 /\ from(a) = a
      BY <1>1, <2>1
    <3> QED
      BY <3>1
  <2>2. CASE a > k
    <3>1. a - 1 \in 1 .. Len(events) - 1 /\ from(a - 1) = a
      BY <1>1, <2>2
    <3> QED
      BY <3>1
  <2> QED
    BY <1>1, <2>1, <2>2
<1>5. \A i, j \in 1 .. Len(events) - 1 : i < j => from(i) < from(j)
  BY <1>1
<1> HIDE DEF from
<1>6. EventSet' = EventSet \ {events[k]}
  <2>1. \A a \in DOMAIN events : a # k => events[a] # events[k]
    BY EventsDiffer
  <2>2. \A i \in DOMAIN events' : \E a \in DOMAIN events : a # k /\ events'[i] = events[a]
    BY <1>2, <1>3
  <2>3. \A a \in DOMAIN events : a # k => \E i \in DOMAIN events' : events'[i] = events[a]
    BY <1>2, <1>4
  <2> QED
    BY <2>1, <2>2, <2>3 DEF EventSet
<1> QED
  BY <1>2, <1>3, <1>5, <1>6
LEMMA DequeStep ==
    ASSUME TypeInv, TypeInv', Order, Bounded, Deque, [Next]_vars
    PROVE  Deque'
<1>0. ASSUME UNCHANGED <<events, filed, taken>> PROVE Deque'
  <2> PICK out \in SUBSET EventSet : out = {}
    OBVIOUS
  <2>1. filed' = filed /\ taken' = taken \union out /\ EventSet' = EventSet \ out
    BY <1>0 DEF EventSet
  <2>2. \A i, j \in DOMAIN events' :
            i < j => \E a, b \in DOMAIN events :
                        a < b /\ events'[i] = events[a] /\ events'[j] = events[b]
    BY <1>0
  <2> QED
    BY <2>1, <2>2, DequeTaken
<1>1. CASE Environment \/ ReadPart \/ ReaderEnds \/ UNCHANGED vars
  <2>1. UNCHANGED <<events, filed, taken>>
    BY <1>1 DEF Environment, Serve, RaiseEvent, Reboot, LinkDown, LinkUp, Damage, ReadPart,
                ReaderEnds, vars, hostVars, eventVars
  <2> QED
    BY <1>0, <2>1
<1>2. CASE ReadLine
  <2>1. PICK l \in WireLines :
              /\ l.kind = toHost[1].kind /\ l.n = toHost[1].n
              /\ FilesResponse(l) \/ FilesEvent(l) \/ FilesDamaged(l) \/ FilesNothing
    BY <1>2, ReadLineStep DEF TypeInv
  <2>2. CASE FilesEvent(l)
    <3>1. toHost # <<>> /\ toHost' = Tail(toHost)
      BY <1>2, ReadLineStep DEF TypeInv
    <3>2. l \in Lines
      BY DEF WireLines
    <3>3. /\ l.kind \in {"event", "ready"} /\ taken' = taken
          /\ events' = Append(events, l) /\ filed' = Append(filed, l)
      BY <2>2 DEF FilesEvent
    <3> QED
      BY <2>1, <3>1, <3>2, <3>3, DequeFiles
  <2>3. CASE ~FilesEvent(l)
    <3>1. UNCHANGED <<events, filed, taken>>
      BY <2>1, <2>3 DEF FilesResponse, FilesDamaged, FilesNothing, eventVars
    <3> QED
      BY <1>0, <3>1
  <2> QED
    BY <2>2, <2>3
<1>3. ASSUME NEW t \in Threads, DrainEvents(t) PROVE Deque'
  <2>1. events' = <<>> /\ taken' = taken \union EventSet /\ filed' = filed
    BY <1>3 DEF DrainEvents
  <2>2. EventSet' = EventSet \ EventSet /\ DOMAIN events' = {}
    BY <2>1 DEF EventSet
  <2> QED
    BY <2>1, <2>2, DequeTaken
<1>4. ASSUME NEW t \in Threads, TakeEvent(t) PROVE Deque'
  <2>1. PICK k \in DOMAIN events : events' = RemoveEvent(k) /\ taken' = taken \union {events[k]}
    BY <1>4 DEF TakeEvent, Matches
  <2>2. filed' = filed /\ {events[k]} \subseteq EventSet
    BY <1>4 DEF TakeEvent, EventSet
  <2>3. EventsKept
    BY DEF Deque
  <2>4. /\ EventSet' = EventSet \ {events[k]}
        /\ \A i, j \in DOMAIN events' :
               i < j => \E a, b \in DOMAIN events :
                           a < b /\ events'[i] = events[a] /\ events'[j] = events[b]
    BY <2>1, <2>3, RemoveKeepsOrder
  <2> QED
    BY <2>1, <2>2, <2>4, DequeTaken
<1>5. ASSUME NEW t \in Threads, Begin(t) \/ Continue(t), ~DrainEvents(t), ~TakeEvent(t)
      PROVE  Deque'
  <2>1. UNCHANGED <<events, filed, taken>>
    BY <1>5 DEF Begin, Call, Reset, ExpectEvent, WriteLine, Close, Continue, Acquire,
                Drain, Write, GetAnswer, Timeout, CheckAlive, Reopen, Restart, Refresh,
                CloseTransport, JoinReader, Sleep, NoEvent, GiveUp, WaitExpires, Go, eventVars
  <2> QED
    BY <1>0, <2>1
<1> QED
  BY <1>1, <1>2, <1>3, <1>4, <1>5 DEF Next, Reader

LEMMA DequeAlways == Spec => [](TypeInv /\ Deque)
<1>1. Init => Deque
  <2> SUFFICES ASSUME Init PROVE Deque
    OBVIOUS
  <2>1. filed = <<>> /\ events = <<>> /\ taken = {}
    BY DEF Init
  <2>2. EventSet = {} /\ FiledSet = {}
    BY <2>1 DEF EventSet, FiledSet
  <2>3. EventsKept
    BY <2>1, <2>2 DEF EventsKept, FiledSet
  <2> QED
    BY <2>1, <2>2, <2>3 DEF Deque, FiledBounded, FiledFirst
<1>2. TypeInv /\ DeliveryInv /\ TypeInv' /\ Deque /\ [Next]_vars => Deque'
  BY DequeStep DEF DeliveryInv
<1> QED
  BY <1>1, <1>2, DeliveryAlways, PTL DEF Spec

(***************************************************************************)
(* The deque is what the reader filed and nobody took, in the order of     *)
(* filing, whichever threads take, drain and wait for events, and the      *)
(* device's events are filed in order, none twice.                         *)
(***************************************************************************)
THEOREM EventsNeverLost == Spec => []EventsKept
<1>1. Deque => EventsKept
  BY DEF Deque
<1> QED
  BY <1>1, DequeAlways, PTL

\* A search that ends without an event found none.  Only its own thread ends it,
\* and one that takes an event takes it out of the deque, where no event is that
\* was taken before.
LEMMA GivingUp ==
    ASSUME TypeInv, Deque, [Next]_vars, NEW t \in Threads, GivesUp(t)
    PROVE  Matches(t) = {}
<1>0. /\ op \in [Threads -> Operation] /\ op[t].pc \in {"scan", "lastScan"}
      /\ op'[t].pc \in {"refresh", "idle"} /\ taken' = taken
  BY DEF TypeInv, OpOK, GivesUp, AfterExpect
<1>1. CASE Environment \/ ReadPart \/ ReaderEnds \/ UNCHANGED vars
  <2>1. op' = op
    BY <1>1 DEF Environment, Serve, RaiseEvent, Reboot, LinkDown, LinkUp, Damage, ReadPart,
                ReaderEnds, vars, hostVars, threadVars
  <2> QED
    BY <1>0, <2>1
<1>2. CASE ReadLine
  BY <1>0, <1>2, LineMoves
<1>3. ASSUME NEW s \in Threads, Begin(s) \/ Continue(s) PROVE Matches(t) = {}
  <2>1. s = t
    BY <1>0, <1>3, OthersStay
  <2>2. ~Begin(t)
    BY <1>0 DEF Begin, Call, Reset, ExpectEvent, DrainEvents, WriteLine, Close, Start
  <2>3. TakeEvent(t) \/ Sleep(t) \/ NoEvent(t)
    BY <1>0, <1>3, <2>1, <2>2 DEF Continue, Acquire, Drain, Write, GetAnswer, Timeout,
              CheckAlive, Reopen, Restart, Refresh, CloseTransport, JoinReader, WaitExpires
  <2>4. ~TakeEvent(t)
    <3> SUFFICES ASSUME TakeEvent(t) PROVE FALSE
      OBVIOUS
    <3>1. PICK k \in DOMAIN events : taken' = taken \union {events[k]}
      BY DEF TakeEvent, Matches
    <3>2. events[k] \in EventSet
      BY DEF EventSet
    <3>3. events[k] \notin taken
      BY <3>2 DEF Deque, EventsKept
    <3> QED
      BY <1>0, <3>1, <3>3
  <2> QED
    BY <2>3, <2>4 DEF Sleep, NoEvent
<1> QED
  BY <1>1, <1>2, <1>3 DEF Next, Reader

(***************************************************************************)
(* No thread leaves expect_event() empty-handed while the event it waits   *)
(* for is in the deque, also when it came as the wait expired.             *)
(***************************************************************************)
THEOREM TimeoutsHonest == Spec => NoFalseTimeout
<1>1. TypeInv /\ Deque /\ [Next]_vars => [\A t \in Threads : GivesUp(t) => Matches(t) = {}]_vars
  BY GivingUp
<1> QED
  BY <1>1, DequeAlways, PTL DEF Spec, NoFalseTimeout
-----------------------------------------------------------------------------
(* Malformed lines.  The reader joins two halves that do not belong to     *)
(* each other only where a reboot has cut a line short: the first half of  *)
(* a cut line is on the wire, or it is Owed: in _buf, before a line that   *)
(* is not begun.  What a dead link leaves in _buf is not, for no reader    *)
(* finds it there over the link that follows.                              *)
Owed == IF /\ reader /\ half /\ port = "good"
           /\ toHost = <<>> \/ ~toHost[1].begun
        THEN 1 ELSE 0

CutShort(line) == IF line.kind = "fragment" THEN 1 ELSE 0

\* f[k] counts the malformed lines that there were and that the first k lines
\* of the wire lead to: low is what there is before the first.
Covers(f, lines, low, high) ==
    /\ f \in [0 .. Len(lines) -> Nat]
    /\ low <= f[0]
    /\ \A k \in DOMAIN lines : f[k - 1] + CutShort(lines[k]) <= f[k]
    /\ \A k \in 0 .. Len(lines) : f[k] <= high

Covered(lines, low, high) == \E f : Covers(f, lines, low, high)

Silent == port # "good" => toHost = <<>>

Halved == \A k \in DOMAIN toHost : toHost[k].begun => k = 1 /\ half /\ toHost[k].kind # "fragment"

Reopening == /\ op[Manager].pc = "join" => port # "good"
             /\ op[Manager].pc = "restart" => /\ ~reader
                                              /\ \A k \in DOMAIN toHost : ~toHost[k].begun

Halves == Silent /\ Halved /\ Reopening /\ Covered(toHost, malformed + Owed, cuts)

LEMMA CutTypes == \A l : CutShort(l) \in {0, 1}
BY DEF CutShort

\* Lines that are cut short in the same places.
LEMMA CoveredSame ==
    ASSUME NEW s \in Seq(Lines), NEW r \in Seq(Lines), NEW low \in Nat, NEW high \in Nat,
           NEW few \in Nat, NEW many \in Nat, few <= low, high <= many,
           Covered(s, low, high), Len(r) = Len(s),
           \A k \in DOMAIN s : CutShort(r[k]) = CutShort(s[k])
    PROVE  Covered(r, few, many)
<1>1. PICK f : Covers(f, s, low, high)
  BY DEF Covered
<1>2. Len(s) \in Nat /\ DOMAIN s = 1 .. Len(s) /\ DOMAIN r = DOMAIN s
  BY LenProperties
<1>3. Covers(f, r, few, many)
  BY <1>1, <1>2 DEF Covers
<1> QED
  BY <1>3 DEF Covered

\* No lines.
LEMMA CoveredNone ==
    ASSUME NEW s \in Seq(Lines), NEW low \in Nat, NEW high \in Nat, NEW few \in Nat,
           few <= low, Covered(s, low, high)
    PROVE  Covered(<<>>, few, high)
<1>1. PICK f : Covers(f, s, low, high)
  BY DEF Covered
<1>2. Len(s) \in Nat
  BY LenProperties
<1>3. f[0] \in Nat /\ few <= f[0] /\ f[0] <= high
  BY <1>1, <1>2 DEF Covers
<1> PICK g : g = [k \in 0 .. 0 |-> f[0]]
  OBVIOUS
<1>4. Covers(g, <<>>, few, high)
  BY <1>3 DEF Covers
<1> QED
  BY <1>4 DEF Covered

\* All but the first line.
LEMMA CoveredTail ==
    ASSUME NEW s \in Seq(Lines), s # <<>>, NEW low \in Nat, NEW high \in Nat, NEW few \in Nat,
           few <= low + CutShort(s[1]), Covered(s, low, high)
    PROVE  Covered(Tail(s), few, high)
<1>1. PICK f : Covers(f, s, low, high)
  BY DEF Covered
<1>2. /\ Len(s) \in Nat \ {0} /\ DOMAIN s = 1 .. Len(s)
      /\ Len(Tail(s)) = Len(s) - 1 /\ DOMAIN Tail(s) = 1 .. Len(s) - 1
      /\ \A k \in 1 .. Len(s) - 1 : Tail(s)[k] = s[k + 1]
  BY LenProperties, HeadTailProperties, EmptySeq
<1> PICK g : g = [k \in 0 .. Len(s) - 1 |-> f[k + 1]]
  OBVIOUS
<1>3. \A k \in 0 .. Len(s) - 1 : g[k] = f[k + 1] /\ k + 1 \in 0 .. Len(s)
  BY <1>2
<1>4. g \in [0 .. Len(Tail(s)) -> Nat] /\ \A k \in 0 .. Len(Tail(s)) : g[k] <= high
  BY <1>1, <1>2, <1>3 DEF Covers
<1>5. few <= g[0]
  <2>0. /\ 1 \in DOMAIN s /\ 0 \in 0 .. Len(s) /\ 1 \in 0 .. Len(s)
        /\ 0 \in 0 .. Len(s) - 1 /\ 1 - 1 = 0 /\ 0 + 1 = 1
    BY <1>2
  <2>1. low <= f[0] /\ f[1 - 1] + CutShort(s[1]) <= f[1] /\ g[0] = f[1]
        /\ f[0] \in Nat /\ f[1] \in Nat
    BY <1>1, <1>3, <2>0 DEF Covers
  <2> QED
    BY <2>1, CutTypes
<1>6. ASSUME NEW k \in DOMAIN Tail(s) PROVE g[k - 1] + CutShort(Tail(s)[k]) <= g[k]
  <2>1. k \in 1 .. Len(s) - 1 /\ k - 1 \in 0 .. Len(s) - 1 /\ k \in 0 .. Len(s) - 1
        /\ k + 1 \in DOMAIN s /\ (k - 1) + 1 = k /\ (k + 1) - 1 = k
    BY <1>2
  <2>2. g[k - 1] = f[k] /\ g[k] = f[k + 1] /\ Tail(s)[k] = s[k + 1]
    BY <1>2, <1>3, <2>1
  <2>3. f[(k + 1) - 1] + CutShort(s[k + 1]) <= f[k + 1]
    BY <1>1, <2>1 DEF Covers
  <2> QED
    BY <2>1, <2>2, <2>3
<1>7. Covers(g, Tail(s), few, high)
  BY <1>4, <1>5, <1>6 DEF Covers
<1> QED
  BY <1>7 DEF Covered

\* One more line.
LEMMA CoveredAppend ==
    ASSUME NEW s \in Seq(Lines), NEW l \in Lines, NEW low \in Nat, NEW high \in Nat,
           Covered(s, low, high)
    PROVE  Covered(Append(s, l), low, high + CutShort(l))
<1>1. PICK f : Covers(f, s, low, high)
  BY DEF Covered
<1> PICK m : m = Len(s) + 1
  OBVIOUS
<1> PICK r : r = Append(s, l)
  OBVIOUS
<1>2. /\ Len(s) \in Nat /\ DOMAIN s = 1 .. Len(s) /\ m \in Nat
      /\ Len(r) = m /\ DOMAIN r = 1 .. m
      /\ \A k \in 1 .. Len(s) : r[k] = s[k]
      /\ r[m] = l
  BY LenProperties, AppendProperties
<1> PICK g : g = [k \in 0 .. m |-> IF k = m THEN f[Len(s)] + CutShort(l) ELSE f[k]]
  OBVIOUS
<1>3. /\ \A k \in 0 .. Len(s) : g[k] = f[k] /\ f[k] \in Nat /\ f[k] <= high
      /\ g[m] = f[Len(s)] + CutShort(l)
  BY <1>1, <1>2 DEF Covers
<1>4. CutShort(l) \in {0, 1} /\ Len(s) \in 0 .. Len(s)
  BY <1>2, CutTypes
<1>5. f[Len(s)] \in Nat /\ f[Len(s)] <= high
  BY <1>3, <1>4
<1>6. g \in [0 .. Len(r) -> Nat]
  BY <1>2, <1>3, <1>4, SMTT(30)
<1>7. low <= g[0]
  BY <1>1, <1>2, <1>3 DEF Covers
<1>8. \A k \in 0 .. Len(r) : g[k] <= high + CutShort(l)
  <2>1. \A k \in 0 .. m : k \in 0 .. Len(s) \/ k = m
    BY <1>2
  <2>2. g[m] = f[Len(s)] + CutShort(l)
    BY <1>3
  <2>3. g[m] \in Nat /\ g[m] <= high + CutShort(l)
    BY <1>4, <1>5, <2>2
  <2> QED
    BY <1>2, <1>3, <1>4, <2>1, <2>3, SMTT(30)
<1>9. ASSUME NEW k \in DOMAIN r PROVE g[k - 1] + CutShort(r[k]) <= g[k]
  <2>1. CASE k \in 1 .. Len(s)
    <3>1. k \in 0 .. Len(s) /\ k - 1 \in 0 .. Len(s)
      BY <1>2, <2>1
    <3>2. f[k - 1] + CutShort(s[k]) <= f[k]
      BY <1>1, <1>2, <2>1 DEF Covers
    <3> QED
      BY <1>2, <1>3, <2>1, <3>1, <3>2
  <2>2. CASE k = m
    <3>1. k - 1 = Len(s)
      BY <1>2, <2>2
    <3>2. g[k - 1] = f[Len(s)]
      BY <1>3, <1>4, <3>1
    <3>3. r[k] = l /\ g[k] = f[Len(s)] + CutShort(l)
      BY <1>2, <1>3, <2>2
    <3> QED
      BY <1>4, <1>5, <3>2, <3>3
  <2> QED
    BY <1>2, <2>1, <2>2
<1>10. Covers(g, r, low, high + CutShort(l))
  BY <1>6, <1>7, <1>8, <1>9 DEF Covers
<1> QED
  BY <1>10 DEF Covered
LEMMA HalvesTypes ==
    ASSUME TypeInv, TypeInv'
    PROVE  /\ malformed \in Nat /\ cuts \in Nat /\ Owed \in {0, 1} /\ toHost \in Seq(Lines)
           /\ Len(toHost) \in Nat /\ DOMAIN toHost = 1 .. Len(toHost)
           /\ malformed' \in Nat /\ cuts' \in Nat /\ Owed' \in {0, 1} /\ toHost' \in Seq(Lines)
           /\ malformed + Owed \in Nat /\ malformed' + Owed' \in Nat
           /\ half \in BOOLEAN /\ half' \in BOOLEAN /\ op \in [Threads -> Operation]
<1>1. toHost' \in Seq(WireLines')
  BY DEF TypeInv, WireOK
<1>2. WireLines' \subseteq Lines
  BY DEF WireLines, Lines
<1>3. toHost' \in Seq(Lines)
  BY <1>1, <1>2, SeqMonotonic
<1>4. malformed \in Nat /\ cuts \in Nat /\ malformed' \in Nat /\ cuts' \in Nat
      /\ half \in BOOLEAN /\ half' \in BOOLEAN /\ op \in [Threads -> Operation]
  BY DEF TypeInv, NumbersOK, OpOK
<1>5. Owed \in {0, 1} /\ Owed' \in {0, 1}
  BY DEF Owed
<1>6. malformed + Owed \in Nat /\ malformed' + Owed' \in Nat
  <2>1. \A m \in Nat, o \in {0, 1} : m + o \in Nat
    OBVIOUS
  <2> QED
    BY <1>4, <1>5, <2>1
<1>7. toHost \in Seq(Lines) /\ Len(toHost) \in Nat /\ DOMAIN toHost = 1 .. Len(toHost)
  BY QueueTypes
<1> QED
  BY <1>3, <1>4, <1>5, <1>6, <1>7

\* The device prints a line, whole or after one that it cut short.
LEMMA HalvesPrinted ==
    ASSUME TypeInv, TypeInv', Halves, UNCHANGED <<port, reader, half, malformed, op>>,
           NEW l \in Lines, l.kind # "fragment", ~l.begun,
           \/ toHost' = Printed(<<l>>) /\ cuts' = cuts
           \/ toHost' = Printed(<<Fragment, l>>) /\ cuts' = cuts + 1
    PROVE  Halves'
<1>0. Silent /\ Halved /\ Reopening /\ Covered(toHost, malformed + Owed, cuts)
  BY DEF Halves
<1>1. CASE toHost' = toHost
  <2>1. Owed' = Owed /\ malformed' = malformed /\ cuts <= cuts'
    BY <1>1, HalvesTypes DEF Owed
  <2>2. Covered(toHost', malformed' + Owed', cuts')
    BY <1>0, <1>1, <2>1, HalvesTypes, CoveredSame
  <2> QED
    BY <1>0, <1>1, <2>2 DEF Halves, Silent, Halved, Reopening
<1>2. CASE toHost' # toHost
  <2>1. PICK f : f = Fragment
    OBVIOUS
  <2>2. f \in Lines /\ f.kind = "fragment" /\ ~f.begun
    BY <2>1 DEF Fragment, Line, Lines
  <2>3. port = "good"
    BY <1>2 DEF Printed
  <2>4. \/ toHost' = Append(toHost, l) /\ cuts' = cuts
        \/ toHost' = Append(Append(toHost, f), l) /\ cuts' = cuts + 1
    BY <2>1, <2>2, <2>3, HalvesTypes, SMTT(30) DEF Printed
  <2>5. /\ Append(toHost, f) \in Seq(Lines)
        /\ CutShort(l) = 0 /\ CutShort(f) = 1
    BY <2>2, HalvesTypes, AppendProperties DEF CutShort
  <2>6. Covered(toHost', malformed + Owed, cuts')
    <3>1. CASE toHost' = Append(toHost, l) /\ cuts' = cuts
      <4>1. Covered(Append(toHost, l), malformed + Owed, cuts + 0)
        BY <1>0, <2>5, HalvesTypes, CoveredAppend
      <4> QED
        BY <3>1, <4>1, HalvesTypes
    <3>2. CASE toHost' = Append(Append(toHost, f), l) /\ cuts' = cuts + 1
      <4>1. Covered(Append(toHost, f), malformed + Owed, cuts + 1)
        BY <1>0, <2>2, <2>5, HalvesTypes, CoveredAppend
      <4>2. PICK top \in Nat : top = cuts + 1 /\ top + 0 = top
        BY HalvesTypes
      <4>3. Covered(Append(Append(toHost, f), l), malformed + Owed, top + 0)
        BY <2>5, <4>1, <4>2, HalvesTypes, CoveredAppend
      <4> QED
        BY <3>2, <4>2, <4>3
    <3> QED
      BY <2>4, <3>1, <3>2
  <2>7. /\ \A k \in DOMAIN toHost' : \/ k \in DOMAIN toHost /\ toHost'[k] = toHost[k]
                                     \/ k \notin DOMAIN toHost /\ toHost'[k] \in {f, l}
        /\ \A k \in DOMAIN toHost : toHost'[k] = toHost[k]
        /\ Len(toHost) + 1 \in DOMAIN toHost'
    <3> PICK n : n = Len(toHost)
      OBVIOUS
    <3>1. n \in Nat /\ DOMAIN toHost = 1 .. n
      BY HalvesTypes
    <3>2. CASE toHost' = Append(toHost, l)
      <4>1. /\ DOMAIN toHost' = 1 .. n + 1 /\ toHost'[n + 1] = l
            /\ \A k \in 1 .. n : toHost'[k] = toHost[k]
        BY <3>2, HalvesTypes, AppendProperties
      <4>2. \A k \in 1 .. n + 1 : k \in 1 .. n \/ (k = n + 1 /\ k \notin 1 .. n)
        BY <3>1
      <4> QED
        BY <3>1, <4>1, <4>2
    <3>3. CASE toHost' = Append(Append(toHost, f), l)
      <4> PICK a : a = Append(toHost, f)
        OBVIOUS
      <4>1. /\ a \in Seq(Lines) /\ Len(a) = n + 1 /\ a[n + 1] = f
            /\ \A k \in 1 .. n : a[k] = toHost[k]
        BY <2>2, HalvesTypes, AppendProperties
      <4>2. /\ DOMAIN toHost' = 1 .. Len(a) + 1 /\ toHost'[Len(a) + 1] = l
            /\ \A k \in 1 .. Len(a) : toHost'[k] = a[k]
        BY <3>3, <4>1, AppendProperties
      <4>3. \A k \in 1 .. Len(a) + 1 : \/ k \in 1 .. n /\ k \in 1 .. Len(a)
                                       \/ k = n + 1 /\ k \in 1 .. Len(a) /\ k \notin 1 .. n
                                       \/ k = Len(a) + 1 /\ k \notin 1 .. n
        BY <3>1, <4>1
      <4>4. \A k \in 1 .. n : k \in 1 .. Len(a)
        BY <3>1, <4>1
      <4> QED
        BY <3>1, <4>1, <4>2, <4>3, <4>4
    <3> QED
      BY <2>4, <3>2, <3>3
  <2>8. \A k \in DOMAIN toHost' : \/ k \in DOMAIN toHost /\ toHost'[k] = toHost[k]
                                  \/ ~toHost'[k].begun
    BY <2>2, <2>7
  <2>9. toHost' # <<>> /\ (toHost = <<>> => ~toHost'[1].begun)
        /\ (toHost # <<>> => toHost'[1] = toHost[1])
    <3>1. Len(toHost) = 0 <=> toHost = <<>>
      BY HalvesTypes, EmptySeq
    <3>2. 1 \in DOMAIN toHost' /\ (toHost # <<>> => 1 \in 1 .. Len(toHost))
      BY <2>7, <3>1, HalvesTypes
    <3>3. toHost = <<>> => toHost'[1] \in {f, l}
      BY <2>7, <3>1, <3>2, HalvesTypes
    <3> QED
      BY <2>2, <2>7, <3>2, <3>3
  <2>10. Owed' = Owed
    BY <2>9 DEF Owed
  <2>11. Covered(toHost', malformed' + Owed', cuts')
    BY <2>6, <2>10
  <2> QED
    BY <1>0, <2>3, <2>8, <2>11 DEF Halves, Silent, Halved, Reopening
<1> QED
  BY <1>1, <1>2

\* The link dies or is closed.
LEMMA HalvesEmptied ==
    ASSUME TypeInv, TypeInv', Halves, UNCHANGED <<malformed, cuts>>,
           toHost' = <<>>, port' # "good", op'[Manager].pc = "restart" => ~reader'
    PROVE  Halves'
<1>1. Owed' = 0 /\ malformed' + Owed' <= malformed + Owed
  BY HalvesTypes DEF Owed
<1>2. Covered(toHost', malformed' + Owed', cuts')
  BY <1>1, HalvesTypes, CoveredNone DEF Halves
<1> QED
  BY <1>2 DEF Halves, Silent, Halved, Reopening

\* Nothing happens to the lines.
LEMMA HalvesSame ==
    ASSUME TypeInv, TypeInv', Halves, UNCHANGED <<toHost, malformed, cuts>>,
           Silent', Halved', Reopening', Owed' <= Owed
    PROVE  Halves'
<1>1. malformed' + Owed' <= malformed + Owed /\ cuts <= cuts'
  BY HalvesTypes
<1>2. Covered(toHost', malformed' + Owed', cuts')
  BY <1>1, HalvesTypes, CoveredSame DEF Halves
<1> QED
  BY <1>2 DEF Halves
\* The reader takes a line, or the first part of one, or of a cut one.
LEMMA HalvesRead ==
    ASSUME TypeInv, TypeInv', Halves, ReadPart \/ ReadLine
    PROVE  Halves'
<1>0. /\ Halved /\ Reopening /\ Covered(toHost, malformed + Owed, cuts)
      /\ reader /\ port = "good" /\ toHost # <<>> /\ port' = "good" /\ cuts' = cuts
  BY DEF Halves, ReadPart, ReadLine, Reading, deviceVars
<1>1. Silent' /\ Reopening'
  <2>1. op[Manager].pc \notin {"join", "restart"}
    BY <1>0 DEF Reopening
  <2>2. CASE ReadPart
    BY <1>0, <2>1, <2>2 DEF Silent, Reopening, ReadPart, threadVars
  <2>3. CASE ReadLine
    <3>1. op'[Manager].pc \notin {"join", "restart"}
      BY <2>1, <2>3, LineMoves
    <3> QED
      BY <1>0, <3>1 DEF Silent, Reopening
  <2> QED
    BY <2>2, <2>3
<1>2. /\ 1 \in DOMAIN toHost /\ Head(toHost) = toHost[1] /\ toHost[1] \in Lines
      /\ toHost[1].begun => half
      /\ half \in BOOLEAN /\ toHost[1].begun \in BOOLEAN
  <2>1. 1 \in DOMAIN toHost /\ Head(toHost) = toHost[1] /\ toHost[1] \in Lines
    BY <1>0, HalvesTypes, HeadTailProperties
  <2> QED
    BY <1>0, <2>1, HalvesTypes DEF Halved, Lines
\* The next line is not begun: what the one before left in _buf is not owed twice.
<1>3. ASSUME toHost' = Tail(toHost)
      PROVE  \A k \in DOMAIN toHost' : ~toHost'[k].begun
  <2>1. \A k \in DOMAIN toHost' : k + 1 \in DOMAIN toHost /\ k + 1 # 1 /\ toHost'[k] = toHost[k + 1]
    BY <1>0, <1>3, HalvesTypes, HeadTailProperties
  <2> QED
    BY <1>0, <2>1 DEF Halved
<1>4. ASSUME toHost' = Tail(toHost),
             malformed' + Owed' <= malformed + Owed + CutShort(toHost[1])
      PROVE  Halves'
  <2>1. (malformed + Owed) + CutShort(toHost[1]) = malformed + Owed + CutShort(toHost[1])
    OBVIOUS
  <2>2. Covered(toHost', malformed' + Owed', cuts')
    BY <1>0, <1>4, <2>1, HalvesTypes, CoveredTail
  <2> QED
    BY <1>1, <1>3, <1>4, <2>2 DEF Halves, Halved
<1>5. CASE ReadPart
  <2>1. ~half /\ half' = TRUE /\ malformed' = malformed
    BY <1>5 DEF ReadPart
  <2>2. Owed = 0
    BY <2>1 DEF Owed
  <2>3. CASE toHost[1].kind = "fragment" /\ toHost' = Tail(toHost)
    <3>1. CutShort(toHost[1]) = 1
      BY <2>3 DEF CutShort
    <3> QED
      BY <1>4, <2>1, <2>2, <2>3, <3>1, HalvesTypes
  <2>4. CASE toHost[1].kind # "fragment" /\ toHost' = [toHost EXCEPT ![1].begun = TRUE]
    <3> PICK l : l = [toHost[1] EXCEPT !.begun = TRUE]
      OBVIOUS
    <3>1. l.begun /\ l.kind = toHost[1].kind
      BY <1>2 DEF Lines
    <3>2. DOMAIN toHost' = DOMAIN toHost /\ toHost'[1] = l
          /\ \A k \in DOMAIN toHost : k # 1 => toHost'[k] = toHost[k]
      BY <1>2, <2>4
    <3>3. toHost' # <<>>
      BY <1>2, <3>2
    <3>4. Owed' = 0
      BY <3>1, <3>2, <3>3 DEF Owed
    <3>5. Len(toHost') = Len(toHost) /\ \A k \in DOMAIN toHost : CutShort(toHost'[k]) = CutShort(toHost[k])
      BY <1>2, <2>4, <3>1, <3>2, HalvesTypes, LenProperties, SMTT(30) DEF CutShort
    <3>6. Covered(toHost', malformed' + Owed', cuts')
      BY <1>0, <2>1, <2>2, <3>4, <3>5, HalvesTypes, CoveredSame, SMTT(30)
    <3>7. Halved'
      BY <1>0, <2>1, <2>4, <3>1, <3>2 DEF Halved
    <3> QED
      BY <1>1, <3>6, <3>7 DEF Halves
  <2> QED
    BY <1>2, <1>5, <2>3, <2>4 DEF ReadPart
<1>6. CASE ReadLine
  <2>1. /\ half' = FALSE /\ toHost' = Tail(toHost) /\ toHost[1].kind # "fragment"
        /\ \/ malformed' = malformed
           \/ toHost[1].begun # half /\ malformed' = malformed + 1
    BY <1>2, <1>6 DEF ReadLine
  <2>2. Owed' = 0 /\ CutShort(toHost[1]) = 0
    BY <2>1 DEF Owed, CutShort
  <2>3. toHost[1].begun # half => Owed = 1
    BY <1>0, <1>2 DEF Owed
  <2> QED
    BY <1>4, <2>1, <2>2, <2>3, HalvesTypes
<1> QED
  BY <1>5, <1>6

LEMMA HalvesStep ==
    ASSUME TypeInv, TypeInv', Owned, Halves, [Next]_vars
    PROVE  Halves'
<1> USE DEF outside, deviceVars, linkVars, hostVars, readerVars, threadVars
<1>0. Silent /\ Halved /\ Reopening
  BY DEF Halves
<1>1. CASE Serve \/ RaiseEvent \/ Reboot
  <2>1. UNCHANGED <<port, reader, half, malformed, op>>
    BY <1>1 DEF Serve, RaiseEvent, Reboot
  <2>2. ASSUME NEW kind \in {"response", "event", "ready"}, NEW n \in Nat,
               \/ toHost' = Printed(<<Line(kind, n)>>) /\ cuts' = cuts
               \/ toHost' = Printed(<<Fragment, Line(kind, n)>>) /\ cuts' = cuts + 1
        PROVE  Halves'
    <3>1. Line(kind, n) \in Lines /\ Line(kind, n).kind = kind /\ ~Line(kind, n).begun
      BY DEF Line, Lines
    <3>2. PICK l \in Lines : l = Line(kind, n) /\ l.kind # "fragment" /\ ~l.begun
      BY <3>1
    <3> QED
      BY <2>1, <2>2, <3>2, HalvesPrinted
  <2>3. CASE Serve
    <3>1. /\ toDev # <<>> /\ cuts' = cuts
          /\ toHost' = Printed(<<Line("response", Head(toDev).n)>>)
      BY <2>3 DEF Serve
    <3>2. Head(toDev).n \in Nat
      BY <3>1, QueueTypes, HeadTailProperties, SMTT(30)
    <3> QED
      BY <2>2, <3>1, <3>2
  <2>4. raised + 1 \in Nat /\ boots + 1 \in Nat
    BY DEF TypeInv, NumbersOK
  <2>5. CASE RaiseEvent
    BY <2>2, <2>4, <2>5 DEF RaiseEvent
  <2>6. CASE Reboot
    BY <2>2, <2>4, <2>6 DEF Reboot
  <2> QED
    BY <1>1, <2>3, <2>5, <2>6
<1>2. CASE LinkDown
  <2>1. /\ toHost' = <<>> /\ port' # "good"
        /\ UNCHANGED <<malformed, cuts, op, reader>>
    BY <1>2 DEF LinkDown
  <2> QED
    BY <1>0, <2>1, HalvesEmptied DEF Reopening
<1>3. CASE LinkUp \/ ReaderEnds \/ UNCHANGED vars
  <2>1. /\ UNCHANGED <<toHost, malformed, cuts, half, port, op>>
        /\ reader' = reader \/ reader' = FALSE
    BY <1>3 DEF LinkUp, ReaderEnds, vars
  <2>2. Owed' <= Owed
    BY <2>1, HalvesTypes DEF Owed
  <2>3. Silent' /\ Halved' /\ Reopening'
    BY <1>0, <2>1 DEF Silent, Halved, Reopening
  <2> QED
    BY <2>1, <2>2, <2>3, HalvesSame
<1>4. CASE Damage
  <2>1. /\ toHost # <<>> /\ toHost' = [toHost EXCEPT ![1].kind = "damaged"]
        /\ Head(toHost).kind # "fragment"
        /\ UNCHANGED <<malformed, cuts, half, port, op, reader>>
    BY <1>4 DEF Damage
  <2>2. 1 \in DOMAIN toHost /\ Head(toHost) = toHost[1] /\ toHost[1] \in Lines
    BY <2>1, HalvesTypes, HeadTailProperties
  <2> PICK l : l = [toHost[1] EXCEPT !.kind = "damaged"]
    OBVIOUS
  <2>3. l.begun = toHost[1].begun /\ l.kind = "damaged"
    BY <2>2 DEF Lines
  <2>4. DOMAIN toHost' = DOMAIN toHost /\ toHost'[1] = l
        /\ \A k \in DOMAIN toHost : k # 1 => toHost'[k] = toHost[k]
    BY <2>1, <2>2
  <2>5. toHost' # <<>>
    BY <2>2, <2>4
  <2>6. Owed' = Owed
    BY <2>1, <2>3, <2>4, <2>5 DEF Owed
  <2>7. Len(toHost') = Len(toHost) /\ \A k \in DOMAIN toHost : CutShort(toHost'[k]) = CutShort(toHost[k])
    BY <2>1, <2>2, <2>3, <2>4, HalvesTypes, LenProperties DEF CutShort
  <2>8. Covered(toHost', malformed' + Owed', cuts')
    <3>1. malformed' + Owed' <= malformed + Owed /\ cuts <= cuts'
      BY <2>1, <2>6, HalvesTypes
    <3>2. Covered(toHost, malformed + Owed, cuts)
      BY DEF Halves
    <3> QED
      BY <2>7, <3>1, <3>2, HalvesTypes, CoveredSame
  <2>9. Silent' /\ Halved' /\ Reopening'
    BY <1>0, <2>1, <2>3, <2>4 DEF Silent, Halved, Reopening
  <2> QED
    BY <2>8, <2>9 DEF Halves
<1>5. ASSUME NEW t \in Threads, Begin(t) \/ Continue(t) PROVE Halves'
  <2>0. \A s \in Threads : s = t \/ op'[s] = op[s]
    BY <1>5, OthersStay
  <2>1. CASE CloseTransport(t)
    <3>1. /\ toHost' = <<>> /\ port' # "good" /\ op[t].pc = "closing"
          /\ UNCHANGED <<malformed, cuts, reader>>
      BY <2>1 DEF CloseTransport
    <3>2. op'[t].pc # "restart"
      BY <1>5, <3>1, Leads DEF Reopen
    <3> QED
      BY <1>0, <2>0, <3>1, <3>2, HalvesEmptied DEF Reopening
  <2>2. CASE Reopen(t)
    <3>1. /\ op[t].pc = "join" /\ ~reader /\ reader' = reader
          /\ UNCHANGED <<toHost, malformed, cuts, half>>
      BY <2>2 DEF Reopen
    <3>2. t = Manager /\ toHost = <<>>
      BY <1>0, <3>1 DEF Owned, Behind, Silent, Reopening
    <3>3. op'[t].pc # "join"
      BY <1>5, <3>1, Leads DEF CheckAlive
    <3>4. Silent' /\ Halved' /\ Reopening'
      BY <3>1, <3>2, <3>3 DEF Silent, Halved, Reopening
    <3>5. Owed' <= Owed
      BY <3>1, HalvesTypes DEF Owed
    <3> QED
      BY <3>1, <3>4, <3>5, HalvesSame
  <2>3. CASE Restart(t)
    <3>1. /\ op[t].pc = "restart" /\ half' = FALSE
          /\ UNCHANGED <<toHost, malformed, cuts, port>>
      BY <2>3 DEF Restart
    <3>2. t = Manager /\ \A k \in DOMAIN toHost : ~toHost[k].begun
      BY <1>0, <3>1 DEF Owned, Behind, Reopening
    <3>3. op'[t].pc \notin {"join", "restart"}
      BY <1>5, <3>1, Leads DEF CheckAlive, Reopen
    <3>4. Silent' /\ Halved' /\ Reopening'
      BY <1>0, <3>1, <3>2, <3>3 DEF Silent, Halved, Reopening
    <3>5. Owed' <= Owed
      BY <3>1, HalvesTypes DEF Owed
    <3> QED
      BY <3>1, <3>4, <3>5, HalvesSame
  <2>4. CASE ~CloseTransport(t) /\ ~Reopen(t) /\ ~Restart(t)
    <3>1. UNCHANGED <<toHost, malformed, cuts, half, port, reader>>
      BY <1>5, <2>4 DEF Begin, Call, Reset, ExpectEvent, DrainEvents, WriteLine, Close, Continue,
                        Acquire, Drain, Write, GetAnswer, Timeout, CheckAlive, Refresh,
                        JoinReader, TakeEvent, Sleep, NoEvent, GiveUp, WaitExpires, Go
    <3>2. op'[t].pc = "restart" => FALSE
      BY <1>5, <2>4, Leads
    <3>3. op'[t].pc = "join" => port # "good"
      <4>1. CASE CheckAlive(t)
        <5>1. CASE IsAlive
          <6>1. op' = [op EXCEPT ![t].pc = "scan", ![t].want = "ready"]
            BY <4>1, <5>1 DEF CheckAlive, ExpectReady
          <6> PICK o : o = [op[t] EXCEPT !.pc = "scan", !.want = "ready"]
            OBVIOUS
          <6>2. op' = [op EXCEPT ![t] = o]
            BY <6>1
          <6>3. o.pc = "scan" /\ op'[t] = o
            BY <6>2, HalvesTypes DEF Operation
          <6> QED
            BY <6>3
        <5> QED
          BY <5>1 DEF IsAlive
      <4> QED
        BY <1>5, <4>1, Leads
    <3>4. Silent' /\ Halved' /\ Reopening'
      BY <1>0, <2>0, <3>1, <3>2, <3>3 DEF Silent, Halved, Reopening
    <3>5. Owed' <= Owed
      BY <3>1, HalvesTypes DEF Owed
    <3> QED
      BY <3>1, <3>4, <3>5, HalvesSame
  <2> QED
    BY <2>1, <2>2, <2>3, <2>4
<1> QED
  BY <1>1, <1>2, <1>3, <1>4, <1>5, HalvesRead DEF Next, Environment, Reader

(***************************************************************************)
(* The reader takes no more lines for malformed than reboots have cut      *)
(* short, whatever links die, are reopened and read in between.            *)
(***************************************************************************)
THEOREM HalvesBelongTogether == Spec => []MalformedNeedsCut
<1>1. Init => Halves
  <2> SUFFICES ASSUME Init PROVE Halves
    OBVIOUS
  <2>1. toHost = <<>> /\ malformed = 0 /\ cuts = 0 /\ Owed = 0
    BY DEF Init, Owed
  <2>2. Silent /\ Halved /\ Reopening
    BY <2>1, IdleType DEF Init, Silent, Halved, Reopening
  <2> PICK f : f = [k \in 0 .. 0 |-> 0]
    OBVIOUS
  <2>3. Covers(f, <<>>, 0, 0)
    BY DEF Covers
  <2> QED
    BY <2>1, <2>2, <2>3 DEF Halves, Covered
<1>2. Init => Owned
  BY IdleType DEF Init, Owned, Managing, Behind
<1>3. TypeInv /\ TypeInv' /\ Owned /\ Halves /\ [Next]_vars => Halves'
  BY HalvesStep
<1>4. TypeInv /\ Halves => MalformedNeedsCut
  <2> SUFFICES ASSUME TypeInv, Halves PROVE MalformedNeedsCut
    OBVIOUS
  <2>1. malformed \in Nat /\ cuts \in Nat /\ Owed \in {0, 1} /\ Len(toHost) \in Nat
    BY QueueTypes DEF TypeInv, NumbersOK, Owed
  <2>2. PICK f : Covers(f, toHost, malformed + Owed, cuts)
    BY DEF Halves, Covered
  <2>3. malformed + Owed <= f[0] /\ f[0] <= cuts /\ f[0] \in Nat
    BY <2>1, <2>2 DEF Covers
  <2> QED
    BY <2>1, <2>3 DEF MalformedNeedsCut
<1> QED
  BY <1>1, <1>2, <1>3, <1>4, TypeInit, TypeStep, OwnedStep, PTL DEF Spec
=============================================================================
