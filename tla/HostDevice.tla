----------------------------- MODULE HostDevice -----------------------------
(***************************************************************************)
(* The host library's Device proxy (python/riglink/device.py) over a       *)
(* transport that can die, talking to a device that can reboot: the        *)
(* background reader thread, the synchronous call transaction with its     *)
(* timeout, the event deque with its condition variable, reset() and its   *)
(* reconnection.                                                           *)
(*                                                                         *)
(* Every thread of the application may call commands, write raw lines and  *)
(* wait for events; one of them, Manager, also resets and closes.          *)
(* connect() is made of such calls: wait for "ready", then the rig.list    *)
(* transaction.  OnLine, if it is among Threads, is the on_line callback:  *)
(* the reader thread runs it after each line, and it may call a command.   *)
(*                                                                         *)
(* A request is its number in the order of writing, an answer carries the  *)
(* number of its request: on the wire neither does, which is the point.    *)
(* How the bytes of a line become a message is abstracted to "whole" and   *)
(* "cut short".  The device answers requests one by one, in order, as      *)
(* Dispatch shows.                                                         *)
(***************************************************************************)
EXTENDS Integers, Sequences, FiniteSets

CONSTANTS Threads, Manager,
          OnLine,        \* the on_line callback, if it is in Threads
          Operations,    \* the operations the application uses
          NoticesDeath,  \* is_alive() tells a dead link from a live one
          MaxOps,        \* bound: operations started
          MaxEvents,     \* bound: events the device raises
          MaxBoots,      \* bound: reboots of the device
          MaxDeaths,     \* bound: times the link goes away
          MaxDamages     \* bound: lines whose bytes are not UTF-8

ASSUME ThreadsAssumption == /\ IsFiniteSet(Threads)
                            /\ Manager \in Threads
                            /\ OnLine # Manager
                            /\ Operations \subseteq {"call", "write_line", "expect",
                                                     "drain", "reset", "close"}
                            /\ NoticesDeath \in BOOLEAN
ASSUME BoundsAssumption == /\ MaxOps \in Nat
                           /\ MaxEvents \in Nat
                           /\ MaxBoots \in Nat
                           /\ MaxDeaths \in Nat
                           /\ MaxDamages \in Nat

VARIABLES
    \* the device and the link
    toDev,      \* requests on their way to the device
    toHost,     \* lines on their way to the host
    resetting,  \* rig.reset is acknowledged and rig_reset() is running
    boots, raised, deaths, damages,
    plugged,    \* the port's device node is there
    port,       \* the transport's handle on it
    \* the Device object
    reader,     \* the reader thread runs
    stop,       \* _stop
    half,       \* _buf holds the first part of a line
    pending,    \* _pending
    events,     \* _events
    lock,       \* _call_lock: the set of its holders
    \* the application's threads
    op,         \* per thread: the operation it is in, see Operation below
    ops,        \* operations started
    \* history
    calls,      \* per request: how its caller left it, and whose answer it got
    filed,      \* events the reader put into the deque
    taken,      \* events handed to the application
    resets,     \* per completed wait of reset(): [since, ready]
    cuts,       \* lines that a reboot cut short
    malformed   \* lines the reader took for malformed

deviceVars  == <<resetting, boots, raised, cuts>>
linkVars    == <<deaths, damages, plugged>>
readerVars  == <<reader, stop, half, malformed>>
eventVars   == <<events, filed, taken, resets>>
callVars    == <<pending, lock, calls>>
threadVars  == <<op, ops>>

outside     == <<toDev, toHost, deviceVars, linkVars, port>>
hostVars    == <<readerVars, eventVars, callVars, threadVars>>

vars == <<outside, hostVars>>

-----------------------------------------------------------------------------
\* Where a thread is, in which operation; the number of its transaction; the
\* event name expect_event() looks for; boots when reset() was called.
Operation == [pc : {"idle", "lock", "drain", "write", "wait", "alive", "join",
                    "restart", "refresh", "scan", "lastScan", "asleep",
                    "closing", "closed"},
              doing : {"none", "call", "expect", "reset", "bareReset",
                       "refresh", "close"},
              txn : Nat, want : {"none", "event", "ready"}, since : Nat]

Idle == [pc |-> "idle", doing |-> "none", txn |-> 0, want |-> "none", since |-> 0]

Goto(t, at) ==
    op' = [op EXCEPT ![t] = IF at = "idle" THEN Idle ELSE [@ EXCEPT !.pc = at]]

\* A step that does nothing else.
Go(t, at) == /\ Goto(t, at)
             /\ UNCHANGED <<outside, readerVars, eventVars, callVars, ops>>

\* Lines.  "begun" says that the reader already has the first part.
Line(k, n) == [kind |-> k, n |-> n, begun |-> FALSE]

Fragment == Line("fragment", 0)

\* What the device prints is lost unless the host has the port open.
Printed(lines) == IF port = "good" THEN toHost \o lines ELSE toHost

Init == /\ toDev = <<>> /\ toHost = <<>>
        /\ resetting = FALSE
        /\ boots = 0 /\ raised = 0 /\ deaths = 0 /\ damages = 0
        /\ plugged = TRUE
        /\ port = "good"
        /\ reader = TRUE /\ stop = FALSE /\ half = FALSE
        /\ pending = <<>> /\ events = <<>>
        /\ lock = {}
        /\ op = [t \in Threads |-> Idle]
        /\ ops = 0
        /\ calls = <<>> /\ filed = <<>> /\ taken = {} /\ resets = {}
        /\ cuts = 0 /\ malformed = 0

-----------------------------------------------------------------------------
(* The device, and the link under it.                                      *)

Serve == /\ toDev # <<>>
         /\ ~resetting
         /\ toHost' = Printed(<<Line("response", Head(toDev).n)>>)
         /\ toDev' = Tail(toDev)
         /\ resetting' = (Head(toDev).kind = "rig.reset")
         /\ UNCHANGED <<boots, raised, cuts, linkVars, port, hostVars>>

RaiseEvent == /\ raised < MaxEvents
              /\ ~resetting
              /\ raised' = raised + 1
              /\ toHost' = Printed(<<Line("event", raised + 1)>>)
              /\ UNCHANGED <<toDev, resetting, boots, cuts, linkVars, port,
                             hostVars>>

\* A reboot, asked for or not.  Requests it has not read are gone, and so may
\* be the second part of the line it was printing.
Reboot == /\ boots < MaxBoots
          /\ boots' = boots + 1
          /\ \/ /\ toHost' = Printed(<<Line("ready", boots + 1)>>)
                /\ UNCHANGED cuts
             \/ /\ ~resetting
                /\ toHost' = Printed(<<Fragment, Line("ready", boots + 1)>>)
                /\ cuts' = cuts + 1
          /\ toDev' = <<>>
          /\ resetting' = FALSE
          /\ UNCHANGED <<raised, linkVars, port, hostVars>>

\* A USB port disappears while its device reboots: the bytes in it are lost.
LinkDown == /\ plugged
            /\ deaths < MaxDeaths
            /\ deaths' = deaths + 1
            /\ plugged' = FALSE
            /\ port' = IF port = "good" THEN "dead" ELSE port
            /\ toHost' = <<>>
            /\ UNCHANGED <<toDev, deviceVars, damages, hostVars>>

LinkUp == /\ ~plugged
          /\ plugged' = TRUE
          /\ UNCHANGED <<toDev, toHost, deviceVars, deaths, damages, port, hostVars>>

\* Noise behind the sentinel: bytes that are no UTF-8 any more.
Damage == /\ damages < MaxDamages
          /\ damages' = damages + 1
          /\ toHost # <<>>
          /\ Head(toHost).kind # "fragment"
          /\ ~Head(toHost).begun
          /\ toHost' = [toHost EXCEPT ![1].kind = "damaged"]
          /\ UNCHANGED <<toDev, deviceVars, deaths, plugged, port, hostVars>>

-----------------------------------------------------------------------------
(* _read_loop().  One step per chunk: a line, its first part, its rest.    *)

Asleep == {t \in Threads : op[t].pc = "asleep"}

\* Fault: the event is filed without waking who waits for it.
NotifyNobody == op

\* _evcond.notify_all()
NotifyAll == [t \in Threads |-> IF t \in Asleep THEN [op[t] EXCEPT !.pc = "scan"]
                                               ELSE op[t]]

\* on_line() is called after the line: it may call a command.
Called(o) == [o EXCEPT ![OnLine] = [Idle EXCEPT !.pc = "lock", !.doing = "call"]]

Tell(o) == \/ op' = o /\ UNCHANGED ops
           \/ /\ OnLine \in Threads
              /\ "call" \in Operations
              /\ ops < MaxOps
              /\ ops' = ops + 1
              /\ op' = Called(o)

\* json.loads() of bytes that are no UTF-8 raises UnicodeDecodeError, which
\* classify() does not catch: the thread is gone.
File(line) ==
    CASE line.kind = "response" ->
             /\ pending' = Append(pending, line.n)
             /\ Tell(op)
             /\ UNCHANGED <<eventVars, reader>>
      [] line.kind \in {"event", "ready"} ->
             /\ events' = Append(events, line)
             /\ filed' = Append(filed, line)
             /\ Tell(NotifyAll)
             /\ UNCHANGED <<pending, taken, resets, reader>>
      [] line.kind = "damaged" ->
             /\ reader' = FALSE
             /\ UNCHANGED <<pending, eventVars, threadVars>>

InCallback == OnLine \in Threads /\ op[OnLine].pc # "idle"

Reading == reader /\ ~InCallback /\ port = "good" /\ toHost # <<>>

\* The chunk ends before the newline.
ReadPart == /\ Reading
            /\ ~half
            /\ \/ /\ Head(toHost).kind = "fragment"
                  /\ toHost' = Tail(toHost)
               \/ /\ Head(toHost).kind # "fragment"
                  /\ toHost' = [toHost EXCEPT ![1].begun = TRUE]
            /\ half' = TRUE
            /\ UNCHANGED <<toDev, deviceVars, linkVars, port, reader, stop,
                           malformed, eventVars, callVars, threadVars>>

\* A newline: what is before it is a line if both parts are of the same one.
ReadLine == /\ Reading
            /\ Head(toHost).kind # "fragment"
            /\ LET line == [Head(toHost) EXCEPT !.begun = FALSE]
               IN  IF Head(toHost).begun = half
                   THEN File(line) /\ UNCHANGED malformed
                   ELSE /\ malformed' = malformed + 1
                        /\ Tell(op)
                        /\ UNCHANGED <<pending, eventVars, reader>>
            /\ toHost' = Tail(toHost)
            /\ half' = FALSE
            /\ UNCHANGED <<toDev, deviceVars, linkVars, port, stop, lock, calls>>

\* read() raises ConnectionError, or the loop finds _stop set.
ReaderEnds == /\ reader
              /\ ~InCallback
              /\ stop \/ port # "good"
              /\ reader' = FALSE
              /\ UNCHANGED <<outside, stop, half, malformed, eventVars, callVars,
                             threadVars>>

Reader == ReadPart \/ ReadLine \/ ReaderEnds

-----------------------------------------------------------------------------
(* Operations of the application.                                          *)

Start(name, t, operation) == /\ name \in Operations
                             /\ op[t].pc = "idle"
                             /\ ops < MaxOps
                             /\ ops' = ops + 1
                             /\ op' = [op EXCEPT ![t] = operation]

Call(t) == /\ Start("call", t, [Idle EXCEPT !.pc = "lock", !.doing = "call"])
           /\ UNCHANGED <<outside, readerVars, eventVars, callVars>>

\* reset(), and reset(reconnect=False)
Reset(t) == /\ t = Manager
            /\ \E kind \in {"reset", "bareReset"} :
                   Start("reset", t, [Idle EXCEPT !.pc = "lock", !.doing = kind,
                                                  !.since = boots])
            /\ UNCHANGED <<outside, readerVars, eventVars, callVars>>

ExpectEvent(t) == /\ \E name \in {"event", "ready"} :
                         Start("expect", t, [Idle EXCEPT !.pc = "scan", !.doing = "expect",
                                                         !.want = name])
                  /\ UNCHANGED <<outside, readerVars, eventVars, callVars>>

EventSet == {events[k] : k \in DOMAIN events}

\* drain_events() and clear_buffers()
DrainEvents(t) == /\ Start("drain", t, Idle)
                  /\ events # <<>>
                  /\ events' = <<>>
                  /\ taken' = taken \union EventSet
                  /\ UNCHANGED <<outside, readerVars, filed, resets, callVars>>

Request(t) == IF op[t].doing \in {"reset", "bareReset"} THEN "rig.reset" ELSE "call"

\* Requests are numbered as they are written; a transport without a live link
\* raises ConnectionError.
WriteRequest(kind) ==
    IF port = "good"
    THEN /\ toDev' = Append(toDev, [kind |-> kind, n |-> Len(calls) + 1])
         /\ calls' = Append(calls, [left |-> "open", got |-> 0])
    ELSE /\ calls' = Append(calls, [left |-> "broken", got |-> 0])
         /\ UNCHANGED toDev

\* write_line(): a request whose answer nobody waits for, outside the lock.
WriteLine(t) == /\ Start("write_line", t, Idle)
                /\ port = "good"
                /\ toDev' = Append(toDev, [kind |-> "call", n |-> Len(calls) + 1])
                /\ calls' = Append(calls, [left |-> "abandoned", got |-> 0])
                /\ UNCHANGED <<toHost, deviceVars, linkVars, port, readerVars,
                               eventVars, pending, lock>>

Close(t) == /\ t = Manager
            /\ Start("close", t, [Idle EXCEPT !.pc = "closing", !.doing = "close"])
            /\ stop' = TRUE
            /\ UNCHANGED <<outside, reader, half, malformed, eventVars, callVars>>

-----------------------------------------------------------------------------
(* _txn()                                                                  *)

\* Fault: the transactions of two threads overlap.
AcquireFree(t) == /\ op[t].pc = "lock"
                  /\ lock' = lock \union {t}
                  /\ Goto(t, "drain")
                  /\ UNCHANGED <<outside, readerVars, eventVars, pending, calls,
                                 ops>>

Acquire(t) == /\ op[t].pc = "lock"
              /\ lock = {}
              /\ lock' = {t}
              /\ Goto(t, "drain")
              /\ UNCHANGED <<outside, readerVars, eventVars, pending, calls, ops>>

\* Fault: what others left in the queue stays there.
DrainNothing(t) == /\ op[t].pc = "drain"
                   /\ Go(t, "write")

Drain(t) == /\ op[t].pc = "drain"
            /\ pending' = <<>>
            /\ Goto(t, "write")
            /\ UNCHANGED <<outside, readerVars, eventVars, lock, calls, ops>>

\* Where the thread goes when its transaction is over, in whatever way: reset()
\* swallows the exceptions of rig.reset.
AfterTxn(t) == CASE op[t].doing = "reset"     -> "alive"
                 [] op[t].doing = "bareReset" -> "refresh"
                 [] OTHER                  -> "idle"

\* Fault: a write that fails leaves with the lock.
WriteKeepsLock(t) ==
    /\ op[t].pc = "write"
    /\ WriteRequest(Request(t))
    /\ IF port = "good"
       THEN op' = [op EXCEPT ![t].pc = "wait", ![t].txn = Len(calls')]
       ELSE Goto(t, AfterTxn(t))
    /\ UNCHANGED <<toHost, deviceVars, linkVars, port, readerVars, eventVars, lock,
                   pending, ops>>

Write(t) == /\ op[t].pc = "write"
            /\ WriteRequest(Request(t))
            /\ IF port = "good"
               THEN /\ op' = [op EXCEPT ![t].pc = "wait", ![t].txn = Len(calls')]
                    /\ UNCHANGED lock
               ELSE Goto(t, AfterTxn(t)) /\ lock' = {}
            /\ UNCHANGED <<toHost, deviceVars, linkVars, port, readerVars,
                           eventVars, pending, ops>>

Leave(t, how, answer) ==
    calls' = [calls EXCEPT ![op[t].txn] = [left |-> how, got |-> answer]]

GetAnswer(t) == /\ op[t].pc = "wait"
                /\ pending # <<>>
                /\ pending' = Tail(pending)
                /\ Leave(t, "answered", Head(pending))
                /\ lock' = {}
                /\ Goto(t, AfterTxn(t))
                /\ UNCHANGED <<outside, readerVars, eventVars, ops>>

\* Fault: the lock is kept by the exception.
TimeoutKeepsLock(t) == /\ op[t].pc = "wait"
                       /\ pending = <<>>
                       /\ Leave(t, "abandoned", 0)
                       /\ Goto(t, AfterTxn(t))
                       /\ UNCHANGED <<outside, readerVars, eventVars, lock,
                                      pending, ops>>

\* Queue.get() gives up only on an empty queue.
Timeout(t) == /\ op[t].pc = "wait"
              /\ pending = <<>>
              /\ Leave(t, "abandoned", 0)
              /\ lock' = {}
              /\ Goto(t, AfterTxn(t))
              /\ UNCHANGED <<outside, readerVars, eventVars, pending, ops>>

-----------------------------------------------------------------------------
(* The rest of reset(), after the rig.reset transaction.                   *)

ExpectReady(t) == op' = [op EXCEPT ![t].pc = "scan", ![t].want = "ready"]

IsAlive == port = "good" \/ (port = "dead" /\ ~NoticesDeath)

CheckAlive(t) == /\ op[t].pc = "alive"
                 /\ IF IsAlive THEN ExpectReady(t) /\ UNCHANGED stop
                               ELSE Goto(t, "join") /\ stop' = TRUE
                 /\ UNCHANGED <<outside, reader, half, malformed, eventVars,
                                callVars, ops>>

\* The reader has ended (it notices within a read timeout, well before the
\* second that join() allows it); reopen() closes the old handle first.
Reopen(t) == /\ op[t].pc = "join"
             /\ ~reader
             /\ IF plugged THEN port' = "good" /\ Goto(t, "restart")
                           ELSE port' = "closed" /\ Goto(t, "idle")
             /\ UNCHANGED <<toDev, toHost, deviceVars, linkVars, readerVars,
                            eventVars, callVars, ops>>

\* Fault: the buffer of the dead connection is kept.
RestartKeepsBuf(t) == /\ op[t].pc = "restart"
                      /\ stop' = FALSE
                      /\ reader' = TRUE
                      /\ ExpectReady(t)
                      /\ UNCHANGED <<outside, half, malformed, eventVars, callVars,
                                     ops>>

\* Fault: _stop is left as the join needed it.
RestartStopped(t) == /\ op[t].pc = "restart"
                     /\ half' = FALSE
                     /\ reader' = TRUE
                     /\ ExpectReady(t)
                     /\ UNCHANGED <<outside, stop, malformed, eventVars, callVars,
                                    ops>>

Restart(t) == /\ op[t].pc = "restart"
              /\ half' = FALSE
              /\ stop' = FALSE
              /\ reader' = TRUE
              /\ ExpectReady(t)
              /\ UNCHANGED <<outside, malformed, eventVars, callVars, ops>>

\* The handshake is one more transaction, if it is asked for.
Refresh(t) == /\ op[t].pc = "refresh"
              /\ \/ Goto(t, "idle")
                 \/ op' = [op EXCEPT ![t].pc = "lock", ![t].doing = "refresh"]
              /\ UNCHANGED <<outside, readerVars, eventVars, callVars, ops>>

CloseTransport(t) == /\ op[t].pc = "closing"
                     /\ port' = "closed"
                     /\ toHost' = <<>>
                     /\ Goto(t, "closed")
                     /\ UNCHANGED <<toDev, deviceVars, linkVars, readerVars,
                                    eventVars, callVars, ops>>

JoinReader(t) == /\ op[t].pc = "closed"
                 /\ ~reader
                 /\ Go(t, "idle")

-----------------------------------------------------------------------------
(* expect_event(), under _evcond but for the wait.                         *)

Matches(t) == {k \in DOMAIN events : events[k].kind = op[t].want}

AfterExpect(t) == IF op[t].doing = "reset" THEN "refresh" ELSE "idle"

\* Fault: the event that matched is returned, the first one is deleted.
RemoveFirst(k) == Tail(events)

\* del self._events[i]
RemoveEvent(k) == SubSeq(events, 1, k - 1) \o SubSeq(events, k + 1, Len(events))

TakeEvent(t) ==
    /\ op[t].pc \in {"scan", "lastScan"}
    /\ \E k \in Matches(t) :
           /\ \A j \in Matches(t) : k <= j
           /\ events' = RemoveEvent(k)
           /\ taken' = taken \union {events[k]}
           /\ resets' = IF op[t].doing = "reset"
                        THEN resets \union {[since |-> op[t].since, ready |-> events[k].n]}
                        ELSE resets
    /\ Goto(t, AfterExpect(t))
    /\ UNCHANGED <<outside, readerVars, filed, callVars, ops>>

GiveUp(t) == Go(t, AfterExpect(t))

\* _evcond.wait(), unless the deadline is over already.
Sleep(t) == /\ op[t].pc = "scan"
            /\ Matches(t) = {}
            /\ Go(t, "asleep")

\* Fault: after the wait the deque is not searched again.
NoEventBlind(t) == /\ op[t].pc \in {"scan", "lastScan"}
                   /\ op[t].pc = "scan" => Matches(t) = {}
                   /\ GiveUp(t)

NoEvent(t) == /\ op[t].pc \in {"scan", "lastScan"}
              /\ Matches(t) = {}
              /\ GiveUp(t)

\* The wait times out: the deque is searched once more, under the lock.
WaitExpires(t) == /\ op[t].pc = "asleep"
                  /\ Go(t, "lastScan")

-----------------------------------------------------------------------------
Begin(t) == \/ Call(t) \/ Reset(t) \/ ExpectEvent(t) \/ DrainEvents(t)
            \/ WriteLine(t) \/ Close(t)

Continue(t) == \/ Acquire(t) \/ Drain(t) \/ Write(t) \/ GetAnswer(t) \/ Timeout(t)
               \/ CheckAlive(t) \/ Reopen(t) \/ Restart(t) \/ Refresh(t)
               \/ CloseTransport(t) \/ JoinReader(t)
               \/ TakeEvent(t) \/ Sleep(t) \/ NoEvent(t) \/ WaitExpires(t)

Environment == Serve \/ RaiseEvent \/ Reboot \/ LinkDown \/ LinkUp \/ Damage

Next == \/ Environment \/ Reader
        \/ \E t \in Threads \ {OnLine} : Begin(t)
        \/ \E t \in Threads : Continue(t)

Spec == Init /\ [][Next]_vars

\* Threads are scheduled and timeouts expire; the device and the link owe
\* nothing, and nobody has to start an operation.
FairSpec == /\ Spec
            /\ WF_vars(Reader)
            /\ \A t \in Threads : WF_vars(Continue(t))

-----------------------------------------------------------------------------
Lines == [kind : {"response", "event", "ready", "fragment", "damaged"}, n : Nat, begun : BOOLEAN]

InTxn == {t \in Threads : op[t].pc \in {"drain", "write", "wait"}}

TypeOK ==
    /\ toDev \in Seq([kind : {"call", "rig.reset"}, n : DOMAIN calls])
    /\ toHost \in Seq(Lines)
    /\ \A b \in {resetting, plugged, reader, stop, half} : b \in BOOLEAN
    /\ boots \in 0 .. MaxBoots /\ raised \in 0 .. MaxEvents /\ deaths \in 0 .. MaxDeaths
    /\ damages \in 0 .. MaxDamages
    /\ port \in {"good", "dead", "closed"}
    /\ pending \in Seq(DOMAIN calls)
    /\ events \in Seq(Lines) /\ filed \in Seq(Lines) /\ taken \subseteq Lines
    /\ op \in [Threads -> Operation]
    /\ \A t \in Threads : op[t].txn <= Len(calls)
    /\ ops \in 0 .. MaxOps
    /\ calls \in Seq([left : {"open", "answered", "abandoned", "broken"}, got : Nat])
    /\ resets \subseteq [since : Nat, ready : Nat]
    /\ cuts \in 0 .. MaxBoots /\ malformed \in Nat
    /\ lock = InTxn /\ Cardinality(lock) <= 1

(***************************************************************************)
(* Two calls are never given the same answer, and a call is given another  *)
(* call's answer only if some request no newer than that one was abandoned *)
(* before: by a timeout, or written raw.  Short of that, threads calling   *)
(* at once, reboots, lost and cut lines and reconnections never let one    *)
(* answer slip into the wrong call.                                        *)
(***************************************************************************)
AnswersPaired ==
    \A c \in DOMAIN calls :
        LET d == calls[c].got
        IN  d # 0 =>
                /\ \A e \in DOMAIN calls : calls[e].got = d => e = c
                /\ d # c => \E e \in 1 .. d : calls[e].left = "abandoned"

(***************************************************************************)
(* What expect_event() does to the deque costs nobody else an event: the   *)
(* deque is what the reader filed and nobody took, in the order of filing, *)
(* and the reader filed the device's events in order, none twice.          *)
(***************************************************************************)
EventsKept ==
    /\ \A j, k \in DOMAIN filed :
           j < k /\ filed[j].kind = filed[k].kind => filed[j].n < filed[k].n
    /\ EventSet = {filed[k] : k \in DOMAIN filed} \ taken
    /\ \A i, j \in DOMAIN events :
           i < j => \E k, l \in DOMAIN filed :
                       k < l /\ events[i] = filed[k] /\ events[j] = filed[l]

(***************************************************************************)
(* A thread never sleeps in expect_event() while the event it waits for is *)
(* in the deque, whoever else waits for whatever other event.              *)
(***************************************************************************)
NobodySleepsOverMatch == \A t \in Asleep : Matches(t) = {}

(***************************************************************************)
(* expect_event() never times out on an event that is there, even one that *)
(* arrives as the wait expires.                                            *)
(***************************************************************************)
GivesUp(t) == /\ op[t].pc \in {"scan", "lastScan"}
              /\ op'[t].pc = AfterExpect(t)
              /\ taken' = taken

NoFalseTimeout == [][\A t \in Threads : GivesUp(t) => Matches(t) = {}]_vars

(***************************************************************************)
(* The reader takes a line for malformed only when a reboot cut a line     *)
(* short: a reconnection never joins the halves of two lines.              *)
(***************************************************************************)
MalformedNeedsCut == malformed <= cuts

(***************************************************************************)
(* An open link has a reader, also after a reset() that reopened it: the   *)
(* thread ends only with the link, with a close() or reset() that is at    *)
(* work on it, or, as _read_loop() does not catch what classify() lets     *)
(* out, by a damaged line.                                                 *)
(***************************************************************************)
ReaderLives == \/ reader
               \/ port # "good"
               \/ op[Manager].pc \in {"restart", "closing"}
               \/ damages > 0

(***************************************************************************)
(* A command called from on_line is never answered: the reader thread      *)
(* itself waits for the answer, and what it had filed before was drained.  *)
(* That such a call gives up, and keeps nobody from the call lock for      *)
(* good, is EveryOperationEnds.                                            *)
(***************************************************************************)
CallbackUnanswered == OnLine \in Threads /\ op[OnLine].pc = "wait" => pending = <<>>

(***************************************************************************)
(* Every operation ends, whatever the device and the link do: no thread is *)
(* left behind the call lock, in a wait or in a join.                      *)
(***************************************************************************)
EveryOperationEnds == \A t \in Threads : op[t].pc # "idle" ~> op[t].pc = "idle"

(***************************************************************************)
(* "if the transport died (USB-CDC re-enum), reopen and restart the        *)
(* reader": a reset() that finds its transport dead and the device there   *)
(* ends up with a live one and a reader on it, unless the link goes again. *)
(***************************************************************************)
ResetRecovers ==
    op[Manager].pc = "alive" /\ port # "good" /\ plugged
        ~> (port = "good" /\ reader /\ ~stop) \/ ~plugged

(***************************************************************************)
(* "a response fulfils the single in-flight call's future": what a call    *)
(* returns is the answer to its own request.                               *)
(***************************************************************************)
OwnAnswer == \A c \in DOMAIN calls : calls[c].got \in {0, c}

(***************************************************************************)
(* "wait for a fresh ready event": the ready that ends the wait of reset() *)
(* was raised by a boot after the call of reset().                         *)
(***************************************************************************)
FreshReady == \A r \in resets : r.ready > r.since
=============================================================================
