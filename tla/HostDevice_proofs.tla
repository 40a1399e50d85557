-------------------------- MODULE HostDevice_proofs --------------------------
(***************************************************************************)
(* Proofs about HostDevice for any number of threads, operations, events,  *)
(* reboots, deaths of the link and damaged lines: the types, with the      *)
(* exclusion that _call_lock gives, that no waiter sleeps over its event,  *)
(* that an open link has a reader, and what becomes of calls made from     *)
(* on_line.  HostDelivery_proofs goes on with answers, events and lines.   *)
(***************************************************************************)
EXTENDS HostDevice, SequenceTheorems, FiniteSetTheorems, TLAPS

USE ThreadsAssumption, BoundsAssumption

-----------------------------------------------------------------------------
(* Type correctness, in parts that each speak of a few variables.          *)
NumbersOK == /\ resetting \in BOOLEAN /\ plugged \in BOOLEAN /\ reader \in BOOLEAN
             /\ stop \in BOOLEAN /\ half \in BOOLEAN
             /\ boots \in 0 .. MaxBoots /\ raised \in 0 .. MaxEvents
             /\ deaths \in 0 .. MaxDeaths /\ damages \in 0 .. MaxDamages
             /\ port \in {"good", "dead", "closed"}
             /\ ops \in 0 .. MaxOps
             /\ cuts \in 0 .. MaxBoots /\ cuts <= boots
             /\ malformed \in Nat

CallRecord == [left : {"open", "answered", "abandoned", "broken"}, got : Nat]

OpOK == /\ op \in [Threads -> Operation]
        /\ calls \in Seq(CallRecord)
        /\ \A t \in Threads : op[t].txn <= Len(calls)
        \* a thread waits only in a transaction that it has begun
        /\ \A t \in Threads : op[t].pc = "wait" => op[t].txn \in DOMAIN calls

\* _call_lock: the thread that is in a transaction holds it, and it is one.
LockOK == /\ lock = InTxn
          /\ \A s, t \in lock : s = t

\* Requests, answers on the wire and answers in the queue are of calls made; a
\* damaged line was damaged on the wire.
Requests  == [kind : {"call", "rig.reset"}, n : DOMAIN calls]
WireLines == {l \in Lines : /\ l.kind = "response" => l.n \in DOMAIN calls
                            /\ l.kind = "damaged" => damages > 0}

WireOK == /\ toDev \in Seq(Requests)
          /\ toHost \in Seq(WireLines)
          /\ pending \in Seq(DOMAIN calls)

EventsOK == /\ events \in Seq(Lines) /\ filed \in Seq(Lines) /\ taken \subseteq Lines
            /\ resets \subseteq [since : Nat, ready : Nat]

TypeInv == NumbersOK /\ OpOK /\ LockOK /\ WireOK /\ EventsOK

LEMMA AtMostOne ==
    ASSUME NEW S, \A s, t \in S : s = t
    PROVE  Cardinality(S) <= 1
<1>1. CASE S = {}
  BY <1>1, FS_EmptySet
<1>2. CASE S # {}
  <2>1. PICK x : x \in S
    BY <1>2
  <2>2. S = {x}
    BY <2>1
  <2> QED
    BY <2>2, FS_Singleton
<1> QED
  BY <1>1, <1>2

LEMMA TypeInvImplies == TypeInv => TypeOK
<1> SUFFICES ASSUME TypeInv PROVE TypeOK
  OBVIOUS
<1>1. toHost \in Seq(Lines)
  BY SeqMonotonic DEF TypeInv, WireOK, WireLines
<1>2. Cardinality(lock) <= 1
  BY AtMostOne DEF TypeInv, LockOK
<1> QED
  BY <1>1, <1>2 DEF TypeInv, TypeOK, NumbersOK, OpOK, LockOK, WireOK, EventsOK, CallRecord, Requests

-----------------------------------------------------------------------------
(* Where an operation goes.                                                *)
Points == {"idle", "lock", "drain", "write", "wait", "alive", "join",
           "restart", "refresh", "scan", "lastScan", "asleep",
           "closing", "closed"}

LEMMA IdleType == /\ Idle \in Operation /\ Idle.pc = "idle" /\ Idle.txn = 0
                  /\ Idle.want = "none" /\ Idle.doing = "none"
BY DEF Idle, Operation

LEMMA GotoStep ==
    ASSUME op \in [Threads -> Operation], NEW t \in Threads, NEW at \in Points, Goto(t, at)
    PROVE  /\ op' \in [Threads -> Operation]
           /\ op'[t].pc = at
           /\ op'[t].txn \in {0, op[t].txn}
           /\ \A s \in Threads : s = t \/ op'[s] = op[s]
           /\ at # "idle" => op'[t].txn = op[t].txn /\ op'[t].want = op[t].want
           /\ op'[t].doing \in {"none", op[t].doing}
<1> DEFINE o == IF at = "idle" THEN Idle ELSE [op[t] EXCEPT !.pc = at]
<1>1. op' = [op EXCEPT ![t] = o]
  BY DEF Goto
<1>2. op[t] \in Operation
  OBVIOUS
<1>3. [op[t] EXCEPT !.pc = at] \in Operation
  BY <1>2 DEF Operation, Points
<1>4. /\ o \in Operation /\ o.pc = at /\ o.txn \in {0, op[t].txn}
      /\ at # "idle" => o.txn = op[t].txn /\ o.want = op[t].want
      /\ o.doing \in {"none", op[t].doing}
  BY <1>2, <1>3, IdleType DEF Operation
<1> HIDE DEF o
<1> QED
  BY <1>1, <1>4

LEMMA StartStep ==
    ASSUME op \in [Threads -> Operation], NEW name, NEW t \in Threads,
           NEW o \in Operation, Start(name, t, o)
    PROVE  /\ op' \in [Threads -> Operation]
           /\ op[t].pc = "idle" /\ op'[t] = o
           /\ \A s \in Threads : s = t \/ op'[s] = op[s]
BY DEF Start

\* Waking the sleepers changes their place and nothing else.
LEMMA NotifyStep ==
    ASSUME op \in [Threads -> Operation]
    PROVE  /\ NotifyAll \in [Threads -> Operation]
           /\ \A t \in Threads : NotifyAll[t].txn = op[t].txn /\ NotifyAll[t].doing = op[t].doing
           /\ \A t \in Threads : \/ op[t].pc = "asleep" /\ NotifyAll[t].pc = "scan"
                                 \/ NotifyAll[t] = op[t]
<1>1. \A t \in Threads : op[t] \in Operation /\ [op[t] EXCEPT !.pc = "scan"] \in Operation
  BY DEF Operation
<1>2. \A t \in Threads : /\ [op[t] EXCEPT !.pc = "scan"].txn = op[t].txn
                         /\ [op[t] EXCEPT !.pc = "scan"].doing = op[t].doing
                         /\ [op[t] EXCEPT !.pc = "scan"].pc = "scan"
  BY <1>1 DEF Operation
<1> QED
  BY <1>1, <1>2 DEF NotifyAll, Asleep

LEMMA TellStep ==
    ASSUME NEW o \in [Threads -> Operation], Tell(o)
    PROVE  /\ op' \in [Threads -> Operation]
           /\ \A t \in Threads : \/ op'[t] = o[t]
                                 \/ /\ t = OnLine /\ op'[t].pc = "lock"
                                    /\ op'[t].txn = 0 /\ op'[t].doing = "call"
           /\ ops' = ops \/ (ops < MaxOps /\ ops' = ops + 1)
<1>1. CASE op' = o /\ UNCHANGED ops
  BY <1>1
<1>2. CASE OnLine \in Threads /\ ops < MaxOps /\ ops' = ops + 1 /\ op' = Called(o)
  <2> DEFINE c == [Idle EXCEPT !.pc = "lock", !.doing = "call"]
  <2>1. c \in Operation /\ c.pc = "lock" /\ c.txn = 0 /\ c.doing = "call"
    BY DEF Idle, Operation
  <2>2. op' = [o EXCEPT ![OnLine] = c]
    BY <1>2 DEF Called
  <2> HIDE DEF c
  <2> QED
    BY <1>2, <2>1, <2>2
<1> QED
  BY <1>1, <1>2 DEF Tell

\* What a line does, by its kind.
FilesResponse(l) == /\ l.kind = "response"
                    /\ pending' = Append(pending, l.n)
                    /\ Tell(op)
                    /\ UNCHANGED <<eventVars, reader, malformed>>
FilesEvent(l) == /\ l.kind \in {"event", "ready"}
                 /\ events' = Append(events, l)
                 /\ filed' = Append(filed, l)
                 /\ Tell(NotifyAll)
                 /\ UNCHANGED <<pending, taken, resets, reader, malformed>>
FilesDamaged(l) == /\ l.kind = "damaged"
                   /\ reader' = FALSE
                   /\ UNCHANGED <<pending, eventVars, threadVars, malformed>>
FilesNothing == /\ malformed' = malformed + 1
                /\ Tell(op)
                /\ UNCHANGED <<pending, eventVars, reader>>

LEMMA ReadLineStep ==
    ASSUME WireOK, ReadLine
    PROVE  /\ reader /\ ~InCallback
           /\ toHost # <<>> /\ toHost' = Tail(toHost)
           /\ half' = FALSE
           /\ UNCHANGED <<toDev, deviceVars, linkVars, port, stop, lock, calls>>
           /\ \E l \in WireLines :
                 /\ l.kind = toHost[1].kind /\ l.n = toHost[1].n
                 /\ \/ toHost[1].begun = half
                       /\ (FilesResponse(l) \/ FilesEvent(l) \/ FilesDamaged(l))
                    \/ toHost[1].begun # half /\ FilesNothing
<1> DEFINE h == Head(toHost)
           l == [h EXCEPT !.begun = FALSE]
<1>1. /\ reader /\ ~InCallback /\ toHost # <<>> /\ toHost' = Tail(toHost) /\ half' = FALSE
      /\ UNCHANGED <<toDev, deviceVars, linkVars, port, stop, lock, calls>>
      /\ h.kind # "fragment"
  BY DEF ReadLine, Reading
<1>2. \/ h.begun = half /\ File(l) /\ malformed' = malformed
      \/ h.begun # half /\ FilesNothing
  BY DEF ReadLine, FilesNothing
<1>3. h \in WireLines /\ h = toHost[1]
  BY <1>1, HeadTailProperties DEF WireOK
<1> HIDE DEF h
<1>4. l \in WireLines /\ l.kind = h.kind /\ l.n = h.n
  BY <1>3 DEF WireLines, Lines
<1> HIDE DEF l
<1>5. l.kind \in {"response", "event", "ready", "damaged"}
  BY <1>1, <1>4 DEF WireLines, Lines
<1>6. ASSUME File(l), malformed' = malformed
      PROVE  FilesResponse(l) \/ FilesEvent(l) \/ FilesDamaged(l)
  <2>1. CASE l.kind = "response"
    BY <1>6, <2>1 DEF File, FilesResponse
  <2>2. CASE l.kind \in {"event", "ready"}
    BY <1>6, <2>2 DEF File, FilesEvent
  <2>3. CASE l.kind = "damaged"
    BY <1>6, <2>3 DEF File, FilesDamaged
  <2> QED
    BY <1>5, <2>1, <2>2, <2>3
<1> QED
  BY <1>1, <1>2, <1>3, <1>4, <1>6

-----------------------------------------------------------------------------
(* Numbers and flags.                                                      *)
LEMMA Counts == \A m \in Nat : \A x \in 0 .. m : x < m => x + 1 \in 0 .. m
OBVIOUS

LEMMA NumbersSame ==
    ASSUME NumbersOK, UNCHANGED <<deviceVars, linkVars, readerVars, port, ops>>
    PROVE  NumbersOK'
BY DEF NumbersOK, deviceVars, linkVars, readerVars

LEMMA NumbersStart ==
    ASSUME NumbersOK, NEW name, NEW t, NEW o, Start(name, t, o),
           UNCHANGED <<deviceVars, linkVars, port, reader, half, malformed>>,
           stop' = stop \/ stop' = TRUE
    PROVE  NumbersOK'
<1>1. ops' \in 0 .. MaxOps
  BY Counts DEF NumbersOK, Start
<1>2. stop' \in BOOLEAN
  BY DEF NumbersOK
<1> QED
  BY <1>1, <1>2 DEF NumbersOK, deviceVars, linkVars

LEMMA NumbersStep == ASSUME TypeInv, [Next]_vars PROVE NumbersOK'
<1> USE DEF outside, hostVars, eventVars, callVars, threadVars
<1>0. NumbersOK /\ WireOK
  BY DEF TypeInv
<1>1. CASE Environment
  <2> USE DEF deviceVars, linkVars, readerVars
  <2>1. CASE Serve
    <3>1. resetting' \in BOOLEAN
      BY <2>1 DEF Serve
    <3>2. UNCHANGED <<boots, raised, cuts, linkVars, port, readerVars, ops>>
      BY <2>1 DEF Serve
    <3> QED
      BY <1>0, <3>1, <3>2 DEF NumbersOK
  <2>2. CASE RaiseEvent
    <3>1. raised' \in 0 .. MaxEvents
      BY <1>0, <2>2, Counts DEF NumbersOK, RaiseEvent
    <3> QED
      BY <1>0, <2>2, <3>1 DEF NumbersOK, RaiseEvent
  <2>3. CASE Reboot
    <3>1. /\ boots' \in 0 .. MaxBoots /\ boots' = boots + 1
          /\ cuts' = cuts \/ cuts' = cuts + 1
          /\ resetting' = FALSE
          /\ UNCHANGED <<raised, linkVars, port, hostVars>>
      BY <1>0, <2>3, Counts DEF NumbersOK, Reboot
    <3>2. cuts' \in 0 .. MaxBoots /\ cuts' <= boots'
      BY <1>0, <3>1 DEF NumbersOK
    <3> QED
      BY <1>0, <3>1, <3>2 DEF NumbersOK
  <2>4. CASE LinkDown
    <3>1. deaths' \in 0 .. MaxDeaths /\ port' \in {port, "dead"} /\ plugged' = FALSE
      BY <1>0, <2>4, Counts DEF NumbersOK, LinkDown
    <3>2. UNCHANGED <<resetting, boots, raised, cuts, damages, readerVars, ops>>
      BY <2>4 DEF LinkDown
    <3> QED
      BY <1>0, <3>1, <3>2 DEF NumbersOK
  <2>5. CASE LinkUp
    BY <1>0, <2>5 DEF NumbersOK, LinkUp
  <2>6. CASE Damage
    BY <1>0, <2>6, SMTT(30) DEF NumbersOK, Damage
  <2> QED
    BY <1>1, <2>1, <2>2, <2>3, <2>4, <2>5, <2>6 DEF Environment
<1>2. CASE Reader
  <2>1. CASE ReadPart
    BY <1>0, <2>1 DEF NumbersOK, ReadPart, deviceVars, linkVars
  <2>2. CASE ReadLine
    <3>1. /\ half' = FALSE /\ UNCHANGED <<deviceVars, linkVars, port, stop>>
          /\ \E l \in WireLines :
                FilesResponse(l) \/ FilesEvent(l) \/ FilesDamaged(l) \/ FilesNothing
      BY <1>0, <2>2, ReadLineStep
    <3>2. ASSUME NEW o, Tell(o) PROVE ops' = ops \/ (ops < MaxOps /\ ops' = ops + 1)
      BY <3>2 DEF Tell
    <3>3. /\ reader' = reader \/ reader' = FALSE
          /\ malformed' \in {malformed, malformed + 1}
          /\ ops' = ops \/ (ops < MaxOps /\ ops' = ops + 1)
      BY <3>1, <3>2 DEF FilesResponse, FilesEvent, FilesDamaged, FilesNothing
    <3>4. ops' \in 0 .. MaxOps /\ malformed' \in Nat
      BY <1>0, <3>3, Counts DEF NumbersOK
    <3>5. reader' \in BOOLEAN
      BY <1>0, <3>3 DEF NumbersOK
    <3> QED
      BY <1>0, <3>1, <3>4, <3>5 DEF NumbersOK, deviceVars, linkVars
  <2>3. CASE ReaderEnds
    BY <1>0, <2>3 DEF NumbersOK, ReaderEnds, deviceVars, linkVars
  <2> QED
    BY <1>2, <2>1, <2>2, <2>3 DEF Reader
<1>3. ASSUME NEW t \in Threads, Begin(t) PROVE NumbersOK'
  <2>1. CASE Call(t)
    BY <1>0, <2>1, NumbersStart DEF Call, readerVars
  <2>2. CASE Reset(t)
    BY <1>0, <2>2, NumbersStart DEF Reset, readerVars
  <2>3. CASE ExpectEvent(t)
    BY <1>0, <2>3, NumbersStart DEF ExpectEvent, readerVars
  <2>4. CASE DrainEvents(t)
    BY <1>0, <2>4, NumbersStart DEF DrainEvents, readerVars
  <2>5. CASE WriteLine(t)
    BY <1>0, <2>5, NumbersStart DEF WriteLine, readerVars
  <2>6. CASE Close(t)
    BY <1>0, <2>6, NumbersStart DEF Close, readerVars
  <2> QED
    BY <1>3, <2>1, <2>2, <2>3, <2>4, <2>5, <2>6 DEF Begin
<1>4. ASSUME NEW t \in Threads, Continue(t) PROVE NumbersOK'
  <2>1. CASE Acquire(t) \/ Drain(t) \/ GetAnswer(t) \/ Timeout(t) \/ Refresh(t)
    BY <1>0, <2>1, NumbersSame DEF Acquire, Drain, GetAnswer, Timeout, Refresh, Go
  <2>2. CASE Write(t)
    BY <1>0, <2>2, NumbersSame DEF Write
  <2>3. CASE TakeEvent(t) \/ Sleep(t) \/ NoEvent(t) \/ WaitExpires(t) \/ JoinReader(t)
    BY <1>0, <2>3, NumbersSame
       DEF TakeEvent, Sleep, NoEvent, GiveUp, WaitExpires, JoinReader, Go
  <2>4. CASE CheckAlive(t)
    BY <1>0, <2>4 DEF NumbersOK, CheckAlive, deviceVars, linkVars
  <2>5. CASE Reopen(t)
    BY <1>0, <2>5 DEF NumbersOK, Reopen, deviceVars, linkVars, readerVars
  <2>6. CASE Restart(t)
    BY <1>0, <2>6 DEF NumbersOK, Restart, deviceVars, linkVars
  <2>7. CASE CloseTransport(t)
    BY <1>0, <2>7 DEF NumbersOK, CloseTransport, deviceVars, linkVars, readerVars
  <2> QED
    BY <1>4, <2>1, <2>2, <2>3, <2>4, <2>5, <2>6, <2>7 DEF Continue
<1>5. CASE UNCHANGED vars
  BY <1>0, <1>5, NumbersSame DEF vars
<1> QED
  BY <1>1, <1>2, <1>3, <1>4, <1>5 DEF Next

-----------------------------------------------------------------------------
(* Where the threads are, and _call_lock.                                  *)
TxnPoints == {"drain", "write", "wait"}

\* The lock is right after a step in which nobody enters or leaves a transaction,
LEMMA LockSame ==
    ASSUME LockOK, lock' = lock,
           \A s \in Threads : op'[s].pc \in TxnPoints <=> op[s].pc \in TxnPoints
    PROVE  LockOK'
BY DEF LockOK, InTxn, TxnPoints

\* and after one in which the holder leaves with the lock given back.
LEMMA LockLeft ==
    ASSUME LockOK, NEW t \in Threads, op[t].pc \in TxnPoints, lock' = {},
           \A s \in Threads : s = t \/ op'[s] = op[s],
           op'[t].pc \notin TxnPoints
    PROVE  LockOK'
<1>1. \A s \in Threads : s # t => op[s].pc \notin TxnPoints
  BY DEF LockOK, InTxn, TxnPoints
<1>2. InTxn' = {}
  BY <1>1 DEF InTxn, TxnPoints
<1> QED
  BY <1>2 DEF LockOK

\* A record that is longer than before leaves the numbers of the others right.
LEMMA OpGoto ==
    ASSUME OpOK, NEW t \in Threads, NEW at \in Points, at # "wait", Goto(t, at),
           calls' \in Seq(CallRecord), Len(calls') >= Len(calls)
    PROVE  OpOK'
<1>1. /\ op' \in [Threads -> Operation] /\ op'[t].pc = at
      /\ op'[t].txn \in {0, op[t].txn}
      /\ \A s \in Threads : s = t \/ op'[s] = op[s]
  BY GotoStep DEF OpOK
<1>2. /\ Len(calls) \in Nat /\ DOMAIN calls = 1 .. Len(calls)
      /\ Len(calls') \in Nat /\ DOMAIN calls' = 1 .. Len(calls')
  BY LenProperties DEF OpOK
<1>3. \A s \in Threads : op[s].txn \in Nat
  BY DEF OpOK, Operation
<1>4. \A s \in Threads : op'[s].txn <= Len(calls')
  BY <1>1, <1>2, <1>3, SMTT(30) DEF OpOK
<1>5. \A s \in Threads : op'[s].pc = "wait" => op'[s].txn \in DOMAIN calls'
  BY <1>1, <1>2, <1>3 DEF OpOK
<1> QED
  BY <1>1, <1>4, <1>5 DEF OpOK

LEMMA OpStart ==
    ASSUME OpOK, NEW name, NEW t \in Threads, NEW o \in Operation, o.txn = 0, o.pc # "wait",
           Start(name, t, o), calls' \in Seq(CallRecord), Len(calls') >= Len(calls)
    PROVE  OpOK'
<1>1. /\ op' \in [Threads -> Operation] /\ op'[t] = o
      /\ \A s \in Threads : s = t \/ op'[s] = op[s]
  BY StartStep, SMTT(30) DEF OpOK
<1>2. /\ Len(calls) \in Nat /\ DOMAIN calls = 1 .. Len(calls)
      /\ Len(calls') \in Nat /\ DOMAIN calls' = 1 .. Len(calls')
  BY LenProperties DEF OpOK
<1>3. \A s \in Threads : op[s].txn \in Nat
  BY DEF OpOK, Operation
<1>4. \A s \in Threads : op'[s].txn <= Len(calls')
  BY <1>1, <1>2, <1>3 DEF OpOK
<1>5. \A s \in Threads : op'[s].pc = "wait" => op'[s].txn \in DOMAIN calls'
  BY <1>1, <1>2, <1>3 DEF OpOK
<1> QED
  BY <1>1, <1>4, <1>5 DEF OpOK

ThreadsOK == OpOK /\ LockOK

LEMMA ThreadsSame == ASSUME ThreadsOK, UNCHANGED <<op, calls, lock>> PROVE ThreadsOK'
BY DEF ThreadsOK, OpOK, LockOK, InTxn

\* A step of a thread that neither calls nor answers.
LEMMA ThreadsGo ==
    ASSUME ThreadsOK, NEW t \in Threads, NEW at \in Points \ TxnPoints,
           Goto(t, at), op[t].pc \notin TxnPoints, UNCHANGED <<calls, lock>>
    PROVE  ThreadsOK'
<1>1. OpOK'
  BY OpGoto, LenProperties DEF ThreadsOK, OpOK, TxnPoints
<1>2. op'[t].pc = at /\ \A s \in Threads : s = t \/ op'[s] = op[s]
  BY GotoStep DEF ThreadsOK, OpOK
<1>3. LockOK'
  BY <1>2, LockSame DEF ThreadsOK
<1> QED
  BY <1>1, <1>3 DEF ThreadsOK

LEMMA ThreadsStart ==
    ASSUME ThreadsOK, NEW name, NEW t \in Threads, NEW o \in Operation, o.txn = 0,
           o.pc \notin TxnPoints,
           Start(name, t, o), calls' \in Seq(CallRecord), Len(calls') >= Len(calls), lock' = lock
    PROVE  ThreadsOK'
<1>1. OpOK'
  BY OpStart DEF ThreadsOK, TxnPoints
<1>2. op[t].pc = "idle" /\ op'[t] = o /\ \A s \in Threads : s = t \/ op'[s] = op[s]
  BY StartStep, ZenonT(60) DEF ThreadsOK, OpOK
<1>3. LockOK'
  BY <1>2, LockSame DEF ThreadsOK, TxnPoints
<1> QED
  BY <1>1, <1>3 DEF ThreadsOK

LEMMA ThreadsTell ==
    ASSUME ThreadsOK, ~InCallback, Tell(op) \/ Tell(NotifyAll), UNCHANGED <<calls, lock>>
    PROVE  ThreadsOK'
<1>1. PICK o \in [Threads -> Operation] :
         /\ Tell(o)
         /\ \A t \in Threads : o[t].txn = op[t].txn
         /\ \A t \in Threads : (op[t].pc = "asleep" /\ o[t].pc = "scan") \/ o[t] = op[t]
  BY NotifyStep DEF ThreadsOK, OpOK
<1>2. /\ op' \in [Threads -> Operation]
      /\ \A t \in Threads : op'[t] = o[t] \/ (t = OnLine /\ op'[t].pc = "lock" /\ op'[t].txn = 0)
  BY <1>1, TellStep
<1>3. Len(calls) \in Nat /\ \A t \in Threads : op[t].txn \in Nat
  BY LenProperties DEF ThreadsOK, OpOK, Operation
<1>4. OpOK'
  <2>1. \A t \in Threads : op'[t].txn <= Len(calls')
    BY <1>1, <1>2, <1>3 DEF ThreadsOK, OpOK
  <2>2. \A t \in Threads : op'[t].pc = "wait" => op'[t].txn \in DOMAIN calls'
    BY <1>1, <1>2 DEF ThreadsOK, OpOK
  <2> QED
    BY <1>2, <2>1, <2>2 DEF ThreadsOK, OpOK
<1>5. \A t \in Threads : op'[t].pc \in TxnPoints <=> op[t].pc \in TxnPoints
  BY <1>1, <1>2 DEF TxnPoints, InCallback
<1>6. LockOK'
  BY <1>5, LockSame DEF ThreadsOK
<1> QED
  BY <1>4, <1>6 DEF ThreadsOK

\* A step that changes more of the operation than its place.
LEMMA ThreadsMove ==
    ASSUME ThreadsOK, NEW t \in Threads, NEW o \in Operation,
           op' = [op EXCEPT ![t] = o], o.txn = op[t].txn,
           o.pc \notin TxnPoints, op[t].pc \notin TxnPoints, UNCHANGED <<calls, lock>>
    PROVE  ThreadsOK'
<1>1. /\ op' \in [Threads -> Operation] /\ op'[t] = o
      /\ \A s \in Threads : s = t \/ op'[s] = op[s]
  BY DEF ThreadsOK, OpOK
<1>2. OpOK'
  BY <1>1 DEF ThreadsOK, OpOK, TxnPoints
<1>3. LockOK'
  BY <1>1, LockSame DEF ThreadsOK
<1> QED
  BY <1>2, <1>3 DEF ThreadsOK

LEMMA ExpectReadyStep ==
    ASSUME ThreadsOK, NEW t \in Threads, ExpectReady(t), op[t].pc \notin TxnPoints,
           UNCHANGED <<calls, lock>>
    PROVE  ThreadsOK'
<1> DEFINE o == [op[t] EXCEPT !.pc = "scan", !.want = "ready"]
<1>1. op[t] \in Operation
  BY DEF ThreadsOK, OpOK
<1>2. o \in Operation /\ o.txn = op[t].txn /\ o.pc = "scan"
  BY <1>1 DEF Operation
<1>3. op' = [op EXCEPT ![t] = o]
  BY <1>1 DEF ExpectReady, ThreadsOK, OpOK
<1> HIDE DEF o
<1> QED
  BY <1>2, <1>3, ThreadsMove DEF TxnPoints

LEMMA AfterTxnType == \A t : AfterTxn(t) \in Points \ TxnPoints
BY DEF AfterTxn, Points, TxnPoints

\* The ways out of a transaction, all of which give the lock back.
LEMMA ThreadsLeave ==
    ASSUME ThreadsOK, NEW t \in Threads, op[t].pc \in TxnPoints, lock' = {},
           Goto(t, AfterTxn(t)), calls' \in Seq(CallRecord), Len(calls') >= Len(calls)
    PROVE  ThreadsOK'
<1>1. AfterTxn(t) \in Points /\ AfterTxn(t) \notin TxnPoints /\ AfterTxn(t) # "wait"
  BY AfterTxnType DEF TxnPoints
<1>2. OpOK'
  BY <1>1, OpGoto DEF ThreadsOK
<1>3. op'[t].pc = AfterTxn(t) /\ \A s \in Threads : s = t \/ op'[s] = op[s]
  BY <1>1, GotoStep DEF ThreadsOK, OpOK
<1>4. LockOK'
  BY <1>1, <1>3, LockLeft DEF ThreadsOK
<1> QED
  BY <1>2, <1>4 DEF ThreadsOK

\* The records of the calls: one more, or one rewritten.
LEMMA CallsAppend ==
    ASSUME OpOK, NEW how \in {"open", "answered", "abandoned", "broken"},
           calls' = Append(calls, [left |-> how, got |-> 0])
    PROVE  /\ calls' \in Seq(CallRecord)
           /\ Len(calls) \in Nat /\ Len(calls') = Len(calls) + 1
           /\ DOMAIN calls = 1 .. Len(calls) /\ DOMAIN calls' = 1 .. Len(calls')
<1>1. [left |-> how, got |-> 0] \in CallRecord
  BY DEF CallRecord
<1>2. calls \in Seq(CallRecord)
  BY DEF OpOK
<1> QED
  BY <1>1, <1>2

LEMMA CallsLeave ==
    ASSUME OpOK, NEW t \in Threads, op[t].pc = "wait", NEW how \in {"answered", "abandoned"},
           NEW answer \in Nat, Leave(t, how, answer)
    PROVE  calls' \in Seq(CallRecord) /\ Len(calls') = Len(calls) /\ DOMAIN calls' = DOMAIN calls
<1> DEFINE r == [left |-> how, got |-> answer]
<1>1. calls' = [calls EXCEPT ![op[t].txn] = r]
  BY DEF Leave
<1>2. calls \in Seq(CallRecord) /\ op[t].txn \in 1 .. Len(calls)
  BY LenProperties DEF OpOK
<1>3. r \in CallRecord
  BY DEF CallRecord
<1> HIDE DEF r
<1>4. calls' \in Seq(CallRecord) /\ Len(calls') = Len(calls)
  BY <1>1, <1>2, <1>3, ExceptSeq
<1> QED
  BY <1>1, <1>4

LEMMA AcquireStep == ASSUME ThreadsOK, NEW t \in Threads, Acquire(t) PROVE ThreadsOK'
<1>1. /\ op[t].pc = "lock" /\ lock = {} /\ lock' = {t} /\ Goto(t, "drain") /\ calls' = calls
  BY DEF Acquire
<1>2. OpOK'
  BY <1>1, OpGoto, LenProperties DEF ThreadsOK, OpOK, Points
<1>3. op'[t].pc = "drain" /\ \A s \in Threads : s = t \/ op'[s] = op[s]
  BY <1>1, GotoStep DEF ThreadsOK, OpOK, Points
<1>4. InTxn' = {t}
  BY <1>1, <1>3 DEF ThreadsOK, LockOK, InTxn
<1> QED
  BY <1>1, <1>2, <1>4 DEF ThreadsOK, LockOK

LEMMA DrainStep == ASSUME ThreadsOK, NEW t \in Threads, Drain(t) PROVE ThreadsOK'
<1>1. op[t].pc = "drain" /\ Goto(t, "write") /\ UNCHANGED <<calls, lock>>
  BY DEF Drain
<1>2. OpOK'
  BY <1>1, OpGoto, LenProperties DEF ThreadsOK, OpOK, Points
<1>3. op'[t].pc = "write" /\ \A s \in Threads : s = t \/ op'[s] = op[s]
  BY <1>1, GotoStep DEF ThreadsOK, OpOK, Points
<1>4. LockOK'
  BY <1>1, <1>3, LockSame DEF ThreadsOK, TxnPoints
<1> QED
  BY <1>2, <1>4 DEF ThreadsOK

LEMMA WaitType ==
    ASSUME NEW r \in Operation, NEW n \in Nat
    PROVE  LET o == [r EXCEPT !.pc = "wait", !.txn = n]
           IN  o \in Operation /\ o.pc = "wait" /\ o.txn = n
BY DEF Operation

LEMMA WriteStep == ASSUME ThreadsOK, NEW t \in Threads, Write(t) PROVE ThreadsOK'
<1>1. op[t].pc = "write" /\ op[t] \in Operation
  BY DEF Write, ThreadsOK, OpOK
<1>2. CASE port = "good"
  <2> DEFINE o == [op[t] EXCEPT !.pc = "wait", !.txn = Len(calls')]
  <2>1. calls' = Append(calls, [left |-> "open", got |-> 0]) /\ lock' = lock
    BY <1>2 DEF Write, WriteRequest
  <2>2. /\ calls' \in Seq(CallRecord)
        /\ Len(calls) \in Nat /\ Len(calls') = Len(calls) + 1
        /\ DOMAIN calls = 1 .. Len(calls) /\ DOMAIN calls' = 1 .. Len(calls')
    BY <2>1, CallsAppend DEF ThreadsOK
  <2>3. op' = [op EXCEPT ![t] = o]
    BY <1>1, <1>2 DEF Write, ThreadsOK, OpOK
  <2>4. o \in Operation /\ o.pc = "wait" /\ o.txn = Len(calls')
    <3>1. Len(calls') \in Nat
      BY <2>2
    <3> QED
      BY <1>1, <3>1, WaitType, ZenonT(60)
  <2> HIDE DEF o
  <2>5. /\ op' \in [Threads -> Operation] /\ op'[t] = o
        /\ \A s \in Threads : s = t \/ op'[s] = op[s]
    BY <2>3, <2>4 DEF ThreadsOK, OpOK
  <2>6. \A s \in Threads : op[s].txn \in Nat
    BY DEF ThreadsOK, OpOK, Operation
  <2>7. OpOK'
    <3>1. \A s \in Threads : op'[s].txn <= Len(calls')
      BY <2>2, <2>4, <2>5, <2>6 DEF ThreadsOK, OpOK
    <3>2. \A s \in Threads : op'[s].pc = "wait" => op'[s].txn \in DOMAIN calls'
      BY <2>2, <2>4, <2>5, <2>6 DEF ThreadsOK, OpOK
    <3> QED
      BY <2>2, <2>5, <3>1, <3>2 DEF OpOK
  <2>8. LockOK'
    BY <1>1, <2>1, <2>4, <2>5, LockSame DEF ThreadsOK, TxnPoints
  <2> QED
    BY <2>7, <2>8 DEF ThreadsOK
<1>3. CASE port # "good"
  <2>1. /\ calls' = Append(calls, [left |-> "broken", got |-> 0])
        /\ Goto(t, AfterTxn(t)) /\ lock' = {}
    BY <1>3 DEF Write, WriteRequest
  <2>2. calls' \in Seq(CallRecord) /\ Len(calls) \in Nat /\ Len(calls') = Len(calls) + 1
    BY <2>1, CallsAppend DEF ThreadsOK
  <2> QED
    BY <1>1, <2>1, <2>2, ThreadsLeave DEF TxnPoints
<1> QED
  BY <1>2, <1>3

LEMMA AnswerStep ==
    ASSUME ThreadsOK, WireOK, NEW t \in Threads, GetAnswer(t) \/ Timeout(t)
    PROVE  ThreadsOK' /\ DOMAIN calls' = DOMAIN calls
<1>1. op[t].pc = "wait" /\ lock' = {} /\ Goto(t, AfterTxn(t))
  BY DEF GetAnswer, Timeout
<1>2. DOMAIN calls \subseteq Nat /\ Len(calls) \in Nat
  BY LenProperties DEF ThreadsOK, OpOK
<1>3. \E how \in {"answered", "abandoned"}, answer \in Nat : Leave(t, how, answer)
  <2>1. CASE GetAnswer(t)
    <3>1. pending # <<>> /\ Leave(t, "answered", Head(pending))
      BY <2>1 DEF GetAnswer
    <3>2. Head(pending) \in Nat
      BY <1>2, <3>1, HeadTailProperties DEF WireOK
    <3> QED
      BY <3>1, <3>2
  <2>2. CASE Timeout(t)
    BY <2>2 DEF Timeout
  <2> QED
    BY <2>1, <2>2
<1>4. calls' \in Seq(CallRecord) /\ Len(calls') = Len(calls) /\ DOMAIN calls' = DOMAIN calls
  BY <1>1, <1>3, CallsLeave DEF ThreadsOK
<1> QED
  BY <1>1, <1>2, <1>4, ThreadsLeave DEF TxnPoints

\* The step of every action that is no step of a transaction.
LEMMA StartedTypes ==
    /\ Idle \in Operation /\ Idle.txn = 0 /\ Idle.pc = "idle"
    /\ LET o == [Idle EXCEPT !.pc = "lock", !.doing = "call"]
       IN  o \in Operation /\ o.txn = 0 /\ o.pc = "lock"
    /\ \A w \in {"event", "ready"} :
          LET o == [Idle EXCEPT !.pc = "scan", !.doing = "expect", !.want = w]
          IN  o \in Operation /\ o.txn = 0 /\ o.pc = "scan"
    /\ LET o == [Idle EXCEPT !.pc = "closing", !.doing = "close"]
       IN  o \in Operation /\ o.txn = 0 /\ o.pc = "closing"
BY DEF Idle, Operation

LEMMA ResetType ==
    ASSUME NEW b \in Nat, NEW d \in {"reset", "bareReset"}
    PROVE  LET o == [Idle EXCEPT !.pc = "lock", !.doing = d, !.since = b]
           IN  o \in Operation /\ o.txn = 0 /\ o.pc = "lock"
BY DEF Idle, Operation

LEMMA BeginStep == ASSUME TypeInv, NEW t \in Threads, Begin(t) PROVE ThreadsOK'
<1>0. ThreadsOK /\ boots \in Nat
  BY DEF TypeInv, ThreadsOK, NumbersOK
<1>1. calls \in Seq(CallRecord) /\ Len(calls) \in Nat
  BY <1>0, LenProperties DEF ThreadsOK, OpOK
<1>2. ASSUME NEW name, NEW o \in Operation, o.txn = 0, o.pc \notin TxnPoints,
             Start(name, t, o), UNCHANGED <<calls, lock>>
      PROVE  ThreadsOK'
  <2>1. calls' \in Seq(CallRecord) /\ Len(calls') >= Len(calls)
    BY <1>1, <1>2
  <2> QED
    BY <1>0, <1>2, <2>1, ThreadsStart
<1>3. CASE Call(t)
  <2>1. /\ Start("call", t, [Idle EXCEPT !.pc = "lock", !.doing = "call"])
        /\ UNCHANGED <<calls, lock>>
    BY <1>3 DEF Call, callVars
  <2> QED
    BY <1>2, <2>1, StartedTypes DEF TxnPoints
<1>4. CASE Reset(t)
  <2>1. PICK d \in {"reset", "bareReset"} :
           Start("reset", t, [Idle EXCEPT !.pc = "lock", !.doing = d, !.since = boots])
    BY <1>4 DEF Reset
  <2>2. UNCHANGED <<calls, lock>>
    BY <1>4 DEF Reset, callVars
  <2>3. PICK o : o = [Idle EXCEPT !.pc = "lock", !.doing = d, !.since = boots]
    OBVIOUS
  <2>4. o \in Operation /\ o.txn = 0 /\ o.pc = "lock"
    <3>1. boots \in Nat /\ d \in {"reset", "bareReset"}
      BY <1>0
    <3> QED
      BY <2>3, <3>1, ResetType, ZenonT(60)
  <2> QED
    BY <1>2, <2>1, <2>2, <2>3, <2>4 DEF TxnPoints
<1>5. CASE ExpectEvent(t)
  <2>1. PICK w \in {"event", "ready"} :
           Start("expect", t, [Idle EXCEPT !.pc = "scan", !.doing = "expect", !.want = w])
    BY <1>5 DEF ExpectEvent
  <2>2. UNCHANGED <<calls, lock>>
    BY <1>5 DEF ExpectEvent, callVars
  <2>3. PICK o : o = [Idle EXCEPT !.pc = "scan", !.doing = "expect", !.want = w]
    OBVIOUS
  <2>4. o \in Operation /\ o.txn = 0 /\ o.pc = "scan"
    BY <2>3, StartedTypes
  <2> QED
    BY <1>2, <2>1, <2>2, <2>3, <2>4 DEF TxnPoints
<1>6. CASE DrainEvents(t)
  <2>1. Start("drain", t, Idle) /\ UNCHANGED <<calls, lock>>
    BY <1>6 DEF DrainEvents, callVars
  <2> QED
    BY <1>2, <2>1, StartedTypes DEF TxnPoints
<1>7. CASE WriteLine(t)
  <2>1. /\ Start("write_line", t, Idle) /\ lock' = lock
        /\ calls' = Append(calls, [left |-> "abandoned", got |-> 0])
    BY <1>7 DEF WriteLine
  <2>2. calls' \in Seq(CallRecord) /\ Len(calls') >= Len(calls)
    BY <1>0, <2>1, CallsAppend DEF ThreadsOK
  <2> QED
    BY <1>0, <2>1, <2>2, ThreadsStart, StartedTypes DEF TxnPoints
<1>8. CASE Close(t)
  <2>1. /\ Start("close", t, [Idle EXCEPT !.pc = "closing", !.doing = "close"])
        /\ UNCHANGED <<calls, lock>>
    BY <1>8 DEF Close, callVars
  <2> QED
    BY <1>2, <2>1, StartedTypes DEF TxnPoints
<1> QED
  BY <1>3, <1>4, <1>5, <1>6, <1>7, <1>8 DEF Begin

LEMMA RefreshType ==
    ASSUME NEW r \in Operation
    PROVE  LET o == [r EXCEPT !.pc = "lock", !.doing = "refresh"]
           IN  o \in Operation /\ o.pc = "lock" /\ o.txn = r.txn
BY DEF Operation

LEMMA ContinueStep == ASSUME TypeInv, NEW t \in Threads, Continue(t) PROVE ThreadsOK'
<1> USE DEF callVars
<1>0. ThreadsOK /\ WireOK
  BY DEF TypeInv, ThreadsOK
<1>1. CASE Acquire(t) \/ Drain(t) \/ Write(t) \/ GetAnswer(t) \/ Timeout(t)
  BY <1>0, <1>1, AcquireStep, DrainStep, WriteStep, AnswerStep
<1>2. CASE CheckAlive(t)
  <2>1. op[t].pc = "alive" /\ UNCHANGED <<calls, lock>> /\ (ExpectReady(t) \/ Goto(t, "join"))
    BY <1>2 DEF CheckAlive
  <2> QED
    BY <1>0, <2>1, ExpectReadyStep, ThreadsGo DEF Points, TxnPoints
<1>3. CASE Reopen(t)
  <2>1. op[t].pc = "join" /\ UNCHANGED <<calls, lock>> /\ (Goto(t, "restart") \/ Goto(t, "idle"))
    BY <1>3 DEF Reopen
  <2> QED
    BY <1>0, <2>1, ThreadsGo DEF Points, TxnPoints
<1>4. CASE Restart(t)
  <2>1. op[t].pc = "restart" /\ UNCHANGED <<calls, lock>> /\ ExpectReady(t)
    BY <1>4 DEF Restart
  <2> QED
    BY <1>0, <2>1, ExpectReadyStep DEF TxnPoints
<1>5. CASE Refresh(t)
  <2>1. op[t].pc = "refresh" /\ UNCHANGED <<calls, lock>>
    BY <1>5 DEF Refresh
  <2>2. CASE Goto(t, "idle")
    BY <1>0, <2>1, <2>2, ThreadsGo DEF Points, TxnPoints
  <2>3. CASE op' = [op EXCEPT ![t].pc = "lock", ![t].doing = "refresh"]
    <3>1. PICK o : o = [op[t] EXCEPT !.pc = "lock", !.doing = "refresh"]
      OBVIOUS
    <3>2. op[t] \in Operation
      BY <1>0 DEF ThreadsOK, OpOK
    <3>3. o \in Operation /\ o.pc = "lock" /\ o.txn = op[t].txn
      BY <3>1, <3>2, RefreshType
    <3>4. op' = [op EXCEPT ![t] = o]
      BY <1>0, <2>3, <3>1 DEF ThreadsOK, OpOK
    <3> QED
      BY <1>0, <2>1, <3>3, <3>4, ThreadsMove DEF TxnPoints
  <2> QED
    BY <1>5, <2>2, <2>3 DEF Refresh
<1>6. CASE CloseTransport(t)
  <2>1. op[t].pc = "closing" /\ UNCHANGED <<calls, lock>> /\ Goto(t, "closed")
    BY <1>6 DEF CloseTransport
  <2> QED
    BY <1>0, <2>1, ThreadsGo DEF Points, TxnPoints
<1>7. CASE JoinReader(t)
  <2>1. op[t].pc = "closed" /\ UNCHANGED <<calls, lock>> /\ Goto(t, "idle")
    BY <1>7 DEF JoinReader, Go
  <2> QED
    BY <1>0, <2>1, ThreadsGo DEF Points, TxnPoints
<1>8. CASE TakeEvent(t) \/ NoEvent(t)
  <2>1. /\ op[t].pc \in {"scan", "lastScan"} /\ UNCHANGED <<calls, lock>>
        /\ Goto(t, AfterExpect(t))
    BY <1>8 DEF TakeEvent, NoEvent, GiveUp, Go
  <2>2. AfterExpect(t) \in Points \ TxnPoints
    BY DEF AfterExpect, Points, TxnPoints
  <2> QED
    BY <1>0, <2>1, <2>2, ThreadsGo DEF TxnPoints
<1>9. CASE Sleep(t)
  <2>1. op[t].pc = "scan" /\ UNCHANGED <<calls, lock>> /\ Goto(t, "asleep")
    BY <1>9 DEF Sleep, Go
  <2> QED
    BY <1>0, <2>1, ThreadsGo DEF Points, TxnPoints
<1>10. CASE WaitExpires(t)
  <2>1. op[t].pc = "asleep" /\ UNCHANGED <<calls, lock>> /\ Goto(t, "lastScan")
    BY <1>10 DEF WaitExpires, Go
  <2> QED
    BY <1>0, <2>1, ThreadsGo DEF Points, TxnPoints
<1> QED
  BY <1>1, <1>2, <1>3, <1>4, <1>5, <1>6, <1>7, <1>8, <1>9, <1>10 DEF Continue

LEMMA ThreadsStep == ASSUME TypeInv, [Next]_vars PROVE ThreadsOK'
<1>0. ThreadsOK /\ WireOK
  BY DEF TypeInv, ThreadsOK
<1>1. CASE Environment
  <2>1. UNCHANGED <<op, calls, lock>>
    BY <1>1 DEF Environment, Serve, RaiseEvent, Reboot, LinkDown, LinkUp, Damage,
                hostVars, callVars, threadVars
  <2> QED
    BY <1>0, <2>1, ThreadsSame
<1>2. CASE ReadPart \/ ReaderEnds
  <2>1. UNCHANGED <<op, calls, lock>>
    BY <1>2 DEF ReadPart, ReaderEnds, callVars, threadVars
  <2> QED
    BY <1>0, <2>1, ThreadsSame
<1>3. CASE ReadLine
  <2>1. PICK l \in WireLines : FilesResponse(l) \/ FilesEvent(l) \/ FilesDamaged(l) \/ FilesNothing
    BY <1>0, <1>3, ReadLineStep
  <2>2. ~InCallback /\ UNCHANGED <<calls, lock>>
    BY <1>0, <1>3, ReadLineStep
  <2>3. Tell(op) \/ Tell(NotifyAll) \/ UNCHANGED op
    BY <2>1 DEF FilesResponse, FilesEvent, FilesDamaged, FilesNothing, threadVars
  <2> QED
    BY <1>0, <2>2, <2>3, ThreadsTell, ThreadsSame
<1>4. CASE UNCHANGED vars
  BY <1>0, <1>4, ThreadsSame DEF vars, hostVars, callVars, threadVars
<1> QED
  BY <1>1, <1>2, <1>3, <1>4, BeginStep, ContinueStep DEF Next, Reader

-----------------------------------------------------------------------------
(* What is on its way, in both directions and in the queue.                *)
LEMMA WireKept ==
    ASSUME UNCHANGED <<calls, damages>>, toDev' \in Seq(Requests), toHost' \in Seq(WireLines),
           pending' \in Seq(DOMAIN calls)
    PROVE  WireOK'
BY DEF WireOK, Requests, WireLines

LEMMA WireSame ==
    ASSUME WireOK, UNCHANGED <<calls, damages, toDev, toHost, pending>>
    PROVE  WireOK'
BY WireKept DEF WireOK

LEMMA WireGrown ==
    ASSUME WireOK, DOMAIN calls \subseteq DOMAIN calls',
           UNCHANGED <<toHost, damages>>, pending' \in Seq(DOMAIN calls),
           \/ toDev' = toDev
           \/ \E kind \in {"call", "rig.reset"}, n \in DOMAIN calls' :
                 toDev' = Append(toDev, [kind |-> kind, n |-> n])
    PROVE  WireOK'
<1>1. Requests \subseteq Requests' /\ WireLines \subseteq WireLines'
  BY DEF Requests, WireLines
<1>2. toDev \in Seq(Requests') /\ toHost \in Seq(WireLines') /\ pending' \in Seq(DOMAIN calls')
  BY <1>1, SeqMonotonic DEF WireOK
<1>3. toDev' \in Seq(Requests')
  <2>1. ASSUME NEW kind \in {"call", "rig.reset"}, NEW n \in DOMAIN calls',
               toDev' = Append(toDev, [kind |-> kind, n |-> n])
        PROVE  toDev' \in Seq(Requests')
    <3>1. [kind |-> kind, n |-> n] \in Requests'
      BY DEF Requests
    <3>2. PICK S : S = Requests'
      OBVIOUS
    <3> QED
      BY <1>2, <2>1, <3>1, <3>2
  <2> QED
    BY <1>2, <2>1
<1> QED
  BY <1>2, <1>3 DEF WireOK

LEMMA PrintedType ==
    ASSUME toHost \in Seq(WireLines), NEW lines \in Seq(WireLines)
    PROVE  Printed(lines) \in Seq(WireLines)
BY DEF Printed

LEMMA LineTypes ==
    /\ \A n \in DOMAIN calls : n \in Nat => Line("response", n) \in WireLines
    /\ \A n \in Nat : Line("event", n) \in WireLines /\ Line("ready", n) \in WireLines
    /\ Fragment \in WireLines
BY DEF WireLines, Lines, Line, Fragment

\* A line that is marked where it stands.
LEMMA FirstChanged ==
    ASSUME NEW S, toHost \in Seq(S), toHost # <<>>, NEW l \in S,
           toHost' = [toHost EXCEPT ![1] = l]
    PROVE  toHost' \in Seq(S)
<1>1. 1 \in 1 .. Len(toHost)
  BY EmptySeq, LenProperties
<1> QED
  BY <1>1, ExceptSeq

LEMMA EnvironmentWire == ASSUME TypeInv, Environment PROVE WireOK'
<1>0. /\ WireOK /\ raised \in Nat /\ boots \in Nat /\ damages \in Nat
      /\ DOMAIN calls \subseteq Nat
  BY LenProperties DEF TypeInv, NumbersOK, OpOK
<1>1. UNCHANGED <<calls, pending>>
  BY DEF Environment, Serve, RaiseEvent, Reboot, LinkDown, LinkUp, Damage, hostVars, callVars
<1>2. toDev \in Seq(Requests) /\ toHost \in Seq(WireLines) /\ pending \in Seq(DOMAIN calls)
  BY <1>0 DEF WireOK
<1>9. Damage \/ UNCHANGED damages
  BY DEF Environment, Serve, RaiseEvent, Reboot, LinkDown, LinkUp, linkVars
<1>3. CASE Serve
  <2>1. /\ UNCHANGED damages /\ toDev # <<>> /\ toDev' = Tail(toDev)
        /\ toHost' = Printed(<<Line("response", Head(toDev).n)>>)
    BY <1>3 DEF Serve, linkVars
  <2>2. Head(toDev) \in Requests /\ toDev' \in Seq(Requests)
    BY <1>2, <2>1, HeadTailProperties
  <2>3. Head(toDev).n \in DOMAIN calls
    BY <2>2 DEF Requests
  <2>4. PICK l \in WireLines : l = Line("response", Head(toDev).n)
    BY <1>0, <2>3, LineTypes
  <2>5. toHost' \in Seq(WireLines)
    <3>1. <<l>> \in Seq(WireLines)
      OBVIOUS
    <3> QED
      BY <1>2, <2>1, <2>4, <3>1, PrintedType
  <2> QED
    BY <1>1, <1>2, <2>1, <2>2, <2>5, WireKept
<1>4. CASE RaiseEvent
  <2>1. PICK l \in WireLines : l = Line("event", raised + 1)
    BY <1>0, LineTypes
  <2>2. UNCHANGED <<toDev, damages>> /\ toHost' = Printed(<<l>>)
    BY <1>4, <2>1 DEF RaiseEvent, linkVars
  <2>3. <<l>> \in Seq(WireLines)
    OBVIOUS
  <2> QED
    BY <1>1, <1>2, <2>2, <2>3, PrintedType, WireKept
<1>5. CASE Reboot
  <2>1. PICK l \in WireLines : l = Line("ready", boots + 1)
    BY <1>0, LineTypes
  <2>2. PICK f \in WireLines : f = Fragment
    BY LineTypes
  <2>3. /\ toDev' = <<>> /\ UNCHANGED damages
        /\ toHost' = Printed(<<l>>) \/ toHost' = Printed(<<f, l>>)
    BY <1>5, <2>1, <2>2 DEF Reboot, linkVars
  <2>4. <<l>> \in Seq(WireLines) /\ <<f, l>> \in Seq(WireLines) /\ <<>> \in Seq(Requests)
    OBVIOUS
  <2>5. toHost' \in Seq(WireLines) /\ toDev' \in Seq(Requests)
    BY <1>2, <2>3, <2>4, PrintedType
  <2> QED
    BY <1>1, <1>2, <2>3, <2>5, WireKept
<1>6. CASE LinkDown
  <2>1. UNCHANGED <<toDev, damages>> /\ toHost' = <<>>
    BY <1>6 DEF LinkDown
  <2>2. toHost' \in Seq(WireLines)
    BY <2>1
  <2> QED
    BY <1>1, <1>2, <2>1, <2>2, WireKept
<1>7. CASE LinkUp
  BY <1>0, <1>1, <1>7, WireSame DEF LinkUp, linkVars
<1>8. CASE Damage
  <2>1. /\ UNCHANGED <<toDev, calls, pending>> /\ toHost # <<>> /\ damages' = damages + 1
        /\ toHost' = [toHost EXCEPT ![1].kind = "damaged"]
    BY <1>1, <1>8 DEF Damage
  <2>2. damages' > 0 /\ WireLines \subseteq WireLines'
    BY <1>0, <2>1 DEF WireLines
  <2>3. toHost[1] \in WireLines /\ toHost \in Seq(WireLines')
    BY <1>2, <2>1, <2>2, HeadTailProperties, SeqMonotonic
  <2>4. PICK l : l = [toHost[1] EXCEPT !.kind = "damaged"]
    OBVIOUS
  <2>5. l \in WireLines'
    BY <2>2, <2>3, <2>4 DEF WireLines, Lines
  <2>6. toHost' = [toHost EXCEPT ![1] = l]
    BY <2>1, <2>4
  <2>7. toHost' \in Seq(WireLines')
    <3>1. PICK S : S = WireLines'
      OBVIOUS
    <3> QED
      BY <2>1, <2>3, <2>5, <2>6, <3>1, FirstChanged
  <2>8. Requests' = Requests
    BY <2>1 DEF Requests
  <2> QED
    BY <1>2, <2>1, <2>7, <2>8 DEF WireOK
<1> QED
  BY <1>3, <1>4, <1>5, <1>6, <1>7, <1>8 DEF Environment

LEMMA ReaderWire == ASSUME TypeInv, Reader PROVE WireOK'
<1>0. WireOK
  BY DEF TypeInv
<1>2. toDev \in Seq(Requests) /\ toHost \in Seq(WireLines) /\ pending \in Seq(DOMAIN calls)
  BY <1>0 DEF WireOK
<1>3. CASE ReadPart
  <2>1. UNCHANGED <<calls, damages, toDev, pending>> /\ toHost # <<>>
    BY <1>3 DEF ReadPart, Reading, callVars, linkVars
  <2>2. CASE toHost' = Tail(toHost)
    <3>1. toHost' \in Seq(WireLines)
      BY <1>2, <2>1, <2>2, HeadTailProperties
    <3> QED
      BY <1>2, <2>1, <3>1, WireKept
  <2>3. CASE toHost' = [toHost EXCEPT ![1].begun = TRUE]
    <3>1. toHost[1] \in WireLines
      BY <1>2, <2>1, HeadTailProperties
    <3>2. PICK l : l = [toHost[1] EXCEPT !.begun = TRUE]
      OBVIOUS
    <3>3. l \in WireLines
      BY <3>1, <3>2 DEF WireLines, Lines
    <3>4. toHost' = [toHost EXCEPT ![1] = l]
      BY <2>3, <3>2
    <3>5. toHost' \in Seq(WireLines)
      BY <1>2, <2>1, <3>3, <3>4, FirstChanged
    <3> QED
      BY <1>2, <2>1, <3>5, WireKept
  <2> QED
    BY <1>3, <2>2, <2>3 DEF ReadPart
<1>4. CASE ReadLine
  <2>1. /\ toHost # <<>> /\ toHost' = Tail(toHost) /\ UNCHANGED <<toDev, damages, calls>>
        /\ \E l \in WireLines :
              FilesResponse(l) \/ FilesEvent(l) \/ FilesDamaged(l) \/ FilesNothing
    BY <1>0, <1>4, ReadLineStep DEF linkVars
  <2>2. toHost' \in Seq(WireLines)
    BY <1>2, <2>1, HeadTailProperties
  <2>3. pending' \in Seq(DOMAIN calls)
    <3>1. ASSUME NEW l \in WireLines, FilesResponse(l) PROVE pending' \in Seq(DOMAIN calls)
      <4>1. l.n \in DOMAIN calls /\ pending' = Append(pending, l.n)
        BY <3>1 DEF FilesResponse, WireLines
      <4> QED
        BY <1>2, <4>1
    <3> QED
      BY <1>2, <2>1, <3>1 DEF FilesEvent, FilesDamaged, FilesNothing
  <2> QED
    BY <1>2, <2>1, <2>2, <2>3, WireKept
<1>5. CASE ReaderEnds
  BY <1>0, <1>5, WireSame DEF ReaderEnds, outside, linkVars, callVars
<1> QED
  BY <1>3, <1>4, <1>5 DEF Reader

LEMMA ApplicationWire ==
    ASSUME TypeInv, NEW t \in Threads, Begin(t) \/ Continue(t)
    PROVE  WireOK'
<1> USE DEF outside, linkVars, callVars
<1>0. WireOK /\ OpOK /\ ThreadsOK
  BY DEF TypeInv, ThreadsOK
<1>1. CASE Begin(t) /\ ~WriteLine(t)
  <2>1. UNCHANGED <<calls, damages, toDev, toHost, pending>>
    BY <1>1 DEF Begin, Call, Reset, ExpectEvent, DrainEvents, Close
  <2> QED
    BY <1>0, <2>1, WireSame
<1>2. CASE WriteLine(t)
  <2>1. /\ calls' = Append(calls, [left |-> "abandoned", got |-> 0])
        /\ toDev' = Append(toDev, [kind |-> "call", n |-> Len(calls) + 1])
        /\ UNCHANGED <<toHost, damages, pending>>
    BY <1>2 DEF WriteLine
  <2>2. DOMAIN calls \subseteq DOMAIN calls' /\ Len(calls) + 1 \in DOMAIN calls'
    BY <1>0, <2>1, CallsAppend
  <2>3. pending' \in Seq(DOMAIN calls)
    BY <1>0, <2>1 DEF WireOK
  <2> QED
    BY <1>0, <2>1, <2>2, <2>3, WireGrown
<1>3. CASE Write(t)
  <2>1. UNCHANGED <<toHost, damages, pending>>
    BY <1>3 DEF Write
  <2>2. PICK how \in {"open", "broken"} : calls' = Append(calls, [left |-> how, got |-> 0])
    BY <1>3 DEF Write, WriteRequest
  <2>3. DOMAIN calls \subseteq DOMAIN calls' /\ Len(calls) + 1 \in DOMAIN calls'
    BY <1>0, <2>2, CallsAppend
  <2>4. \/ toDev' = toDev
        \/ \E kind \in {"call", "rig.reset"}, n \in DOMAIN calls' :
              toDev' = Append(toDev, [kind |-> kind, n |-> n])
    <3>1. Request(t) \in {"call", "rig.reset"}
      BY DEF Request
    <3>2. toDev' = toDev \/ toDev' = Append(toDev, [kind |-> Request(t), n |-> Len(calls) + 1])
      BY <1>3 DEF Write, WriteRequest
    <3> QED
      BY <2>3, <3>1, <3>2
  <2>5. pending' \in Seq(DOMAIN calls)
    BY <1>0, <2>1 DEF WireOK
  <2> QED
    BY <1>0, <2>1, <2>3, <2>4, <2>5, WireGrown
<1>4. CASE GetAnswer(t) \/ Timeout(t)
  <2>1. DOMAIN calls' = DOMAIN calls
    BY <1>0, <1>4, AnswerStep
  <2>2. UNCHANGED <<toDev, toHost, damages>>
    BY <1>4 DEF GetAnswer, Timeout
  <2>3. pending \in Seq(DOMAIN calls)
    BY <1>0 DEF WireOK
  <2>4. pending' = pending \/ (pending # <<>> /\ pending' = Tail(pending))
    BY <1>4 DEF GetAnswer, Timeout
  <2>5. pending' \in Seq(DOMAIN calls)
    BY <2>3, <2>4, HeadTailProperties
  <2> QED
    BY <1>0, <2>1, <2>2, <2>5, WireGrown
<1>5. CASE Drain(t) \/ CloseTransport(t)
  <2>1. /\ UNCHANGED <<calls, damages, toDev>>
        /\ toHost' = toHost \/ toHost' = <<>>
        /\ pending' = pending \/ pending' = <<>>
    BY <1>5 DEF Drain, CloseTransport
  <2>2. /\ <<>> \in Seq(WireLines) /\ <<>> \in Seq(DOMAIN calls)
        /\ toDev \in Seq(Requests) /\ toHost \in Seq(WireLines) /\ pending \in Seq(DOMAIN calls)
    BY <1>0 DEF WireOK
  <2>3. /\ toDev' \in Seq(Requests) /\ toHost' \in Seq(WireLines)
        /\ pending' \in Seq(DOMAIN calls)
    BY <2>1, <2>2
  <2> QED
    BY <2>1, <2>3, WireKept
<1>6. CASE \/ Acquire(t) \/ CheckAlive(t) \/ Reopen(t) \/ Restart(t) \/ Refresh(t)
           \/ JoinReader(t) \/ TakeEvent(t) \/ Sleep(t) \/ NoEvent(t) \/ WaitExpires(t)
  <2>1. UNCHANGED <<calls, damages, toDev, toHost, pending>>
    BY <1>6 DEF Acquire, CheckAlive, Reopen, Restart, Refresh, JoinReader, TakeEvent, Sleep,
                NoEvent, GiveUp, WaitExpires, Go
  <2> QED
    BY <1>0, <2>1, WireSame
<1> QED
  BY <1>1, <1>2, <1>3, <1>4, <1>5, <1>6 DEF Continue

LEMMA WireStep == ASSUME TypeInv, [Next]_vars PROVE WireOK'
<1>1. CASE UNCHANGED vars
  BY <1>1, WireSame DEF TypeInv, vars, outside, linkVars, hostVars, callVars
<1> QED
  BY <1>1, EnvironmentWire, ReaderWire, ApplicationWire DEF Next

-----------------------------------------------------------------------------
(* The event deque.                                                        *)
LEMMA EventsSame == ASSUME EventsOK, UNCHANGED eventVars PROVE EventsOK'
BY DEF EventsOK, eventVars

\* What is left after an event was taken was there before.
LEMMA RemoveEventStep ==
    ASSUME events \in Seq(Lines), NEW k \in DOMAIN events
    PROVE  /\ RemoveEvent(k) \in Seq(Lines)
           /\ \A i \in DOMAIN RemoveEvent(k) :
                 \E j \in DOMAIN events : RemoveEvent(k)[i] = events[j]
<1> DEFINE S == {events[j] : j \in DOMAIN events}
<1>1. /\ Len(events) \in Nat /\ k \in 1 .. Len(events)
      /\ DOMAIN events = 1 .. Len(events)
      /\ S \subseteq Lines
  BY LenProperties
<1>2. \A j \in 1 .. Len(events) : events[j] \in S
  BY <1>1
<1> HIDE DEF S
<1>3. SubSeq(events, 1, k - 1) \in Seq(S) /\ SubSeq(events, k + 1, Len(events)) \in Seq(S)
  BY <1>1, <1>2, SubSeqProperties
<1>4. RemoveEvent(k) \in Seq(S)
  BY <1>3, ConcatProperties DEF RemoveEvent
<1>5. \A i \in DOMAIN RemoveEvent(k) : RemoveEvent(k)[i] \in S
  BY <1>4
<1> QED
  BY <1>1, <1>4, <1>5, SeqMonotonic DEF S

LEMMA EventsStep == ASSUME TypeInv, [Next]_vars PROVE EventsOK'
<1>0. EventsOK /\ WireOK
  BY DEF TypeInv
<1>1. CASE Environment \/ ReadPart \/ ReaderEnds \/ UNCHANGED vars
  <2>1. UNCHANGED eventVars
    BY <1>1 DEF Environment, Serve, RaiseEvent, Reboot, LinkDown, LinkUp, Damage, ReadPart,
                ReaderEnds, vars, hostVars
  <2> QED
    BY <1>0, <2>1, EventsSame
<1>2. CASE ReadLine
  <2>1. PICK l \in WireLines : FilesResponse(l) \/ FilesEvent(l) \/ FilesDamaged(l) \/ FilesNothing
    BY <1>0, <1>2, ReadLineStep
  <2>2. CASE FilesEvent(l)
    <3>1. l \in Lines
      BY DEF WireLines
    <3>2. events' = Append(events, l) /\ filed' = Append(filed, l) /\ UNCHANGED <<taken, resets>>
      BY <2>2 DEF FilesEvent
    <3>3. events' \in Seq(Lines) /\ filed' \in Seq(Lines)
      BY <1>0, <3>1, <3>2 DEF EventsOK
    <3> QED
      BY <1>0, <3>2, <3>3 DEF EventsOK
  <2>3. CASE ~FilesEvent(l)
    <3>1. UNCHANGED eventVars
      BY <2>1, <2>3 DEF FilesResponse, FilesDamaged, FilesNothing
    <3> QED
      BY <1>0, <3>1, EventsSame
  <2> QED
    BY <2>2, <2>3
<1>3. ASSUME NEW t \in Threads, DrainEvents(t) PROVE EventsOK'
  <2>1. events' = <<>> /\ taken' = taken \union EventSet /\ UNCHANGED <<filed, resets>>
    BY <1>3 DEF DrainEvents
  <2>2. EventSet \subseteq Lines
    BY <1>0 DEF EventsOK, EventSet
  <2> QED
    BY <1>0, <2>1, <2>2 DEF EventsOK
<1>4. ASSUME NEW t \in Threads, TakeEvent(t) PROVE EventsOK'
  <2>1. PICK k \in Matches(t) :
           /\ events' = RemoveEvent(k)
           /\ taken' = taken \union {events[k]}
           /\ \/ resets' = resets
              \/ resets' = resets \union {[since |-> op[t].since, ready |-> events[k].n]}
    BY <1>4 DEF TakeEvent
  <2>2. filed' = filed
    BY <1>4 DEF TakeEvent
  <2>3. k \in DOMAIN events /\ events[k] \in Lines
    BY <1>0 DEF Matches, EventsOK
  <2>4. events' \in Seq(Lines)
    BY <1>0, <2>1, <2>3, RemoveEventStep DEF EventsOK
  <2>5. op[t].since \in Nat /\ events[k].n \in Nat
    BY <2>3 DEF TypeInv, OpOK, Operation, Lines
  <2>6. resets' \subseteq [since : Nat, ready : Nat]
    BY <1>0, <2>1, <2>5 DEF EventsOK
  <2> QED
    BY <1>0, <2>1, <2>2, <2>3, <2>4, <2>6 DEF EventsOK
<1>5. ASSUME NEW t \in Threads, Begin(t) \/ Continue(t), ~DrainEvents(t), ~TakeEvent(t)
      PROVE  EventsOK'
  <2>1. UNCHANGED eventVars
    BY <1>5 DEF Begin, Call, Reset, ExpectEvent, WriteLine, Close, Continue, Acquire, Drain,
                Write, GetAnswer, Timeout, CheckAlive, Reopen, Restart, Refresh, CloseTransport,
                JoinReader, Sleep, NoEvent, GiveUp, WaitExpires, Go
  <2> QED
    BY <1>0, <2>1, EventsSame
<1> QED
  BY <1>1, <1>2, <1>3, <1>4, <1>5 DEF Next, Reader

-----------------------------------------------------------------------------
LEMMA TypeInit == Init => TypeInv
<1> SUFFICES ASSUME Init PROVE TypeInv
  OBVIOUS
<1>1. NumbersOK
  <2>1. /\ resetting \in BOOLEAN /\ plugged \in BOOLEAN /\ reader \in BOOLEAN
        /\ stop \in BOOLEAN /\ half \in BOOLEAN
    BY DEF Init
  <2>2. /\ boots = 0 /\ raised = 0 /\ deaths = 0 /\ damages = 0 /\ ops = 0
        /\ cuts = 0 /\ malformed = 0 /\ port = "good"
    BY DEF Init
  <2> QED
    BY <2>1, <2>2 DEF NumbersOK
<1>2. OpOK /\ LockOK
  <2>1. calls \in Seq(CallRecord) /\ Len(calls) = 0
    BY DEF Init
  <2>2. \A t \in Threads : op[t] = Idle
    BY DEF Init
  <2>3. op \in [Threads -> Operation]
    BY IdleType DEF Init
  <2> QED
    BY <2>1, <2>2, <2>3, IdleType DEF OpOK, LockOK, InTxn, Init
<1>3. WireOK /\ EventsOK
  BY DEF Init, WireOK, EventsOK
<1> QED
  BY <1>1, <1>2, <1>3 DEF TypeInv

LEMMA TypeStep == TypeInv /\ [Next]_vars => TypeInv'
BY NumbersStep, ThreadsStep, WireStep, EventsStep DEF TypeInv, ThreadsOK

\* Every variable of the host proxy keeps its type, and the threads that are in
\* a transaction, one at most, are those that hold _call_lock.
THEOREM TypeCorrect == Spec => []TypeOK
<1>1. TypeInv /\ [Next]_vars => TypeInv'
  BY TypeStep
<1> QED
  BY TypeInit, <1>1, TypeInvImplies, PTL DEF Spec

-----------------------------------------------------------------------------
(* What a step of a thread does to its own place and to nobody else's.     *)
LEMMA MovesOne ==
    ASSUME op \in [Threads -> Operation], NEW t \in Threads, Begin(t) \/ Continue(t)
    PROVE  \E o : op' = [op EXCEPT ![t] = o]
<1>1. CASE Begin(t)
  BY <1>1 DEF Begin, Call, Reset, ExpectEvent, DrainEvents, WriteLine, Close, Start
<1>2. ASSUME NEW at, Goto(t, at) PROVE \E o : op' = [op EXCEPT ![t] = o]
  BY <1>2 DEF Goto
<1>3. CASE Write(t)
  <2>1. CASE op' = [op EXCEPT ![t].pc = "wait", ![t].txn = Len(calls')]
    <3>1. PICK o : o = [op[t] EXCEPT !.pc = "wait", !.txn = Len(calls')]
      OBVIOUS
    <3>2. op' = [op EXCEPT ![t] = o]
      BY <2>1, <3>1
    <3> QED
      BY <3>2
  <2> QED
    BY <1>2, <1>3, <2>1 DEF Write
<1>4. ASSUME ExpectReady(t) PROVE \E o : op' = [op EXCEPT ![t] = o]
  <2>1. PICK o : o = [op[t] EXCEPT !.pc = "scan", !.want = "ready"]
    OBVIOUS
  <2>2. op' = [op EXCEPT ![t] = o]
    BY <1>4, <2>1 DEF ExpectReady
  <2> QED
    BY <2>2
<1>5. CASE CheckAlive(t) \/ Restart(t)
  BY <1>2, <1>4, <1>5 DEF CheckAlive, Restart
<1>6. CASE Refresh(t)
  <2>1. CASE op' = [op EXCEPT ![t].pc = "lock", ![t].doing = "refresh"]
    <3>1. PICK o : o = [op[t] EXCEPT !.pc = "lock", !.doing = "refresh"]
      OBVIOUS
    <3>2. op' = [op EXCEPT ![t] = o]
      BY <2>1, <3>1
    <3> QED
      BY <3>2
  <2> QED
    BY <1>2, <1>6, <2>1 DEF Refresh
<1>7. CASE \/ Acquire(t) \/ Drain(t) \/ GetAnswer(t) \/ Timeout(t) \/ Reopen(t)
           \/ CloseTransport(t) \/ JoinReader(t) \/ TakeEvent(t) \/ Sleep(t) \/ NoEvent(t)
           \/ WaitExpires(t)
  BY <1>2, <1>7 DEF Acquire, Drain, GetAnswer, Timeout, Reopen, CloseTransport, JoinReader,
                    TakeEvent, Sleep, NoEvent, GiveUp, WaitExpires, Go
<1> QED
  BY <1>1, <1>3, <1>5, <1>6, <1>7 DEF Continue

LEMMA OthersStay ==
    ASSUME TypeInv, NEW t \in Threads, Begin(t) \/ Continue(t)
    PROVE  \A s \in Threads : s = t \/ op'[s] = op[s]
<1>1. op \in [Threads -> Operation]
  BY DEF TypeInv, OpOK
<1> QED
  BY <1>1, MovesOne

\* Where a step of a thread leads it: only Sleep leads to sleep, only Drain to
\* writing, only Write to waiting, only CheckAlive to the join of a reset and
\* only Reopen to its restart.
LEMMA Leads ==
    ASSUME TypeInv, NEW t \in Threads, Begin(t) \/ Continue(t)
    PROVE  /\ op'[t].pc = "asleep" => Sleep(t)
           /\ op'[t].pc \in {"write", "wait"} => Drain(t) \/ Write(t)
           /\ op'[t].pc = "join" => CheckAlive(t)
           /\ op'[t].pc = "restart" => Reopen(t)
<1>0. op \in [Threads -> Operation] /\ ThreadsOK /\ boots \in Nat
  BY DEF TypeInv, ThreadsOK, OpOK, NumbersOK
<1> DEFINE Far == {"asleep", "write", "wait", "join", "restart"}
<1>1. ASSUME NEW at \in Points \ Far, Goto(t, at) PROVE op'[t].pc \notin Far
  BY <1>0, <1>1, GotoStep
<1>2. ASSUME NEW name, NEW o \in Operation, o.pc \notin Far, Start(name, t, o)
      PROVE  op'[t].pc \notin Far
  BY <1>0, <1>2, StartStep
<1>3. CASE Begin(t)
  <2>1. CASE Reset(t)
    <3>1. PICK d \in {"reset", "bareReset"} :
             Start("reset", t, [Idle EXCEPT !.pc = "lock", !.doing = d, !.since = boots])
      BY <2>1 DEF Reset
    <3>2. PICK o : o = [Idle EXCEPT !.pc = "lock", !.doing = d, !.since = boots]
      OBVIOUS
    <3>3. boots \in Nat /\ d \in {"reset", "bareReset"}
      BY <1>0, SMTT(30)
    <3>4. o \in Operation /\ o.txn = 0 /\ o.pc = "lock"
      BY <3>2, <3>3, ResetType, ZenonT(60)
    <3> QED
      BY <1>2, <3>1, <3>2, <3>4
  <2>2. CASE ExpectEvent(t)
    <3>1. PICK w \in {"event", "ready"} :
             Start("expect", t, [Idle EXCEPT !.pc = "scan", !.doing = "expect", !.want = w])
      BY <2>2 DEF ExpectEvent
    <3>2. PICK o : o = [Idle EXCEPT !.pc = "scan", !.doing = "expect", !.want = w]
      OBVIOUS
    <3>3. o \in Operation /\ o.pc = "scan"
      BY <3>2, StartedTypes
    <3> QED
      BY <1>2, <3>1, <3>2, <3>3
  <2>3. CASE Call(t) \/ DrainEvents(t) \/ WriteLine(t) \/ Close(t)
    BY <1>2, <2>3, StartedTypes DEF Call, DrainEvents, WriteLine, Close
  <2> QED
    BY <1>3, <2>1, <2>2, <2>3 DEF Begin
<1>4. ASSUME ExpectReady(t) PROVE op'[t].pc = "scan"
  <2>1. op[t] \in Operation
    BY <1>0
  <2>2. PICK o : o = [op[t] EXCEPT !.pc = "scan", !.want = "ready"]
    OBVIOUS
  <2>3. o.pc = "scan" /\ op' = [op EXCEPT ![t] = o]
    BY <1>0, <1>4, <2>1, <2>2 DEF ExpectReady, Operation
  <2> QED
    BY <1>0, <2>3
<1>5. CASE /\ Continue(t) /\ ~Sleep(t) /\ ~Drain(t) /\ ~Write(t)
           /\ ~CheckAlive(t) /\ ~Reopen(t)
  <2>2. CASE Refresh(t)
    <3>1. CASE op' = [op EXCEPT ![t].pc = "lock", ![t].doing = "refresh"]
      <4>1. PICK o : o = [op[t] EXCEPT !.pc = "lock", !.doing = "refresh"]
        OBVIOUS
      <4>2. op[t] \in Operation
        BY <1>0
      <4>3. o.pc = "lock" /\ op' = [op EXCEPT ![t] = o]
        BY <1>0, <3>1, <4>1, <4>2, RefreshType
      <4> QED
        BY <1>0, <4>3
    <3> QED
      BY <1>1, <2>2, <3>1 DEF Refresh, Points
  <2>3. CASE Restart(t)
    BY <1>4, <2>3 DEF Restart
  <2>4. AfterTxn(t) \in Points \ Far /\ AfterExpect(t) \in Points \ Far
    BY DEF AfterTxn, AfterExpect, Points
  <2>5. CASE \/ Acquire(t) \/ GetAnswer(t) \/ Timeout(t)
             \/ CloseTransport(t) \/ JoinReader(t) \/ TakeEvent(t) \/ NoEvent(t)
             \/ WaitExpires(t)
    <3>1. \E at \in Points \ Far : Goto(t, at)
      BY <2>4, <2>5 DEF Acquire, GetAnswer, Timeout, CloseTransport, JoinReader,
                        TakeEvent, NoEvent, GiveUp, WaitExpires, Go, Points
    <3> QED
      BY <1>1, <3>1
  <2> QED
    BY <1>5, <2>2, <2>3, <2>5 DEF Continue
<1>6. CASE Drain(t)
  <2>1. Goto(t, "write")
    BY <1>6 DEF Drain
  <2>2. op'[t].pc = "write"
    BY <1>0, <2>1, GotoStep DEF Points
  <2> QED
    BY <1>6, <2>2
<1>7. CASE Write(t)
  <2>1. op'[t].pc \notin {"asleep", "join", "restart"}
    <3>1. CASE Goto(t, AfterTxn(t))
      BY <1>0, <3>1, GotoStep DEF AfterTxn, Points
    <3>2. CASE op' = [op EXCEPT ![t].pc = "wait", ![t].txn = Len(calls')]
      <4>1. PICK o : o = [op[t] EXCEPT !.pc = "wait", !.txn = Len(calls')]
        OBVIOUS
      <4>2. op[t] \in Operation
        BY <1>0
      <4>3. o.pc = "wait" /\ op' = [op EXCEPT ![t] = o]
        BY <1>0, <3>2, <4>1, <4>2 DEF Operation
      <4> QED
        BY <1>0, <4>3
    <3> QED
      BY <1>7, <3>1, <3>2 DEF Write
  <2> QED
    BY <1>7, <2>1
<1>8. CASE Sleep(t)
  <2>1. Goto(t, "asleep")
    BY <1>8 DEF Sleep, Go
  <2>2. op'[t].pc = "asleep"
    BY <1>0, <2>1, GotoStep DEF Points
  <2> QED
    BY <1>8, <2>2
<1>9. CASE CheckAlive(t)
  <2>1. CASE Goto(t, "join")
    BY <1>0, <1>9, <2>1, GotoStep DEF Points
  <2> QED
    BY <1>4, <1>9, <2>1 DEF CheckAlive
<1>10. CASE Reopen(t)
  <2>1. PICK at \in {"restart", "idle"} : Goto(t, at)
    BY <1>10 DEF Reopen
  <2> QED
    BY <1>0, <1>10, <2>1, GotoStep DEF Points
<1> QED
  BY <1>3, <1>5, <1>6, <1>7, <1>8, <1>9, <1>10

\* A line wakes who sleeps and may start the callback: no other place changes.
LEMMA LineMoves ==
    ASSUME TypeInv, ReadLine
    PROVE  /\ \A t \in Threads : \/ op'[t] = op[t]
                                 \/ /\ op[t].pc = "asleep" /\ op'[t].pc = "scan"
                                    /\ op'[t].doing = op[t].doing
                                 \/ /\ t = OnLine /\ op'[t].pc = "lock"
                                    /\ op'[t].doing = "call"
           /\ UNCHANGED <<port, stop, damages>>
           /\ events' = events \/ \A t \in Threads : op'[t].pc # "asleep"
           /\ reader' = reader \/ damages > 0
<1>1. op \in [Threads -> Operation] /\ WireOK
  BY DEF TypeInv, OpOK
<1>2. PICK l \in WireLines : FilesResponse(l) \/ FilesEvent(l) \/ FilesDamaged(l) \/ FilesNothing
  BY <1>1, ReadLineStep
<1>3. UNCHANGED <<port, stop, damages>>
  BY <1>1, ReadLineStep DEF linkVars
<1>4. CASE FilesEvent(l)
  <2>1. Tell(NotifyAll) /\ reader' = reader
    BY <1>4 DEF FilesEvent
  <2>2. \A t \in Threads : /\ NotifyAll[t].pc # "asleep"
                           /\ NotifyAll[t].doing = op[t].doing
                           /\ \/ op[t].pc = "asleep" /\ NotifyAll[t].pc = "scan"
                              \/ NotifyAll[t] = op[t]
    <3>1. \A t \in Threads : op[t].pc = "asleep" => NotifyAll[t].pc = "scan"
      <4>1. ASSUME NEW t \in Threads, op[t].pc = "asleep" PROVE NotifyAll[t].pc = "scan"
        <5>1. op[t] \in Operation
          BY <1>1
        <5>2. NotifyAll[t] = [op[t] EXCEPT !.pc = "scan"]
          BY <4>1 DEF NotifyAll, Asleep
        <5> QED
          BY <5>1, <5>2 DEF Operation
      <4> QED
        BY <4>1
    <3> QED
      BY <1>1, <3>1, NotifyStep
  <2>3. \A t \in Threads : \/ op'[t] = NotifyAll[t]
                           \/ t = OnLine /\ op'[t].pc = "lock" /\ op'[t].doing = "call"
    BY <1>1, <2>1, NotifyStep, TellStep
  <2> QED
    BY <1>3, <2>1, <2>2, <2>3
<1>5. CASE FilesResponse(l) \/ FilesNothing
  <2>1. Tell(op) /\ reader' = reader /\ events' = events
    BY <1>5 DEF FilesResponse, FilesNothing, eventVars
  <2>2. \A t \in Threads : \/ op'[t] = op[t]
                           \/ t = OnLine /\ op'[t].pc = "lock" /\ op'[t].doing = "call"
    BY <1>1, <2>1, TellStep
  <2> QED
    BY <1>3, <2>1, <2>2
<1>6. CASE FilesDamaged(l)
  <2>1. op' = op /\ events' = events /\ damages > 0
    BY <1>6 DEF FilesDamaged, eventVars, threadVars, WireLines
  <2> QED
    BY <1>3, <2>1
<1> QED
  BY <1>2, <1>4, <1>5, <1>6

-----------------------------------------------------------------------------
(* Nobody sleeps over the event he waits for.                              *)
LEMMA SleepersStay ==
    ASSUME NobodySleepsOverMatch, events' = events,
           \A t \in Threads : op'[t].pc = "asleep" => op'[t] = op[t]
    PROVE  NobodySleepsOverMatch'
BY DEF NobodySleepsOverMatch, Asleep, Matches

LEMMA SleepStep == TypeInv /\ NobodySleepsOverMatch /\ [Next]_vars => NobodySleepsOverMatch'
<1> SUFFICES ASSUME TypeInv, NobodySleepsOverMatch, [Next]_vars
             PROVE  NobodySleepsOverMatch'
  OBVIOUS
<1>0. op \in [Threads -> Operation] /\ events \in Seq(Lines)
  BY DEF TypeInv, OpOK, EventsOK
<1>1. CASE Environment \/ ReadPart \/ ReaderEnds \/ UNCHANGED vars
  <2>1. UNCHANGED <<op, events>>
    BY <1>1 DEF Environment, Serve, RaiseEvent, Reboot, LinkDown, LinkUp, Damage, ReadPart,
                ReaderEnds, vars, hostVars, eventVars, threadVars
  <2> QED
    BY <2>1, SleepersStay
<1>2. CASE ReadLine
  <2>1. CASE events' = events
    BY <1>2, <2>1, LineMoves, SleepersStay
  <2>2. CASE \A t \in Threads : op'[t].pc # "asleep"
    BY <2>2 DEF NobodySleepsOverMatch, Asleep
  <2> QED
    BY <1>2, <2>1, <2>2, LineMoves
<1>3. ASSUME NEW t \in Threads, Begin(t) \/ Continue(t) PROVE NobodySleepsOverMatch'
  <2>0. \A s \in Threads : s = t \/ op'[s] = op[s]
    BY <1>3, OthersStay
  <2>1. CASE DrainEvents(t)
    <3>1. events' = <<>>
      BY <2>1 DEF DrainEvents
    <3>2. \A s \in Threads : Matches(s)' = {}
      BY <3>1 DEF Matches
    <3> QED
      BY <3>2 DEF NobodySleepsOverMatch, Asleep
  <2>2. CASE TakeEvent(t)
    <3>1. PICK k \in Matches(t) : events' = RemoveEvent(k)
      BY <2>2 DEF TakeEvent
    <3>2. op'[t].pc # "asleep"
      <4>1. Goto(t, AfterExpect(t)) /\ AfterExpect(t) \in Points /\ AfterExpect(t) # "asleep"
        BY <2>2 DEF TakeEvent, AfterExpect, Points
      <4> QED
        BY <1>0, <4>1, GotoStep
    <3>3. \A i \in DOMAIN events' : \E j \in DOMAIN events : events'[i] = events[j]
      BY <1>0, <3>1, RemoveEventStep DEF Matches
    <3>4. ASSUME NEW s \in Asleep' PROVE Matches(s)' = {}
      <4>1. s \in Threads /\ s # t /\ op'[s] = op[s]
        BY <2>0, <3>2 DEF Asleep
      <4>2. s \in Asleep /\ Matches(s) = {}
        BY <4>1 DEF Asleep, NobodySleepsOverMatch
      <4>3. \A j \in DOMAIN events : events[j].kind # op[s].want
        BY <4>2 DEF Matches
      <4> QED
        BY <3>3, <4>1, <4>3 DEF Matches
    <3> QED
      BY <3>4 DEF NobodySleepsOverMatch
  <2>3. CASE Sleep(t)
    <3>1. events' = events /\ Goto(t, "asleep") /\ Matches(t) = {}
      BY <2>3 DEF Sleep, Go, eventVars
    <3>2. op'[t].want = op[t].want
      BY <1>0, <3>1, GotoStep DEF Points
    <3>3. ASSUME NEW s \in Asleep' PROVE Matches(s)' = {}
      <4>1. CASE s = t
        BY <3>1, <3>2, <4>1 DEF Matches
      <4>2. CASE s # t
        <5>1. s \in Asleep /\ op'[s] = op[s]
          BY <2>0, <4>2 DEF Asleep
        <5> QED
          BY <3>1, <5>1 DEF Matches, NobodySleepsOverMatch
      <4> QED
        BY <4>1, <4>2
    <3> QED
      BY <3>3 DEF NobodySleepsOverMatch
  <2>4. ASSUME ~DrainEvents(t), ~TakeEvent(t), ~Sleep(t) PROVE NobodySleepsOverMatch'
    <3>1. events' = events
      BY <1>3, <2>4 DEF Begin, Call, Reset, ExpectEvent, WriteLine, Close, Continue, Acquire,
              Drain, Write, GetAnswer, Timeout, CheckAlive, Reopen, Restart, Refresh,
              CloseTransport, JoinReader, NoEvent, GiveUp, WaitExpires, Go, eventVars
    <3>2. op'[t].pc # "asleep"
      BY <1>3, <2>4, Leads
    <3> QED
      BY <2>0, <3>1, <3>2, SleepersStay
  <2> QED
    BY <2>1, <2>2, <2>3, <2>4
<1> QED
  BY <1>1, <1>2, <1>3 DEF Next, Reader

\* No thread sleeps in expect_event() while the event it waits for is in the
\* deque, however many threads wait for whatever events.
THEOREM NobodySleeps == Spec => []NobodySleepsOverMatch
<1>1. Init => TypeInv /\ NobodySleepsOverMatch
  <2> SUFFICES ASSUME Init PROVE TypeInv /\ NobodySleepsOverMatch
    OBVIOUS
  <2>1. events = <<>>
    BY DEF Init
  <2> QED
    BY <2>1, TypeInit DEF NobodySleepsOverMatch, Matches
<1>2. TypeInv /\ NobodySleepsOverMatch /\ [Next]_vars => (TypeInv /\ NobodySleepsOverMatch)'
  BY TypeStep, SleepStep
<1> QED
  BY <1>1, <1>2, PTL DEF Spec

-----------------------------------------------------------------------------
(* A command called from on_line gets no answer: while the callback is in  *)
(* it nobody files one, and it drained the queue before it wrote.          *)
\* The callback has drained the queue from the moment it writes.
DrainedByCallback == OnLine \in Threads /\ op[OnLine].pc \in {"write", "wait"} => pending = <<>>

LEMMA CallbackStep == TypeInv /\ DrainedByCallback /\ [Next]_vars => DrainedByCallback'
<1> SUFFICES ASSUME TypeInv, DrainedByCallback, [Next]_vars, OnLine \in Threads,
                    op'[OnLine].pc \in {"write", "wait"}
             PROVE  pending' = <<>>
  BY DEF DrainedByCallback
<1>0. WireOK
  BY DEF TypeInv
<1>1. CASE Environment \/ ReadPart \/ ReaderEnds \/ UNCHANGED vars
  <2>1. UNCHANGED <<op, pending>>
    BY <1>1 DEF Environment, Serve, RaiseEvent, Reboot, LinkDown, LinkUp, Damage, ReadPart,
                ReaderEnds, vars, hostVars, callVars, threadVars
  <2> QED
    BY <2>1 DEF DrainedByCallback
<1>2. CASE ReadLine
  <2>1. op[OnLine].pc = "idle"
    BY <1>0, <1>2, ReadLineStep DEF InCallback
  <2>2. op'[OnLine].pc = "idle" \/ op'[OnLine].pc = "scan" \/ op'[OnLine].pc = "lock"
    BY <1>2, <2>1, LineMoves
  <2> QED
    BY <2>2
<1>3. ASSUME NEW t \in Threads, Begin(t) \/ Continue(t) PROVE pending' = <<>>
  <2>1. CASE Drain(t)
    BY <2>1 DEF Drain
  <2>2. ASSUME ~Drain(t) PROVE op[OnLine].pc \in {"write", "wait"}
    <3>1. CASE t = OnLine
      <4>1. Write(t)
        BY <1>3, <2>2, <3>1, Leads
      <4> QED
        BY <3>1, <4>1 DEF Write
    <3>2. CASE t # OnLine
      BY <1>3, <3>2, OthersStay
    <3> QED
      BY <3>1, <3>2
  <2>3. ASSUME ~Drain(t) PROVE pending = <<>>
    BY <2>2, <2>3 DEF DrainedByCallback
  <2>4. CASE GetAnswer(t)
    BY <2>3, <2>4 DEF GetAnswer, Drain
  <2>5. CASE ~GetAnswer(t) /\ ~Drain(t)
    <3>1. pending' = pending
      BY <1>3, <2>5 DEF Begin, Call, Reset, ExpectEvent, DrainEvents, WriteLine, Close, Continue,
              Acquire, Write, Timeout, CheckAlive, Reopen, Restart, Refresh, CloseTransport,
              JoinReader, TakeEvent, Sleep, NoEvent, GiveUp, WaitExpires, Go, callVars
    <3> QED
      BY <2>3, <2>5, <3>1
  <2> QED
    BY <2>1, <2>4, <2>5
<1> QED
  BY <1>1, <1>2, <1>3 DEF Next, Reader

\* No command that the on_line callback calls is ever answered, whatever the
\* other threads, the device and the link do.
THEOREM CallbackGetsNothing == Spec => []CallbackUnanswered
<1>1. Init => TypeInv /\ DrainedByCallback
  <2> SUFFICES ASSUME Init PROVE TypeInv /\ DrainedByCallback
    OBVIOUS
  <2>1. pending = <<>>
    BY DEF Init
  <2> QED
    BY <2>1, TypeInit DEF DrainedByCallback
<1>2. TypeInv /\ DrainedByCallback /\ [Next]_vars => (TypeInv /\ DrainedByCallback)'
  BY TypeStep, CallbackStep
<1>3. DrainedByCallback => CallbackUnanswered
  BY DEF DrainedByCallback, CallbackUnanswered
<1> QED
  BY <1>1, <1>2, <1>3, PTL DEF Spec

-----------------------------------------------------------------------------
(* An open link has a reader.  Only Manager resets and closes, and it sets *)
(* _stop only on a link that is dead already or that it is about to close; *)
(* a thread that gives the link up is past the point of its operation.     *)
Managing == {"reset", "bareReset", "refresh", "close"}
Behind   == {"alive", "join", "restart", "refresh", "closing", "closed"}

Owned == \A t \in Threads \ {Manager} : op[t].doing \notin Managing /\ op[t].pc \notin Behind

AtWork == op[Manager].pc \in {"restart", "closing"}

StopOK == stop => port # "good" \/ AtWork

LinkInv == Owned /\ StopOK /\ ReaderLives

LEMMA OwnedOne ==
    ASSUME TypeInv, Owned, NEW t \in Threads \ {Manager}, Begin(t) \/ Continue(t)
    PROVE  op'[t].doing \notin Managing /\ op'[t].pc \notin Behind
<1> USE DEF Managing, Behind
<1>0. op \in [Threads -> Operation] /\ op[t] \in Operation
  BY DEF TypeInv, OpOK
<1>1. op[t].doing \notin Managing /\ op[t].pc \notin Behind
  BY DEF Owned
<1>2. ASSUME NEW at \in Points \ Behind, Goto(t, at)
      PROVE  op'[t].doing \notin Managing /\ op'[t].pc \notin Behind
  BY <1>0, <1>1, <1>2, GotoStep
<1>3. AfterTxn(t) = "idle" /\ AfterExpect(t) = "idle"
  BY <1>1 DEF AfterTxn, AfterExpect
<1>4. CASE Call(t) \/ DrainEvents(t) \/ WriteLine(t)
  <2>1. op'[t] = Idle \/ op'[t] = [Idle EXCEPT !.pc = "lock", !.doing = "call"]
    BY <1>0, <1>4 DEF Call, DrainEvents, WriteLine, Start
  <2>2. PICK o : o = [Idle EXCEPT !.pc = "lock", !.doing = "call"]
    OBVIOUS
  <2>3. o.pc = "lock" /\ o.doing = "call"
    BY <2>2 DEF Idle
  <2> QED
    BY <2>1, <2>2, <2>3, IdleType
<1>5. CASE ExpectEvent(t)
  <2>1. PICK w : op'[t] = [Idle EXCEPT !.pc = "scan", !.doing = "expect", !.want = w]
    BY <1>0, <1>5 DEF ExpectEvent, Start
  <2>2. op'[t].pc = "scan" /\ op'[t].doing = "expect"
    BY <2>1 DEF Idle
  <2> QED
    BY <2>2
<1>6. CASE Write(t)
  <2>1. CASE op' = [op EXCEPT ![t].pc = "wait", ![t].txn = Len(calls')]
    <3>1. PICK o : o = [op[t] EXCEPT !.pc = "wait", !.txn = Len(calls')]
      OBVIOUS
    <3>2. o.pc = "wait" /\ o.doing = op[t].doing /\ op' = [op EXCEPT ![t] = o]
      BY <1>0, <2>1, <3>1 DEF Operation
    <3> QED
      BY <1>0, <1>1, <3>2
  <2> QED
    BY <1>2, <1>3, <1>6, <2>1 DEF Write, Points
<1>7. CASE \/ Acquire(t) \/ Drain(t) \/ GetAnswer(t) \/ Timeout(t) \/ TakeEvent(t) \/ Sleep(t)
           \/ NoEvent(t) \/ WaitExpires(t)
  <2>1. \E at \in Points \ Behind : Goto(t, at)
    BY <1>3, <1>7 DEF Acquire, Drain, GetAnswer, Timeout, TakeEvent, Sleep, NoEvent, GiveUp,
                      WaitExpires, Go, Points
  <2> QED
    BY <1>2, <2>1
<1>8. CASE CheckAlive(t) \/ Reopen(t) \/ Restart(t) \/ Refresh(t) \/ CloseTransport(t)
           \/ JoinReader(t)
  BY <1>1, <1>8 DEF CheckAlive, Reopen, Restart, Refresh, CloseTransport, JoinReader
<1>9. CASE Reset(t) \/ Close(t)
  BY <1>9 DEF Reset, Close
<1> QED
  BY <1>4, <1>5, <1>6, <1>7, <1>8, <1>9 DEF Begin, Continue

LEMMA OwnedStep == TypeInv /\ Owned /\ [Next]_vars => Owned'
<1> SUFFICES ASSUME TypeInv, Owned, [Next]_vars PROVE Owned'
  OBVIOUS
<1>1. CASE Environment \/ ReadPart \/ ReaderEnds \/ UNCHANGED vars
  <2>1. UNCHANGED op
    BY <1>1 DEF Environment, Serve, RaiseEvent, Reboot, LinkDown, LinkUp, Damage, ReadPart,
                ReaderEnds, vars, hostVars, threadVars
  <2> QED
    BY <2>1 DEF Owned
<1>2. CASE ReadLine
  <2>1. ASSUME NEW t \in Threads \ {Manager}
        PROVE  op'[t].doing \notin Managing /\ op'[t].pc \notin Behind
    BY <1>2, LineMoves DEF Owned, Managing, Behind
  <2> QED
    BY <2>1 DEF Owned
<1>3. ASSUME NEW t \in Threads, Begin(t) \/ Continue(t) PROVE Owned'
  BY <1>3, OthersStay, OwnedOne DEF Owned
<1> QED
  BY <1>1, <1>2, <1>3 DEF Next, Reader

\* A step that leaves the link, the reader and Manager's place alone.
LEMMA LinkSame ==
    ASSUME StopOK, ReaderLives, UNCHANGED <<reader, stop, port, damages>>, AtWork => AtWork'
    PROVE  StopOK' /\ ReaderLives'
BY DEF StopOK, ReaderLives, AtWork

LEMMA LinkStep == TypeInv /\ LinkInv /\ [Next]_vars => LinkInv'
<1> SUFFICES ASSUME TypeInv, LinkInv, [Next]_vars PROVE StopOK' /\ ReaderLives'
  BY OwnedStep DEF LinkInv
<1> USE DEF outside, linkVars, readerVars
<1>0. /\ Owned /\ StopOK /\ ReaderLives
      /\ damages \in Nat /\ op \in [Threads -> Operation]
      /\ port \in {"good", "dead", "closed"}
  BY DEF TypeInv, NumbersOK, OpOK, LinkInv
<1>1. CASE Environment
  <2>1. op' = op /\ reader' = reader /\ stop' = stop
    BY <1>1 DEF Environment, Serve, RaiseEvent, Reboot, LinkDown, LinkUp, Damage, hostVars,
                threadVars
  <2>2. /\ port # "good" => port' # "good"
        /\ damages > 0 => damages' > 0
    BY <1>0, <1>1 DEF Environment, Serve, RaiseEvent, Reboot, LinkDown, LinkUp, Damage
  <2> QED
    BY <1>0, <2>1, <2>2 DEF StopOK, ReaderLives, AtWork
<1>2. CASE ReadPart \/ UNCHANGED vars
  <2>1. UNCHANGED <<op, reader, stop, port, damages>>
    BY <1>2 DEF ReadPart, vars, hostVars, threadVars
  <2> QED
    BY <1>0, <2>1, LinkSame DEF AtWork
<1>3. CASE ReaderEnds
  <2>1. UNCHANGED <<op, stop, port, damages>> /\ (stop \/ port # "good")
    BY <1>3 DEF ReaderEnds, threadVars
  <2> QED
    BY <1>0, <2>1 DEF StopOK, ReaderLives, AtWork
<1>4. CASE ReadLine
  <2>1. UNCHANGED <<port, stop, damages>> /\ (reader' = reader \/ damages > 0)
    BY <1>4, LineMoves
  <2>2. AtWork => AtWork'
    BY <1>4, LineMoves DEF AtWork
  <2> QED
    BY <1>0, <2>1, <2>2 DEF StopOK, ReaderLives, AtWork
<1>5. ASSUME NEW t \in Threads, Begin(t) \/ Continue(t) PROVE StopOK' /\ ReaderLives'
  <2>0. \A s \in Threads : s = t \/ op'[s] = op[s]
    BY <1>5, OthersStay
  <2>1. CASE Close(t)
    <3>1. t = Manager /\ UNCHANGED <<reader, port, damages>>
      BY <2>1 DEF Close
    <3>2. op'[t] = [Idle EXCEPT !.pc = "closing", !.doing = "close"] /\ op[t].pc = "idle"
      BY <1>0, <2>1 DEF Close, Start
    <3>3. op'[t].pc = "closing"
      BY <3>2 DEF Idle
    <3> QED
      BY <1>0, <3>1, <3>2, <3>3 DEF StopOK, ReaderLives, AtWork
  <2>2. CASE CheckAlive(t)
    <3>1. /\ UNCHANGED <<reader, port, damages>> /\ op[t].pc = "alive" /\ t = Manager
          /\ stop' = stop \/ ~IsAlive
      BY <1>0, <2>2 DEF CheckAlive, Owned, Behind
    <3>2. ~AtWork
      BY <3>1 DEF AtWork
    <3>3. ~IsAlive => port # "good"
      BY DEF IsAlive
    <3> QED
      BY <1>0, <3>1, <3>2, <3>3 DEF StopOK, ReaderLives, AtWork
  <2>3. CASE Reopen(t)
    <3>1. /\ UNCHANGED <<reader, stop, damages>> /\ op[t].pc = "join" /\ t = Manager
          /\ (port' = "good" /\ Goto(t, "restart")) \/ port' = "closed"
      BY <1>0, <2>3 DEF Reopen, Owned, Behind
    <3>2. port' = "good" => AtWork'
      BY <1>0, <3>1, GotoStep DEF AtWork, Points
    <3> QED
      BY <1>0, <3>1, <3>2 DEF StopOK, ReaderLives, AtWork
  <2>4. CASE Restart(t)
    BY <2>4 DEF Restart, StopOK, ReaderLives
  <2>5. CASE CloseTransport(t)
    BY <2>5 DEF CloseTransport, StopOK, ReaderLives
  <2>6. ASSUME ~Close(t), ~CheckAlive(t), ~Reopen(t), ~Restart(t), ~CloseTransport(t)
        PROVE  StopOK' /\ ReaderLives'
    <3>1. UNCHANGED <<reader, stop, port, damages>>
      BY <1>5, <2>6 DEF Begin, Call, Reset, ExpectEvent, DrainEvents, WriteLine, Continue,
              Acquire, Drain, Write, GetAnswer, Timeout, Refresh, JoinReader, TakeEvent, Sleep,
              NoEvent, GiveUp, WaitExpires, Go
    <3>2. op[t].pc \notin {"restart", "closing"}
      BY <1>5, <2>6 DEF Begin, Call, Reset, ExpectEvent, DrainEvents, WriteLine, Start, Continue,
              Acquire, Drain, Write, GetAnswer, Timeout, Refresh, JoinReader, TakeEvent, Sleep,
              NoEvent, WaitExpires
    <3>3. AtWork => AtWork'
      BY <2>0, <3>2 DEF AtWork
    <3> QED
      BY <1>0, <3>1, <3>3, LinkSame
  <2> QED
    BY <2>1, <2>2, <2>3, <2>4, <2>5, <2>6
<1> QED
  BY <1>1, <1>2, <1>3, <1>4, <1>5 DEF Next, Reader

\* An open link has a reader unless a close() or reset() is at work on it or a
\* damaged line has killed the thread: no race of reconnections, reboots and
\* calls leaves a Device with an open port that nobody reads.
THEOREM ReaderOnOpenLink == Spec => []ReaderLives
<1>1. Init => TypeInv /\ LinkInv
  <2> SUFFICES ASSUME Init PROVE TypeInv /\ LinkInv
    OBVIOUS
  <2>1. Owned
    BY IdleType DEF Init, Owned, Managing, Behind
  <2>2. StopOK /\ ReaderLives
    BY DEF Init, StopOK, ReaderLives
  <2> QED
    BY <2>1, <2>2, TypeInit DEF LinkInv
<1>2. TypeInv /\ LinkInv /\ [Next]_vars => (TypeInv /\ LinkInv)'
  BY TypeStep, LinkStep
<1>3. LinkInv => ReaderLives
  BY DEF LinkInv
<1> QED
  BY <1>1, <1>2, <1>3, PTL DEF Spec

=============================================================================
