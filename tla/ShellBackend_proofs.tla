------------------------- MODULE ShellBackend_proofs -------------------------
(***************************************************************************)
(* Proofs about ShellBackend for any set of shells and of registered       *)
(* commands and any number of commands, events and boots: types and the    *)
(* exclusion that rig_io_lock gives, that no line is cut open, that every  *)
(* line is on its own shell, and that every command reaches its function.  *)
(***************************************************************************)
EXTENDS ShellBackend, SequenceTheorems, TLAPS

-----------------------------------------------------------------------------
(* Type correctness, in three parts: the sequences, the output, and where  *)
(* the threads are.                                                        *)
Output == [line : Lines, part : {"begin", "end"}]

HistoryOK == /\ cmds \in Seq(Command)
             /\ cmd \in [Shells -> 0 .. Len(cmds)]
             /\ evs \in Seq(Shells)

OutputOK == /\ console \in [Shells -> Seq(Output)]
            /\ line \in [Threads -> Lines]

ControlOK == /\ ioLock \in Threads \union {Nobody}
             /\ active \in Shells \union {Nobody}
             /\ queued \in Nat /\ raised \in 0 .. MaxEvents
             /\ pc \in [Shells -> {"idle", "lock", "locked", "body", "event", "waiting",
                                   "resumed", "answer", "answered", "unlock"}]
             /\ work \in {"boot", "ready", "scheduled", "lock", "flush", "line"}
             /\ boots \in 1 .. MaxBoots

\* The last conjunct of TypeOK follows from Exclusion.
LEMMA TypeParts ==
    /\ TypeOK => HistoryOK /\ OutputOK /\ ControlOK
    /\ HistoryOK' /\ OutputOK' /\ ControlOK' /\ Exclusion' => TypeOK'
    /\ HistoryOK /\ OutputOK /\ ControlOK /\ Exclusion => TypeOK
<1>1. TypeOK => HistoryOK /\ OutputOK /\ ControlOK
  BY DEF TypeOK, HistoryOK, OutputOK, ControlOK, Output
<1>2. ASSUME ControlOK, Exclusion PROVE active # Nobody => ioLock = active
  BY <1>2 DEF ControlOK, Exclusion, Dispatching, InHandler
<1>3. ASSUME ControlOK', Exclusion' PROVE active' # Nobody => ioLock' = active'
  BY <1>3 DEF ControlOK, Exclusion, Dispatching, InHandler
<1> QED
  BY <1>1, <1>2, <1>3 DEF TypeOK, HistoryOK, OutputOK, ControlOK, Output

-----------------------------------------------------------------------------
(* What is written: the two operators that write, and their types.         *)
LEMMA TargetIsShell == ControlOK => PutcTarget \in Shells
BY ShellsAssumption DEF ControlOK, PutcTarget

LEMMA WrittenType ==
    ASSUME ControlOK, OutputOK, NEW l \in Lines, NEW part \in {"begin", "end"}
    PROVE  /\ Written(l, part) \in [Shells -> Seq(Output)]
           /\ \A s \in Shells : Written(l, part)[s] =
                  IF s = PutcTarget
                  THEN Append(console[s], [line |-> l, part |-> part])
                  ELSE console[s]
<1>1. PutcTarget \in Shells
  BY TargetIsShell
<1>2. console \in [Shells -> Seq(Output)]
  BY DEF OutputOK
<1>3. [line |-> l, part |-> part] \in Output
  BY DEF Output
<1>4. Append(console[PutcTarget], [line |-> l, part |-> part]) \in Seq(Output)
  BY <1>1, <1>2, <1>3, AppendProperties
<1> QED
  BY <1>1, <1>2, <1>4 DEF Written

LEMMA OpenLineType ==
    ASSUME ControlOK, OutputOK, NEW t \in Threads, NEW l \in Lines, OpenLine(t, l)
    PROVE  OutputOK'
<1>1. console' \in [Shells -> Seq(Output)]
  BY WrittenType DEF OpenLine
<1>2. line' \in [Threads -> Lines]
  BY DEF OpenLine, OutputOK
<1> QED
  BY <1>1, <1>2 DEF OutputOK

LEMMA EndLineType ==
    ASSUME ControlOK, OutputOK, NEW t \in Threads, EndLine(t)
    PROVE  OutputOK'
<1>1. line[t] \in Lines /\ NoLine \in Lines
  BY DEF OutputOK, NoLine, Lines
<1>2. console' \in [Shells -> Seq(Output)]
  BY <1>1, WrittenType DEF EndLine
<1>3. line' \in [Threads -> Lines]
  BY <1>1 DEF EndLine, OutputOK
<1> QED
  BY <1>2, <1>3 DEF OutputOK

LEMMA LinesTyped ==
    ASSUME NEW n \in Nat
    PROVE  /\ [what |-> "ready", n |-> n] \in Lines
           /\ [what |-> "event", n |-> n] \in Lines
           /\ [what |-> "answer", n |-> n] \in Lines
BY DEF Lines

-----------------------------------------------------------------------------
(* The history: one command or one event more, or a command left.          *)
LEMMA CommandAppended ==
    ASSUME HistoryOK, NEW c \in Command, NEW s \in Shells,
           cmds' = Append(cmds, c),
           cmd' = [cmd EXCEPT ![s] = Len(cmds')], evs' = evs
    PROVE  HistoryOK'
<1>1. cmds' \in Seq(Command) /\ Len(cmds') = Len(cmds) + 1 /\ Len(cmds) \in Nat
  BY AppendProperties, LenProperties DEF HistoryOK
<1>2. cmd' \in [Shells -> 0 .. Len(cmds')]
  BY <1>1 DEF HistoryOK
<1> QED
  BY <1>1, <1>2 DEF HistoryOK

LEMMA EventAppended ==
    ASSUME HistoryOK, NEW home \in Shells,
           evs' = Append(evs, home), UNCHANGED <<cmds, cmd>>
    PROVE  HistoryOK' /\ Len(evs') \in Nat
<1>1. evs' \in Seq(Shells) /\ Len(evs') \in Nat
  BY AppendProperties, LenProperties DEF HistoryOK
<1> QED
  BY <1>1 DEF HistoryOK

LEMMA CommandLeft ==
    ASSUME NEW q \in Seq(Command), NEW i
    PROVE  /\ [q EXCEPT ![i].left = "answered"] \in Seq(Command)
           /\ Len([q EXCEPT ![i].left = "answered"]) = Len(q)
<1> DEFINE left == [q EXCEPT ![i].left = "answered"]
           G(k) == IF k = i THEN [q[k] EXCEPT !.left = "answered"] ELSE q[k]
<1>1. /\ Len(q) \in Nat
      /\ DOMAIN q = 1 .. Len(q)
      /\ \A k \in 1 .. Len(q) : q[k] \in Command
  BY LenProperties, ElementOfSeq
<1>2. left = [k \in 1 .. Len(q) |-> G(k)]
  BY <1>1
<1>3. ASSUME NEW k \in 1 .. Len(q) PROVE G(k) \in Command
  BY <1>1 DEF Command
<1> HIDE DEF G, left
<1>4. left \in Seq(Command)
  BY <1>1, <1>2, <1>3, IsASeq
<1>5. Len(left) = Len(q)
  BY <1>1, <1>2, <1>4, LenProperties
<1> QED
  BY <1>4, <1>5 DEF left

\* What TypeCommand appends is a command.
LEMMA Typed ==
    ASSUME NEW s \in Shells, NEW asked \in Registered, NEW argc \in 0 .. MaxArgs + 1
    PROVE  [shell |-> s, asked |-> asked, ran |-> Find(asked.base), argc |-> argc,
            got |-> Passed(argc), left |-> "open"] \in Command
<1>1. asked.base \in {n.base : n \in Registered}
  OBVIOUS
<1>2. Find(asked.base) \in Name
  BY <1>1 DEF Find, Plain, Prefixed, Name
<1>3. argc \in Nat /\ Passed(argc) \in 0 .. MaxArgs
  BY BoundsAssumption DEF Passed
<1> QED
  BY <1>2, <1>3 DEF Command

-----------------------------------------------------------------------------
(* Exclusion and the types, action by action.  Good is what each keeps.    *)
Good == HistoryOK /\ OutputOK /\ ControlOK /\ Exclusion

LEMMA GoodInit == Init => Good
<1> SUFFICES ASSUME Init PROVE Good
  OBVIOUS
<1>1. <<>> \in Seq(Command) /\ <<>> \in Seq(Shells) /\ <<>> \in Seq(Output)
      /\ Len(<<>>) = 0
  BY EmptySeq
<1>2. NoLine \in Lines
  BY DEF NoLine, Lines
<1>3. HistoryOK
  BY <1>1 DEF Init, HistoryOK
<1>4. OutputOK
  BY <1>1, <1>2 DEF Init, OutputOK, Threads
<1>5. ControlOK
  BY BoundsAssumption DEF Init, ControlOK
<1>6. Exclusion
  BY ShellsAssumption DEF Init, Exclusion, InHandler, Dispatching
<1> QED
  BY <1>3, <1>4, <1>5, <1>6 DEF Good

\* The history where an action leaves it alone, and the output likewise.
LEMMA HistoryStill == HistoryOK /\ UNCHANGED <<cmds, cmd, evs>> => HistoryOK'
BY DEF HistoryOK

LEMMA OutputStill == OutputOK /\ UNCHANGED <<console, line>> => OutputOK'
BY DEF OutputOK

\* Steps of a handler that neither write nor change the history.
LEMMA GoodQuiet ==
    ASSUME Good, NEW s \in Shells,
           LockIo(s) \/ Activate(s) \/ AskWork(s) \/ WorkDone(s) \/ Deactivate(s)
    PROVE  Good'
<1>1. HistoryOK'
  BY HistoryStill DEF Good, LockIo, Activate, AskWork, WorkDone, Deactivate
<1>2. OutputOK'
  BY OutputStill DEF Good, LockIo, Activate, AskWork, WorkDone, Deactivate
<1>3. ControlOK'
  BY DEF Good, ControlOK, LockIo, Activate, AskWork, WorkDone, Deactivate, Goto,
         lockVars, Threads
<1>4. Exclusion'
  <2>1. CASE LockIo(s)
    BY <2>1, ShellsAssumption DEF Good, ControlOK, Exclusion, InHandler, Dispatching,
                                  Up, LockIo, Goto
  <2>2. CASE Activate(s)
    BY <2>2, ShellsAssumption DEF Good, ControlOK, Exclusion, InHandler, Dispatching,
                                  Up, Activate, Goto
  <2>3. CASE AskWork(s) \/ WorkDone(s)
    BY <2>3, ShellsAssumption DEF Good, ControlOK, Exclusion, InHandler, Dispatching,
                                  Up, AskWork, WorkDone, Goto, lockVars
  <2>4. CASE Deactivate(s)
    BY <2>4, ShellsAssumption DEF Good, ControlOK, Exclusion, InHandler, Dispatching,
                                  Up, Deactivate, Goto
  <2> QED
    BY <2>1, <2>2, <2>3, <2>4
<1> QED
  BY <1>1, <1>2, <1>3, <1>4 DEF Good

LEMMA GoodUnlock ==
    ASSUME Good, NEW s \in Shells, UnlockIo(s)
    PROVE  Good'
<1>1. HistoryOK'
  <2>1. Len(cmds) \in Nat
    BY LenProperties DEF Good, HistoryOK
  <2> QED
    BY <2>1 DEF Good, HistoryOK, UnlockIo
<1>2. OutputOK'
  BY OutputStill DEF Good, UnlockIo
<1>3. ControlOK'
  BY DEF Good, ControlOK, UnlockIo, Goto
<1>4. Exclusion'
  BY ShellsAssumption DEF Good, ControlOK, Exclusion, InHandler, Dispatching,
                          Up, UnlockIo, Goto
<1> QED
  BY <1>1, <1>2, <1>3, <1>4 DEF Good

LEMMA GoodType ==
    ASSUME Good, NEW s \in Shells, TypeCommand(s)
    PROVE  Good'
<1>1. HistoryOK'
  BY Typed, CommandAppended DEF Good, TypeCommand
<1>2. OutputOK'
  BY OutputStill DEF Good, TypeCommand
<1>3. ControlOK'
  BY DEF Good, ControlOK, TypeCommand, Goto, lockVars
<1>4. Exclusion'
  BY ShellsAssumption DEF Good, ControlOK, Exclusion, InHandler, Dispatching,
                          Up, TypeCommand, Goto, lockVars
<1> QED
  BY <1>1, <1>2, <1>3, <1>4 DEF Good

LEMMA GoodReboot ==
    ASSUME Good, NEW s \in Shells, Reboot(s)
    PROVE  Good'
<1>1. HistoryOK'
  <2>1. Len(cmds) \in Nat
    BY LenProperties DEF Good, HistoryOK
  <2> QED
    BY <2>1 DEF Good, HistoryOK, Reboot
<1>2. OutputOK'
  BY OutputStill DEF Good, Reboot
<1>3. ControlOK'
  BY BoundsAssumption DEF Good, ControlOK, Reboot
<1>4. Exclusion'
  BY ShellsAssumption DEF Good, ControlOK, Exclusion, InHandler, Dispatching,
                          Up, Reboot
<1> QED
  BY <1>1, <1>2, <1>3, <1>4 DEF Good

\* The lines of a handler.
LEMMA GoodLines ==
    ASSUME Good, NEW s \in Shells,
           OpenEvent(s) \/ EndEvent(s) \/ OpenAnswer(s) \/ EndAnswer(s)
    PROVE  Good'
<1>1. s \in Threads /\ cmds \in Seq(Command) /\ cmd[s] \in Nat
  BY LenProperties DEF Good, HistoryOK, Threads
<1>2. HistoryOK' /\ OutputOK'
  <2>1. CASE OpenEvent(s)
    <3>1. HistoryOK' /\ Len(evs') \in Nat
      BY <2>1, EventAppended DEF Good, OpenEvent, Event
    <3>2. OutputOK'
      BY <2>1, <3>1, <1>1, LinesTyped, OpenLineType DEF Good, OpenEvent
    <3> QED
      BY <3>1, <3>2
  <2>2. CASE EndEvent(s)
    BY <2>2, <1>1, HistoryStill, EndLineType DEF Good, EndEvent
  <2>3. CASE OpenAnswer(s)
    BY <2>3, <1>1, HistoryStill, LinesTyped, OpenLineType DEF Good, OpenAnswer
  <2>4. CASE EndAnswer(s)
    <3>1. HistoryOK'
      BY <2>4, <1>1, CommandLeft DEF Good, HistoryOK, EndAnswer
    <3>2. OutputOK'
      BY <2>4, <1>1, EndLineType DEF Good, EndAnswer
    <3> QED
      BY <3>1, <3>2
  <2> QED
    BY <2>1, <2>2, <2>3, <2>4
<1>3. ControlOK'
  BY DEF Good, ControlOK, OpenEvent, EndEvent, OpenAnswer, EndAnswer, Goto, lockVars
<1>4. Exclusion'
  <2>1. /\ UNCHANGED <<ioLock, active, work>>
        /\ \E at \in {"event", "body", "answer", "answered"} : Goto(s, at)
        /\ Dispatching(s)
    BY DEF OpenEvent, EndEvent, OpenAnswer, EndAnswer, lockVars, Dispatching
  <2> QED
    BY <2>1 DEF Good, ControlOK, Exclusion, InHandler, Dispatching, Up, Goto
<1> QED
  BY <1>2, <1>3, <1>4 DEF Good

\* The work item, the boot and the interrupts.
LEMMA GoodWork ==
    ASSUME Good, Work \/ LockWork \/ Interrupt
    PROVE  Good'
<1>1. /\ WorkQueue \in Threads /\ Uart \in Shells
      /\ boots \in Nat /\ cmds \in Seq(Command)
  BY ShellsAssumption, BoundsAssumption DEF Good, HistoryOK, ControlOK, Threads
<1>2. HistoryOK' /\ OutputOK'
  <2>1. CASE OpenReady
    BY <2>1, <1>1, HistoryStill, LinesTyped, OpenLineType DEF Good, OpenReady
  <2>2. CASE EndReady
    BY <2>2, <1>1, HistoryStill, EndLineType DEF Good, EndReady
  <2>3. CASE FlushEvent
    <3>1. HistoryOK' /\ Len(evs') \in Nat
      BY <2>3, <1>1, EventAppended DEF Good, FlushEvent
    <3>2. OutputOK'
      BY <2>3, <3>1, <1>1, LinesTyped, OpenLineType DEF Good, FlushEvent
    <3> QED
      BY <3>1, <3>2
  <2>4. CASE EndFlushed
    BY <2>4, <1>1, HistoryStill, EndLineType DEF Good, EndFlushed
  <2>5. CASE StartWork \/ UnlockWork \/ LockWork \/ Interrupt
    BY <2>5, HistoryStill, OutputStill
       DEF Good, StartWork, UnlockWork, LockWork, Interrupt
  <2> QED
    BY <2>1, <2>2, <2>3, <2>4, <2>5 DEF Work
<1>3. ControlOK'
  BY ShellsAssumption, BoundsAssumption
     DEF Good, ControlOK, Work, OpenReady, EndReady, StartWork, FlushEvent,
         EndFlushed, UnlockWork, LockWork, Interrupt, lockVars, Threads
<1>4. Exclusion'
  BY ShellsAssumption
     DEF Good, ControlOK, Exclusion, InHandler, Dispatching, Up, Work, OpenReady,
         EndReady, StartWork, FlushEvent, EndFlushed, UnlockWork, LockWork,
         Interrupt, lockVars
<1> QED
  BY <1>2, <1>3, <1>4 DEF Good

LEMMA GoodNext == Good /\ [Next]_vars => Good'
<1> SUFFICES ASSUME Good, [Next]_vars PROVE Good'
  OBVIOUS
<1>1. CASE Interrupt \/ Work \/ LockWork
  BY <1>1, GoodWork
<1>2. ASSUME NEW s \in Shells, TypeCommand(s) \/ LockIo(s) \/ Handler(s)
      PROVE  Good'
  BY <1>2, GoodType, GoodQuiet, GoodLines, GoodReboot, GoodUnlock DEF Handler
<1>3. CASE UNCHANGED vars
  BY <1>3 DEF Good, HistoryOK, OutputOK, ControlOK, Exclusion, InHandler,
              Dispatching, Up, vars, lockVars
<1> QED
  BY <1>1, <1>2, <1>3 DEF Next

(***************************************************************************)
(* Types, and mutual exclusion: the holder of rig_io_lock is the one thread *)
(* past it, and active_shell is the shell whose dispatch is on, for any     *)
(* number of shells.                                                       *)
(***************************************************************************)
THEOREM TypeCorrect == Spec => []TypeOK
<1>1. Init => Good
  BY GoodInit
<1>2. Good /\ [Next]_vars => Good'
  BY GoodNext
<1>3. Good => TypeOK
  BY TypeParts DEF Good
<1> QED
  BY <1>1, <1>2, <1>3, PTL DEF Spec

-----------------------------------------------------------------------------
(* One part more, in its place, keeps a console in order.                  *)
LEMMA PartAppended ==
    ASSUME NEW out \in Seq(Output), Unspliced(out), NEW part \in Output,
           part.part = "begin" => Ended(out),
           part.part = "end" => /\ out # <<>>
                                /\ out[Len(out)] = [line |-> part.line, part |-> "begin"]
    PROVE  /\ Unspliced(Append(out, part))
           /\ Append(out, part) # <<>>
           /\ Append(out, part)[Len(Append(out, part))] = part
<1> DEFINE longer == Append(out, part)
<1>1. /\ Len(out) \in Nat /\ DOMAIN out = 1 .. Len(out)
      /\ out # <<>> => Len(out) > 0
      /\ Len(out) > 0 => out # <<>>
  BY LenProperties, EmptySeq
<1>2. /\ longer \in Seq(Output) /\ Len(longer) = Len(out) + 1
      /\ \A k \in 1 .. Len(out) : longer[k] = out[k]
      /\ longer[Len(out) + 1] = part
  BY AppendProperties
<1>3. DOMAIN longer = 1 .. Len(out) + 1 /\ longer # <<>>
  BY <1>1, <1>2, LenProperties, EmptySeq
<1>4. ASSUME NEW k \in 1 .. Len(out)
      PROVE  IF longer[k].part = "begin"
             THEN k > 1 => longer[k - 1].part = "end"
             ELSE k > 1 /\ longer[k - 1] = [line |-> longer[k].line, part |-> "begin"]
  <2>1. k > 1 => k - 1 \in 1 .. Len(out)
    BY <1>1
  <2> QED
    BY <1>1, <1>2, <2>1 DEF Unspliced
<1>5. IF part.part = "begin"
      THEN Len(out) > 0 => longer[Len(out)].part = "end"
      ELSE Len(out) > 0 /\ longer[Len(out)] = [line |-> part.line, part |-> "begin"]
  <2>1. Len(out) > 0 => Len(out) \in 1 .. Len(out)
    BY <1>1
  <2>2. CASE part.part = "begin"
    <3>1. Ended(out)
      BY <2>2
    <3>2. Len(out) > 0 => out[Len(out)].part = "end"
      BY <3>1, <1>1 DEF Ended
    <3> QED
      BY <2>1, <2>2, <3>2, <1>2
  <2>3. CASE part.part = "end"
    <3>1. out # <<>> /\ out[Len(out)] = [line |-> part.line, part |-> "begin"]
      BY <2>3
    <3>2. Len(out) > 0
      BY <3>1, <1>1
    <3> QED
      BY <2>1, <2>3, <3>1, <3>2, <1>2
  <2> QED
    BY <2>2, <2>3 DEF Output
<1>6. ASSUME NEW k \in 1 .. Len(out) + 1
      PROVE  IF longer[k].part = "begin"
             THEN k > 1 => longer[k - 1].part = "end"
             ELSE k > 1 /\ longer[k - 1] = [line |-> longer[k].line, part |-> "begin"]
  <2>1. CASE k = Len(out) + 1
    <3>1. longer[k] = part /\ k - 1 = Len(out) /\ (k > 1 <=> Len(out) > 0)
      BY <2>1, <1>1, <1>2
    <3> QED
      BY <3>1, <1>5
  <2>2. CASE k # Len(out) + 1
    BY <2>2, <1>1, <1>4
  <2> QED
    BY <2>1, <2>2
<1>7. Unspliced(longer)
  BY <1>3, <1>6 DEF Unspliced
<1> QED
  BY <1>1, <1>2, <1>3, <1>7

-----------------------------------------------------------------------------
(* Framing: what opens a line finds none open, what ends one ends its own. *)
Nobodys == \A t \in Threads : ~Writes(t)

LEMMA OpenLineFramed ==
    ASSUME Good, Framing, Nobodys, NEW t \in Threads, NEW l \in Lines,
           OpenLine(t, l), UNCHANGED active,
           Writes(t)', \A u \in Threads : Writes(u)' => u = t
    PROVE  Framing'
<1> DEFINE part == [line |-> l, part |-> "begin"]
<1>1. PutcTarget \in Shells /\ PutcTarget' = PutcTarget
  BY TargetIsShell DEF Good, PutcTarget
<1>2. /\ part \in Output /\ part.part = "begin"
      /\ \A s \in Shells : /\ console[s] \in Seq(Output)
                           /\ Unspliced(console[s]) /\ Ended(console[s])
  BY DEF Output, Good, OutputOK, Framing, LinesWhole, Nobodys
<1>3. \A s \in Shells : console'[s] = IF s = PutcTarget THEN Append(console[s], part)
                                                       ELSE console[s]
  BY WrittenType DEF OpenLine, Good
<1>4. /\ Unspliced(console'[PutcTarget])
      /\ console'[PutcTarget] # <<>>
      /\ console'[PutcTarget][Len(console'[PutcTarget])] = part
  BY <1>1, <1>2, <1>3, PartAppended, ZenonT(60)
<1>5. line'[t] = l
  BY DEF OpenLine, Good, OutputOK
<1>6. LinesWhole'
  BY <1>2, <1>3, <1>4 DEF LinesWhole
<1>7. \A s \in Shells : Ended(console'[s]) \/ s = PutcTarget
  BY <1>2, <1>3
<1> QED
  BY <1>1, <1>4, <1>5, <1>6, <1>7 DEF Framing

LEMMA EndLineFramed ==
    ASSUME Good, Framing, NEW t \in Threads, Writes(t), EndLine(t),
           UNCHANGED active, Nobodys'
    PROVE  Framing'
<1> DEFINE part == [line |-> line[t], part |-> "end"]
<1>1. PutcTarget \in Shells /\ line[t] \in Lines
  BY TargetIsShell DEF Good, OutputOK
<1>2. /\ part \in Output /\ part.part = "end"
      /\ \A s \in Shells : /\ console[s] \in Seq(Output)
                           /\ Unspliced(console[s])
                           /\ Ended(console[s]) \/ s = PutcTarget
      /\ console[PutcTarget] # <<>>
      /\ console[PutcTarget][Len(console[PutcTarget])]
            = [line |-> part.line, part |-> "begin"]
  BY <1>1 DEF Output, Good, OutputOK, Framing, LinesWhole
<1>3. \A s \in Shells : console'[s] = IF s = PutcTarget THEN Append(console[s], part)
                                                       ELSE console[s]
  BY <1>1, WrittenType DEF EndLine, Good
<1>4. Unspliced(console'[PutcTarget]) /\ Ended(console'[PutcTarget])
  <2>1. console'[PutcTarget] = Append(console[PutcTarget], part)
    BY <1>1, <1>3
  <2>2. /\ Unspliced(Append(console[PutcTarget], part))
        /\ Append(console[PutcTarget], part)[Len(Append(console[PutcTarget], part))] = part
    <3> HIDE DEF part
    <3> QED
      BY <1>1, <1>2, PartAppended
  <2> QED
    BY <2>1, <2>2 DEF Ended
<1>5. LinesWhole'
  BY <1>2, <1>3, <1>4 DEF LinesWhole
<1>6. \A s \in Shells : Ended(console'[s])
  BY <1>2, <1>3, <1>4
<1> QED
  BY <1>5, <1>6 DEF Framing, Nobodys

\* Where nothing is written, either nobody is in a line, before and after,
\* or the same thread is and rig_putc() has the same target.
LEMMA StillFramed ==
    ASSUME Framing, UNCHANGED <<console, line>>,
           \/ Nobodys /\ Nobodys'
           \/ /\ UNCHANGED active
              /\ \A t \in Threads : Writes(t)' <=> Writes(t)
    PROVE  Framing'
<1>1. LinesWhole'
  BY DEF Framing, LinesWhole
<1>2. CASE Nobodys /\ Nobodys'
  <2>1. \A s \in Shells : Ended(console'[s])
    BY <1>2 DEF Framing, Nobodys
  <2> QED
    BY <1>1, <1>2, <2>1 DEF Framing, Nobodys
<1>3. CASE UNCHANGED active /\ \A t \in Threads : Writes(t)' <=> Writes(t)
  <2>1. PutcTarget' = PutcTarget
    BY <1>3 DEF PutcTarget
  <2> QED
    BY <1>1, <1>3, <2>1 DEF Framing
<1> QED
  BY <1>2, <1>3

\* rig_io_lock at work: nobody writes but the thread that is past it.
LEMMA OneWriter ==
    ASSUME Good
    PROVE  /\ \A s \in Shells : InHandler(s) => \A t \in Threads : Writes(t) => t = s
           /\ work = "flush" => Nobodys
           /\ work = "boot" => Nobodys
           /\ work \in {"ready", "line"} => \A t \in Threads : Writes(t) => t = WorkQueue
BY ShellsAssumption DEF Good, Exclusion, InHandler, Up, Writes, Nobodys, Threads

\* What a handler's thread does, it does alone.
LEMMA HandlerWrites ==
    ASSUME Good, NEW s \in Shells, InHandler(s), NEW at, Goto(s, at), UNCHANGED work
    PROVE  /\ Writes(s)' <=> at \in {"event", "answer"}
           /\ \A t \in Threads : Writes(t)' => t = s
           /\ pc[s] \notin {"event", "answer"} => Nobodys
           /\ at \notin {"event", "answer"} => Nobodys'
<1>1. s # WorkQueue /\ s \in Threads
  BY ShellsAssumption DEF Threads
<1>2. \A t \in Threads : t # s => ~Writes(t)
  BY OneWriter
<1>3. DOMAIN pc = Shells /\ pc' = [pc EXCEPT ![s] = at]
  BY DEF Goto, Good, ControlOK
<1>4. \A t \in Threads : t # s => (Writes(t)' <=> Writes(t))
  BY <1>3 DEF Writes, Threads
<1>5. Writes(s)' <=> at \in {"event", "answer"}
  BY <1>1, <1>3 DEF Writes
<1>6. Writes(s) <=> pc[s] \in {"event", "answer"}
  BY <1>1 DEF Writes
<1> QED
  BY <1>1, <1>2, <1>4, <1>5, <1>6 DEF Nobodys

LEMMA FramedLines ==
    ASSUME Good, Framing, NEW s \in Shells,
           OpenEvent(s) \/ EndEvent(s) \/ OpenAnswer(s) \/ EndAnswer(s)
    PROVE  Framing'
<1>1. /\ s \in Threads /\ InHandler(s) /\ cmd[s] \in Nat
      /\ UNCHANGED <<active, work>>
  BY LenProperties
     DEF Good, HistoryOK, Threads, InHandler, OpenEvent, EndEvent, OpenAnswer,
         EndAnswer, lockVars
<1>2. CASE OpenEvent(s)
  <2>1. HistoryOK' /\ Len(evs') \in Nat
    BY <1>2, EventAppended DEF Good, OpenEvent, Event
  <2>2. [what |-> "event", n |-> Len(evs')] \in Lines
    BY <2>1, LinesTyped
  <2>3. Goto(s, "event") /\ pc[s] = "body"
    BY <1>2 DEF OpenEvent
  <2>4. Nobodys /\ Writes(s)' /\ \A u \in Threads : Writes(u)' => u = s
    BY <1>1, <2>3, HandlerWrites
  <2> QED
    BY <1>1, <1>2, <2>2, <2>4, OpenLineFramed DEF OpenEvent
<1>3. CASE OpenAnswer(s)
  <2>1. [what |-> "answer", n |-> cmd[s]] \in Lines
    BY <1>1, LinesTyped
  <2>2. Goto(s, "answer") /\ pc[s] \in {"body", "resumed"}
    BY <1>3 DEF OpenAnswer
  <2>3. Nobodys /\ Writes(s)' /\ \A u \in Threads : Writes(u)' => u = s
    BY <1>1, <2>2, HandlerWrites
  <2> QED
    BY <1>1, <1>3, <2>1, <2>3, OpenLineFramed DEF OpenAnswer
<1>4. CASE EndEvent(s) \/ EndAnswer(s)
  <2>1. Writes(s) /\ EndLine(s) /\ \E at \in {"body", "answered"} : Goto(s, at)
    BY <1>4, ShellsAssumption DEF EndEvent, EndAnswer, Writes
  <2>2. Nobodys'
    BY <1>1, <2>1, HandlerWrites
  <2> QED
    BY <1>1, <2>1, <2>2, EndLineFramed
<1> QED
  BY <1>2, <1>3, <1>4

\* The steps of the shells' threads that write nothing.
LEMMA FramedQuiet ==
    ASSUME Good, Framing, NEW s \in Shells,
           \/ TypeCommand(s) \/ LockIo(s) \/ Activate(s) \/ AskWork(s)
           \/ WorkDone(s) \/ Reboot(s) \/ Deactivate(s) \/ UnlockIo(s)
    PROVE  Framing'
<1>1. UNCHANGED <<console, line>>
  BY DEF TypeCommand, LockIo, Activate, AskWork, WorkDone, Reboot, Deactivate,
         UnlockIo
<1>2. CASE TypeCommand(s) \/ LockIo(s)
  <2>1. /\ pc[s] \in {"idle", "lock"} /\ UNCHANGED <<active, work>>
        /\ \E at \in {"lock", "locked"} : Goto(s, at)
    BY <1>2 DEF TypeCommand, LockIo, lockVars
  <2>2. \A t \in Threads : Writes(t)' <=> Writes(t)
    BY <2>1, ShellsAssumption DEF Goto, Good, ControlOK, Writes, Threads
  <2> QED
    BY <1>1, <2>1, <2>2, StillFramed
<1>3. CASE Activate(s) \/ AskWork(s) \/ WorkDone(s) \/ Deactivate(s) \/ UnlockIo(s)
  <2>1. /\ InHandler(s) /\ pc[s] \notin {"event", "answer"} /\ UNCHANGED work
        /\ \E at \in {"body", "waiting", "resumed", "unlock", "idle"} : Goto(s, at)
    BY <1>3 DEF InHandler, Activate, AskWork, WorkDone, Deactivate, UnlockIo
  <2>2. Nobodys /\ Nobodys'
    BY <2>1, HandlerWrites
  <2> QED
    BY <1>1, <2>2, StillFramed
<1>4. CASE Reboot(s)
  <2>1. InHandler(s) /\ pc[s] = "answered"
    BY <1>4 DEF InHandler, Reboot
  <2>2. Nobodys
    BY <2>1, OneWriter, ShellsAssumption DEF Nobodys, Writes
  <2>3. Nobodys'
    BY <1>4 DEF Reboot, Nobodys, Writes, Threads
  <2> QED
    BY <1>1, <2>2, <2>3, StillFramed
<1> QED
  BY <1>2, <1>3, <1>4

LEMMA FramedWork ==
    ASSUME Good, Framing, Work \/ LockWork \/ Interrupt
    PROVE  Framing'
<1>1. /\ WorkQueue \in Threads /\ WorkQueue \notin Shells /\ Uart \in Shells
      /\ boots \in Nat /\ UNCHANGED <<active, pc>>
  BY ShellsAssumption, BoundsAssumption
     DEF Good, ControlOK, Threads, Work, OpenReady, EndReady, StartWork, FlushEvent,
         EndFlushed, UnlockWork, LockWork, Interrupt, lockVars
<1>2. /\ Writes(WorkQueue) <=> work \in {"ready", "line"}
      /\ Writes(WorkQueue)' <=> work' \in {"ready", "line"}
      /\ \A t \in Threads : t # WorkQueue => (Writes(t)' <=> Writes(t))
  BY <1>1 DEF Writes
<1>3. CASE OpenReady \/ FlushEvent
  <2>1. PICK l \in Lines : OpenLine(WorkQueue, l)
    <3>1. CASE OpenReady
      BY <3>1, <1>1, LinesTyped DEF OpenReady
    <3>2. CASE FlushEvent
      <4>1. HistoryOK' /\ Len(evs') \in Nat
        BY <3>2, <1>1, EventAppended DEF Good, FlushEvent
      <4> QED
        BY <3>2, <4>1, LinesTyped DEF FlushEvent
    <3> QED
      BY <1>3, <3>1, <3>2
  <2>2. work \in {"boot", "flush"} /\ work' \in {"ready", "line"}
    BY <1>3 DEF OpenReady, FlushEvent
  <2>3. Nobodys
    BY <2>2, OneWriter
  <2>4. Writes(WorkQueue)' /\ \A u \in Threads : Writes(u)' => u = WorkQueue
    BY <1>2, <2>2, <2>3 DEF Nobodys
  <2> QED
    BY <1>1, <2>1, <2>3, <2>4, OpenLineFramed
<1>4. CASE EndReady \/ EndFlushed
  <2>1. /\ EndLine(WorkQueue) /\ work \in {"ready", "line"}
        /\ work' \notin {"ready", "line"}
    BY <1>4 DEF EndReady, EndFlushed
  <2>2. Nobodys'
    BY <1>2, <2>1, OneWriter DEF Nobodys
  <2> QED
    BY <1>1, <1>2, <2>1, <2>2, EndLineFramed
<1>5. CASE StartWork \/ UnlockWork \/ LockWork \/ Interrupt
  <2>1. /\ UNCHANGED <<console, line>>
        /\ work \in {"ready", "line"} <=> work' \in {"ready", "line"}
    BY <1>5 DEF StartWork, UnlockWork, LockWork, Interrupt
  <2> QED
    BY <1>1, <1>2, <2>1, StillFramed
<1> QED
  BY <1>3, <1>4, <1>5 DEF Work

LEMMA FramingInit == Init => Framing
<1> SUFFICES ASSUME Init PROVE Framing
  OBVIOUS
<1>1. \A s \in Shells : Unspliced(console[s]) /\ Ended(console[s])
  <2>1. console = [s \in Shells |-> <<>>] /\ DOMAIN <<>> = {}
    BY EmptySeq, LenProperties DEF Init
  <2> QED
    BY <2>1 DEF Unspliced, Ended
<1>2. \A t \in Threads : ~Writes(t)
  BY ShellsAssumption DEF Init, Writes, Threads
<1> QED
  BY <1>1, <1>2 DEF Framing, LinesWhole

LEMMA FramingNext == Good /\ Framing /\ [Next]_vars => Framing'
<1> SUFFICES ASSUME Good, Framing, [Next]_vars PROVE Framing'
  OBVIOUS
<1>1. CASE Interrupt \/ Work \/ LockWork
  BY <1>1, FramedWork
<1>2. ASSUME NEW s \in Shells, TypeCommand(s) \/ LockIo(s) \/ Handler(s)
      PROVE  Framing'
  BY <1>2, FramedLines, FramedQuiet DEF Handler
<1>3. CASE UNCHANGED vars
  <2>1. UNCHANGED <<console, line, active, pc, work>>
    BY <1>3 DEF vars, lockVars
  <2>2. \A t \in Threads : Writes(t)' <=> Writes(t)
    BY <2>1 DEF Writes
  <2> QED
    BY <2>1, <2>2, StillFramed
<1> QED
  BY <1>1, <1>2, <1>3 DEF Next

(***************************************************************************)
(* rig_io_lock keeps every line whole, on every shell, for any number of   *)
(* shells, commands, events and reboots.                                   *)
(***************************************************************************)
THEOREM LinesNeverSpliced == Spec => []LinesWhole
<1>1. Init => Good /\ Framing
  BY GoodInit, FramingInit
<1>2. Good /\ Framing /\ [Next]_vars => Good' /\ Framing'
  BY GoodNext, FramingNext
<1>3. Framing => LinesWhole
  BY DEF Framing
<1> QED
  BY <1>1, <1>2, <1>3, PTL DEF Spec

-----------------------------------------------------------------------------
(***************************************************************************)
(* rig_dyn_get() strips "rig." and rig_sub_handler() puts it back on a     *)
(* miss: whatever set of names is registered, what is typed reaches the    *)
(* command it was offered for, or the application's one of the same name.  *)
(***************************************************************************)
LEMMA FindsAsked ==
    ASSUME NEW asked \in Registered
    PROVE  /\ Find(asked.base) \in Registered
           /\ Find(asked.base) = IF Shadowed(asked) THEN Plain(asked.base) ELSE asked
<1>1. asked = [rig |-> asked.rig, base |-> asked.base] /\ asked.rig \in BOOLEAN
  BY NamesAssumption DEF Name
<1>2. CASE asked.rig
  <2>1. asked = Prefixed(asked.base)
    BY <1>1, <1>2 DEF Prefixed
  <2> QED
    BY <1>2, <2>1 DEF Find, Shadowed
<1>3. CASE ~asked.rig
  <2>1. asked = Plain(asked.base)
    BY <1>1, <1>3 DEF Plain
  <2> QED
    BY <1>3, <2>1 DEF Find, Shadowed
<1> QED
  BY <1>2, <1>3

\* What a step does to the history of the commands: one more at the end, one
\* that is now answered, or nothing.
Typing(s) ==
    \E asked \in Registered, argc \in 0 .. MaxArgs + 1 :
        cmds' = Append(cmds, [shell |-> s, asked |-> asked, ran |-> Find(asked.base),
                              argc |-> argc, got |-> Passed(argc), left |-> "open"])

Answering(s) == cmds' = [cmds EXCEPT ![cmd[s]].left = "answered"]

LEMMA CommandSteps ==
    ASSUME [Next]_vars
    PROVE  \/ UNCHANGED cmds
           \/ \E s \in Shells : Typing(s) \/ Answering(s)
<1>1. CASE Interrupt \/ Work \/ LockWork \/ UNCHANGED vars
  BY <1>1 DEF Interrupt, Work, OpenReady, EndReady, StartWork, FlushEvent,
              EndFlushed, UnlockWork, LockWork, vars
<1>2. ASSUME NEW s \in Shells, TypeCommand(s)
      PROVE  Typing(s)
  BY <1>2 DEF TypeCommand, Typing
<1>3. ASSUME NEW s \in Shells, LockIo(s) \/ Handler(s)
      PROVE  UNCHANGED cmds \/ Answering(s)
  BY <1>3 DEF LockIo, Handler, Activate, OpenEvent, EndEvent, AskWork, WorkDone,
              OpenAnswer, EndAnswer, Reboot, Deactivate, UnlockIo, Answering
<1> QED
  BY <1>1, <1>2, <1>3 DEF Next

\* One command more, whose record is the one TypeCommand makes.
LEMMA TypingAppends ==
    ASSUME HistoryOK, NEW s \in Shells, Typing(s)
    PROVE  /\ DOMAIN cmds = 1 .. Len(cmds) /\ Len(cmds) \in Nat
           /\ DOMAIN cmds' = 1 .. Len(cmds) + 1 /\ Len(cmds') = Len(cmds) + 1
           /\ \A i \in 1 .. Len(cmds) : cmds'[i] = cmds[i]
           /\ cmds'[Len(cmds) + 1].shell = s
           /\ cmds'[Len(cmds) + 1].left = "open"
           /\ \E asked \in Registered : /\ cmds'[Len(cmds) + 1].asked = asked
                                        /\ cmds'[Len(cmds) + 1].ran = Find(asked.base)
<1>1. PICK asked \in Registered, argc \in 0 .. MaxArgs + 1 :
          cmds' = Append(cmds, [shell |-> s, asked |-> asked, ran |-> Find(asked.base),
                                argc |-> argc, got |-> Passed(argc), left |-> "open"])
  BY DEF Typing
<1> DEFINE c == [shell |-> s, asked |-> asked, ran |-> Find(asked.base),
                 argc |-> argc, got |-> Passed(argc), left |-> "open"]
<1>2. c \in Command
  BY Typed
<1>3. /\ c.shell = s /\ c.left = "open"
      /\ c.asked = asked /\ c.ran = Find(asked.base)
  OBVIOUS
<1> HIDE DEF c
<1>4. cmds' = Append(cmds, c)
  BY <1>1 DEF c
<1>5. /\ Len(cmds) \in Nat /\ DOMAIN cmds = 1 .. Len(cmds)
      /\ cmds' \in Seq(Command) /\ Len(cmds') = Len(cmds) + 1
      /\ \A i \in 1 .. Len(cmds) : cmds'[i] = cmds[i]
      /\ cmds'[Len(cmds) + 1] = c
  BY <1>2, <1>4, AppendProperties, LenProperties DEF HistoryOK
<1>6. DOMAIN cmds' = 1 .. Len(cmds) + 1
  BY <1>5, LenProperties
<1> QED
  BY <1>3, <1>5, <1>6

\* One command answered: nothing else of the history changes.
LEMMA AnsweringKeeps ==
    ASSUME HistoryOK, NEW s \in Shells, Answering(s)
    PROVE  /\ DOMAIN cmds' = DOMAIN cmds /\ DOMAIN cmds = 1 .. Len(cmds)
           /\ \A i \in DOMAIN cmds :
                  /\ cmds'[i].shell = cmds[i].shell
                  /\ cmds'[i].asked = cmds[i].asked
                  /\ cmds'[i].ran = cmds[i].ran
                  /\ cmds'[i].left = IF i = cmd[s] THEN "answered" ELSE cmds[i].left
<1>1. /\ DOMAIN cmds = 1 .. Len(cmds)
      /\ \A i \in DOMAIN cmds : cmds[i] \in Command
  BY LenProperties, ElementOfSeq DEF HistoryOK
<1>2. DOMAIN cmds' = DOMAIN cmds
  BY DEF Answering
<1>3. ASSUME NEW i \in DOMAIN cmds
      PROVE  cmds'[i] = IF i = cmd[s] THEN [cmds[i] EXCEPT !.left = "answered"]
                                      ELSE cmds[i]
  BY <1>1 DEF Answering
<1> QED
  BY <1>1, <1>2, <1>3 DEF Command

(***************************************************************************)
(* Every command that was typed ran as the registered command it names, or *)
(* as the application's own one of that name, for any set of names.        *)
(***************************************************************************)
THEOREM CommandsRouted == Spec => []Routed
<1>1. Init => Good /\ Routed
  BY GoodInit DEF Init, Routed
<1>2. Good /\ Routed /\ [Next]_vars => Good' /\ Routed'
  <2> SUFFICES ASSUME Good, Routed, [Next]_vars PROVE Routed'
    BY GoodNext
  <2>1. HistoryOK
    BY DEF Good
  <2>2. CASE UNCHANGED cmds
    BY <2>2 DEF Routed
  <2>3. ASSUME NEW s \in Shells, Typing(s) PROVE Routed'
    <3> DEFINE new == Len(cmds) + 1
    <3>1. /\ cmds'[new].ran \in Registered
          /\ cmds'[new].ran = IF Shadowed(cmds'[new].asked)
                              THEN Plain(cmds'[new].asked.base)
                              ELSE cmds'[new].asked
      BY <2>1, <2>3, TypingAppends, FindsAsked
    <3>2. /\ DOMAIN cmds' = 1 .. new /\ DOMAIN cmds = 1 .. Len(cmds)
          /\ Len(cmds) \in Nat
          /\ \A i \in 1 .. Len(cmds) : cmds'[i] = cmds[i]
      BY <2>1, <2>3, TypingAppends
    <3> HIDE DEF new
    <3>3. ASSUME NEW i \in DOMAIN cmds'
          PROVE  /\ cmds'[i].ran \in Registered
                 /\ cmds'[i].ran = IF Shadowed(cmds'[i].asked)
                                   THEN Plain(cmds'[i].asked.base)
                                   ELSE cmds'[i].asked
      <4>1. i = new \/ i \in DOMAIN cmds
        BY <3>2 DEF new
      <4> QED
        BY <3>1, <3>2, <4>1 DEF Routed
    <3> QED
      BY <3>3 DEF Routed, Shadowed
  <2>4. ASSUME NEW s \in Shells, Answering(s) PROVE Routed'
    BY <2>1, <2>4, AnsweringKeeps DEF Routed, Shadowed
  <2> QED
    BY <2>2, <2>3, <2>4, CommandSteps
<1> QED
  BY <1>1, <1>2, PTL DEF Spec
-----------------------------------------------------------------------------
(***************************************************************************)
(* Why every line is at home: a shell's thread has a command that was      *)
(* typed there, open until its answer is ended; what a thread has begun is *)
(* of the kind its place says; and what is on a console belongs there,     *)
(* with an end of an answer just for the commands that are answered.       *)
(***************************************************************************)
Answer(i) == [what |-> "answer", n |-> i]

OwnCommand(s) ==
    /\ pc[s] # "idle" => cmd[s] \in DOMAIN cmds /\ cmds[cmd[s]].shell = s
    /\ pc[s] \notin {"idle", "answered", "unlock"} => cmds[cmd[s]].left = "open"

OwnLine(s) == /\ pc[s] = "answer" => line[s] = Answer(cmd[s])
              /\ pc[s] = "event"  => line[s].what = "event"

Belongs(l, s, typed, risen) ==
    \/ l.what = "answer" /\ l.n \in DOMAIN typed /\ typed[l.n].shell = s
    \/ l.what = "event" /\ l.n \in DOMAIN risen /\ risen[l.n] = s
    \/ l.what = "ready" /\ s = Uart

EndsOf(out, i) == {k \in DOMAIN out : out[k] = [line |-> Answer(i), part |-> "end"]}

AnsweredOnce(i) == IF cmds[i].left = "answered"
                   THEN \E k : EndsOf(console[cmds[i].shell], i) = {k}
                   ELSE EndsOf(console[cmds[i].shell], i) = {}

Threaded == /\ \A s \in Shells : OwnCommand(s) /\ OwnLine(s)
            /\ work \in {"ready", "line"} => line[WorkQueue].what # "answer"

Placed == /\ Threaded
          /\ \A s \in Shells : \A k \in DOMAIN console[s] :
                 Belongs(console[s][k].line, s, cmds, evs)
          /\ \A i \in DOMAIN cmds : AnsweredOnce(i)

LEMMA PlacedAtHome == Good /\ Placed => LinesAtHome
<1> SUFFICES ASSUME Good, Placed PROVE LinesAtHome
  OBVIOUS
<1>1. ASSUME NEW s \in Shells, NEW k \in DOMAIN console[s]
      PROVE  Home(console[s][k].line) = s
  <2>1. Belongs(console[s][k].line, s, cmds, evs)
    BY DEF Placed
  <2> QED
    BY <2>1 DEF Belongs, Home
<1>2. ASSUME NEW i \in DOMAIN cmds
      PROVE  IF cmds[i].left = "answered"
             THEN \E k \in AnswersTo(i) : AnswersTo(i) = {k}
             ELSE AnswersTo(i) = {}
  <2>1. AnsweredOnce(i) /\ AnswersTo(i) = EndsOf(console[cmds[i].shell], i)
    BY DEF Placed, AnswersTo, EndsOf, Answer
  <2> QED
    BY <2>1 DEF AnsweredOnce
<1> QED
  BY <1>1, <1>2 DEF LinesAtHome

-----------------------------------------------------------------------------
(* One part more on a console: the ends of an answer, before and after.    *)
LEMMA EndsAppended ==
    ASSUME NEW out \in Seq(Output), NEW part \in Output, NEW i
    PROVE  EndsOf(Append(out, part), i) =
               IF part = [line |-> Answer(i), part |-> "end"]
               THEN EndsOf(out, i) \union {Len(out) + 1}
               ELSE EndsOf(out, i)
<1> DEFINE longer == Append(out, part)
<1>1. /\ Len(out) \in Nat /\ DOMAIN out = 1 .. Len(out)
      /\ longer \in Seq(Output) /\ Len(longer) = Len(out) + 1
      /\ \A k \in 1 .. Len(out) : longer[k] = out[k]
      /\ longer[Len(out) + 1] = part
  BY AppendProperties, LenProperties
<1>2. DOMAIN longer = (DOMAIN out) \union {Len(out) + 1}
  <2>1. DOMAIN longer = 1 .. Len(out) + 1
    BY <1>1, LenProperties
  <2> QED
    BY <1>1, <2>1
<1> HIDE DEF longer
<1> QED
  BY <1>1, <1>2 DEF EndsOf, longer

\* What a step may do to the history: a line that belongs to a shell still does.
EventMore == \E home \in Shells : evs' = Append(evs, home)

LEMMA EventSteps == ASSUME [Next]_vars PROVE UNCHANGED evs \/ EventMore
<1>1. CASE Interrupt \/ Work \/ LockWork \/ UNCHANGED vars
  BY <1>1, ShellsAssumption
     DEF Interrupt, Work, OpenReady, EndReady, StartWork, FlushEvent,
         EndFlushed, UnlockWork, LockWork, vars, EventMore
<1>2. ASSUME NEW s \in Shells, TypeCommand(s) \/ LockIo(s) \/ Handler(s)
      PROVE  UNCHANGED evs \/ EventMore
  BY <1>2 DEF TypeCommand, LockIo, Handler, Activate, OpenEvent, Event, EndEvent,
              AskWork, WorkDone, OpenAnswer, EndAnswer, Reboot, Deactivate,
              UnlockIo, EventMore
<1> QED
  BY <1>1, <1>2 DEF Next

LEMMA StillBelongs ==
    ASSUME Good, [Next]_vars, NEW l, NEW s \in Shells,
           Belongs(l, s, cmds, evs)
    PROVE  Belongs(l, s, cmds', evs')
<1>1. HistoryOK
  BY DEF Good
<1>2. CASE l.what = "answer"
  <2>1. l.n \in DOMAIN cmds /\ cmds[l.n].shell = s
    BY <1>2 DEF Belongs
  <2>2. l.n \in DOMAIN cmds' /\ cmds'[l.n].shell = s
    <3>1. CASE UNCHANGED cmds
      BY <2>1, <3>1
    <3>2. ASSUME NEW t \in Shells, Typing(t)
          PROVE  l.n \in DOMAIN cmds' /\ cmds'[l.n].shell = s
      BY <1>1, <2>1, <3>2, TypingAppends
    <3>3. ASSUME NEW t \in Shells, Answering(t)
          PROVE  l.n \in DOMAIN cmds' /\ cmds'[l.n].shell = s
      BY <1>1, <2>1, <3>3, AnsweringKeeps
    <3> QED
      BY <3>1, <3>2, <3>3, CommandSteps
  <2> QED
    BY <1>2, <2>2 DEF Belongs
<1>3. CASE l.what = "event"
  <2>1. l.n \in DOMAIN evs /\ evs[l.n] = s
    BY <1>3 DEF Belongs
  <2>2. CASE EventMore
    <3>1. PICK home \in Shells : evs' = Append(evs, home)
      BY <2>2 DEF EventMore
    <3>2. /\ Len(evs) \in Nat /\ DOMAIN evs = 1 .. Len(evs)
          /\ evs' \in Seq(Shells) /\ Len(evs') = Len(evs) + 1
          /\ \A k \in 1 .. Len(evs) : evs'[k] = evs[k]
      BY <1>1, <3>1, AppendProperties, LenProperties DEF HistoryOK
    <3>3. DOMAIN evs' = 1 .. Len(evs) + 1
      BY <3>2, LenProperties
    <3> QED
      BY <1>3, <2>1, <3>2, <3>3 DEF Belongs
  <2>3. CASE UNCHANGED evs
    BY <1>3, <2>1, <2>3 DEF Belongs
  <2> QED
    BY <2>2, <2>3, EventSteps
<1>4. CASE l.what = "ready"
  BY <1>4 DEF Belongs
<1> QED
  BY <1>2, <1>3, <1>4 DEF Belongs

-----------------------------------------------------------------------------
(* A part more on the console rig_putc() writes to.                        *)

\* Who writes, writes to its own shell; a line ended belongs where it began.
LEMMA BegunBelongs ==
    ASSUME Good, Framing, Placed, NEW t \in Threads, Writes(t)
    PROVE  Belongs(line[t], PutcTarget, cmds, evs)
<1>1. PutcTarget \in Shells /\ console[PutcTarget] \in Seq(Output)
  BY TargetIsShell DEF Good, OutputOK
<1>2. /\ console[PutcTarget] # <<>>
      /\ console[PutcTarget][Len(console[PutcTarget])]
            = [line |-> line[t], part |-> "begin"]
  BY DEF Framing
<1>3. Len(console[PutcTarget]) \in DOMAIN console[PutcTarget]
  BY <1>1, <1>2, EmptySeq, LenProperties
<1> QED
  BY <1>1, <1>2, <1>3 DEF Placed

LEMMA PartBelongs ==
    ASSUME Good, Placed, [Next]_vars, NEW l \in Lines, NEW part \in {"begin", "end"},
           console' = Written(l, part),
           Belongs(l, PutcTarget, cmds', evs')
    PROVE  \A s \in Shells : \A k \in DOMAIN console'[s] :
               Belongs(console'[s][k].line, s, cmds', evs')
<1>1. /\ PutcTarget \in Shells /\ console \in [Shells -> Seq(Output)]
      /\ [line |-> l, part |-> part] \in Output
  BY TargetIsShell DEF Good, OutputOK, Output
<1>2. \A s \in Shells : console'[s] =
          IF s = PutcTarget THEN Append(console[s], [line |-> l, part |-> part])
                            ELSE console[s]
  BY WrittenType DEF Good
<1>3. ASSUME NEW s \in Shells, NEW k \in DOMAIN console[s]
      PROVE  Belongs(console[s][k].line, s, cmds', evs')
  BY StillBelongs DEF Placed
<1>4. \A s \in Shells : s # PutcTarget =>
          \A k \in DOMAIN console'[s] : Belongs(console'[s][k].line, s, cmds', evs')
  BY <1>2, <1>3
<1>5. ASSUME NEW s \in Shells, s = PutcTarget, NEW k \in DOMAIN console'[s]
      PROVE  Belongs(console'[s][k].line, s, cmds', evs')
  <2>1. /\ Len(console[s]) \in Nat /\ DOMAIN console[s] = 1 .. Len(console[s])
        /\ console'[s] \in Seq(Output) /\ Len(console'[s]) = Len(console[s]) + 1
        /\ \A j \in 1 .. Len(console[s]) : console'[s][j] = console[s][j]
        /\ console'[s][Len(console[s]) + 1] = [line |-> l, part |-> part]
    <3> DEFINE p == [line |-> l, part |-> part]
    <3>1. console'[s] = Append(console[s], p)
      BY <1>2, <1>5
    <3>2. console[s] \in Seq(Output) /\ p \in Output
      BY <1>1, <1>5
    <3> HIDE DEF p
    <3>3. /\ console'[s] \in Seq(Output) /\ Len(console'[s]) = Len(console[s]) + 1
          /\ \A j \in 1 .. Len(console[s]) : console'[s][j] = console[s][j]
          /\ console'[s][Len(console[s]) + 1] = p
      BY <3>1, <3>2, AppendProperties
    <3> QED
      BY <3>2, <3>3, LenProperties DEF p
  <2>2. k \in 1 .. Len(console[s]) + 1
    BY <2>1, LenProperties
  <2>3. CASE k \in 1 .. Len(console[s])
    BY <2>1, <2>3, <1>3
  <2>4. CASE k = Len(console[s]) + 1
    BY <2>1, <2>4, <1>5
  <2> QED
    BY <2>1, <2>2, <2>3, <2>4
<1> QED
  BY <1>4, <1>5

\* Nothing but the end of an answer changes who is answered.
LEMMA PartAnswersNone ==
    ASSUME Good, Placed, NEW l \in Lines, NEW part \in {"begin", "end"},
           console' = Written(l, part), UNCHANGED cmds,
           part = "end" => l.what # "answer"
    PROVE  \A i \in DOMAIN cmds' : AnsweredOnce(i)'
<1>1. /\ console \in [Shells -> Seq(Output)]
      /\ [line |-> l, part |-> part] \in Output
  BY DEF Good, OutputOK, Output
<1>2. \A s \in Shells : console'[s] =
          IF s = PutcTarget THEN Append(console[s], [line |-> l, part |-> part])
                            ELSE console[s]
  BY WrittenType DEF Good
<1>3. ASSUME NEW i \in DOMAIN cmds PROVE AnsweredOnce(i)'
  <2>1. cmds[i].shell \in Shells
    <3>1. cmds \in Seq(Command) /\ i \in 1 .. Len(cmds)
      BY LenProperties DEF Good, HistoryOK
    <3>2. cmds[i] \in Command
      BY <3>1, ElementOfSeq
    <3> QED
      BY <3>2 DEF Command
  <2>2. [line |-> l, part |-> part] # [line |-> Answer(i), part |-> "end"]
    BY DEF Answer
  <2>3. EndsOf(console'[cmds[i].shell], i) = EndsOf(console[cmds[i].shell], i)
    BY <1>1, <1>2, <2>1, <2>2, EndsAppended
  <2> QED
    BY <2>3 DEF Placed, AnsweredOnce
<1> QED
  BY <1>3

-----------------------------------------------------------------------------
(* Placed, action by action.                                               *)
LEMMA PlacedInit == Init => Placed
<1> SUFFICES ASSUME Init PROVE Placed
  OBVIOUS
<1>1. DOMAIN <<>> = {}
  BY EmptySeq, LenProperties
<1>2. Threaded
  BY DEF Init, Threaded, OwnCommand, OwnLine
<1>3. \A s \in Shells : console[s] = <<>>
  BY DEF Init
<1> QED
  BY <1>1, <1>2, <1>3 DEF Init, Placed

\* Where nothing is written and no command is typed or answered.
LEMMA PlacedQuiet ==
    ASSUME Good, Placed, [Next]_vars, UNCHANGED <<console, cmds>>, Threaded'
    PROVE  Placed'
<1>1. \A s \in Shells : \A k \in DOMAIN console'[s] :
          Belongs(console'[s][k].line, s, cmds', evs')
  BY StillBelongs DEF Placed
<1>2. \A i \in DOMAIN cmds' : AnsweredOnce(i)'
  BY DEF Placed, AnsweredOnce
<1> QED
  BY <1>1, <1>2 DEF Placed

LEMMA PlacedTyping ==
    ASSUME Good, Placed, NEW s \in Shells, TypeCommand(s)
    PROVE  Placed'
<1> DEFINE new == Len(cmds) + 1
<1>1. Typing(s) /\ HistoryOK /\ [Next]_vars /\ UNCHANGED <<console, line, work>>
  BY DEF TypeCommand, Typing, Good, Next
<1>2. /\ DOMAIN cmds = 1 .. Len(cmds) /\ Len(cmds) \in Nat
      /\ DOMAIN cmds' = 1 .. new /\ Len(cmds') = new
      /\ \A i \in 1 .. Len(cmds) : cmds'[i] = cmds[i]
      /\ cmds'[new].shell = s /\ cmds'[new].left = "open"
  BY <1>1, TypingAppends
<1>3. pc' = [pc EXCEPT ![s] = "lock"] /\ cmd' = [cmd EXCEPT ![s] = new]
  BY <1>2 DEF TypeCommand, Goto
<1>4. /\ pc'[s] = "lock" /\ cmd'[s] = new
      /\ \A t \in Shells : t # s => pc'[t] = pc[t] /\ cmd'[t] = cmd[t]
  BY <1>3 DEF Good, HistoryOK, ControlOK
<1>5. ASSUME NEW t \in Shells PROVE OwnCommand(t)' /\ OwnLine(t)'
  <2>1. CASE t = s
    BY <2>1, <1>2, <1>4 DEF OwnCommand, OwnLine
  <2>2. CASE t # s
    <3>1. OwnCommand(t) /\ OwnLine(t) /\ pc'[t] = pc[t] /\ cmd'[t] = cmd[t]
      BY <2>2, <1>4 DEF Placed, Threaded
    <3>2. pc[t] # "idle" => cmd[t] \in 1 .. Len(cmds)
      BY <3>1, <1>2 DEF OwnCommand
    <3>3. OwnCommand(t)'
      BY <3>1, <3>2, <1>2 DEF OwnCommand
    <3>4. OwnLine(t)'
      BY <3>1, <1>1 DEF OwnLine, Answer
    <3> QED
      BY <3>3, <3>4
  <2> QED
    BY <2>1, <2>2
<1>6. Threaded'
  BY <1>1, <1>5 DEF Placed, Threaded
<1>7. \A t \in Shells : \A k \in DOMAIN console'[t] :
          Belongs(console'[t][k].line, t, cmds', evs')
  BY <1>1, StillBelongs DEF Placed
<1>8. ASSUME NEW i \in DOMAIN cmds' PROVE AnsweredOnce(i)'
  <2>1. CASE i \in 1 .. Len(cmds)
    BY <2>1, <1>1, <1>2 DEF Placed, AnsweredOnce
  <2>2. CASE i = new
    <3>1. ASSUME NEW k \in EndsOf(console[s], new) PROVE FALSE
      <4>1. /\ k \in DOMAIN console[s]
            /\ console[s][k].line = Answer(new)
        BY DEF EndsOf
      <4>2. Belongs(Answer(new), s, cmds, evs)
        BY <4>1 DEF Placed
      <4>3. new \in DOMAIN cmds
        BY <4>2 DEF Belongs, Answer
      <4> QED
        BY <4>3, <1>2
    <3> QED
      BY <2>2, <3>1, <1>1, <1>2 DEF AnsweredOnce
  <2> QED
    BY <2>1, <2>2, <1>2
<1> QED
  BY <1>6, <1>7, <1>8 DEF Placed

\* A handler's thread moves on: it keeps its command until it has answered it.
LEMMA ThreadedMoves ==
    ASSUME Good, Placed, NEW s \in Shells, NEW at, Goto(s, at),
           UNCHANGED <<cmds, cmd, work>>,
           at # "idle" => /\ pc[s] # "idle"
                          /\ at \in {"answered", "unlock"}
                                 \/ pc[s] \notin {"answered", "unlock"},
           \A t \in Shells : t # s => line'[t] = line[t],
           line'[WorkQueue] = line[WorkQueue],
           at = "answer" => line'[s] = Answer(cmd[s]),
           at = "event" => line'[s].what = "event"
    PROVE  Threaded'
<1>1. pc'[s] = at /\ \A t \in Shells : t # s => pc'[t] = pc[t]
  BY DEF Goto, Good, ControlOK
<1>2. ASSUME NEW t \in Shells PROVE OwnCommand(t)' /\ OwnLine(t)'
  <2>1. OwnCommand(t) /\ OwnLine(t)
    BY DEF Placed, Threaded
  <2>2. CASE t = s
    BY <2>1, <2>2, <1>1 DEF OwnCommand, OwnLine, Answer
  <2>3. CASE t # s
    BY <2>1, <2>3, <1>1 DEF OwnCommand, OwnLine, Answer
  <2> QED
    BY <2>2, <2>3
<1> QED
  BY <1>2 DEF Placed, Threaded

LEMMA PlacedSilent ==
    ASSUME Good, Placed, NEW s \in Shells,
           \/ LockIo(s) \/ Activate(s) \/ AskWork(s) \/ WorkDone(s)
           \/ Deactivate(s) \/ UnlockIo(s) \/ Reboot(s)
    PROVE  Placed'
<1>1. [Next]_vars /\ UNCHANGED <<console, cmds, line>>
  BY DEF Next, Handler, LockIo, Activate, AskWork, WorkDone, Deactivate, UnlockIo,
         Reboot
<1>2. CASE LockIo(s) \/ Activate(s) \/ AskWork(s) \/ WorkDone(s) \/ Deactivate(s)
  <2>1. /\ UNCHANGED <<cmd, work>> /\ pc[s] # "idle"
        /\ \E at \in {"locked", "body", "waiting", "resumed", "unlock"} :
               Goto(s, at) /\ (at # "unlock" => pc[s] \notin {"answered", "unlock"})
    BY <1>2 DEF LockIo, Activate, AskWork, WorkDone, Deactivate, lockVars
  <2>2. Threaded'
    BY <2>1, <1>1, ThreadedMoves
  <2> QED
    BY <1>1, <2>2, PlacedQuiet
<1>3. CASE UnlockIo(s)
  <2>1. /\ UNCHANGED work /\ pc'[s] = "idle"
        /\ \A t \in Shells : t # s => pc'[t] = pc[t] /\ cmd'[t] = cmd[t]
    BY <1>3 DEF UnlockIo, Goto, Good, HistoryOK, ControlOK
  <2>2. ASSUME NEW t \in Shells PROVE OwnCommand(t)' /\ OwnLine(t)'
    BY <2>1, <1>1 DEF Placed, Threaded, OwnCommand, OwnLine, Answer
  <2>3. Threaded'
    BY <2>1, <2>2, <1>1 DEF Placed, Threaded
  <2> QED
    BY <1>1, <2>3, PlacedQuiet
<1>4. CASE Reboot(s)
  <2>1. Threaded'
    BY <1>4 DEF Reboot, Threaded, OwnCommand, OwnLine
  <2> QED
    BY <1>1, <2>1, PlacedQuiet
<1> QED
  BY <1>2, <1>3, <1>4
\* rig_putc()'s target: the shell of the handler that dispatches, the UART
\* shell for the work item and at boot, whatever was active before.
LEMMA TargetOfWriter ==
    ASSUME Good
    PROVE  /\ \A s \in Shells : Dispatching(s) => PutcTarget = s
           /\ work \in {"flush", "boot"} => PutcTarget = Uart
<1>1. \A s \in Shells : Dispatching(s) => PutcTarget = s
  BY ShellsAssumption DEF Good, Exclusion, PutcTarget
<1>2. ASSUME work \in {"flush", "boot"}, active # Nobody PROVE FALSE
  <2>1. active \in Shells /\ Dispatching(active)
    BY <1>2 DEF Good, ControlOK, Exclusion
  <2>2. InHandler(active)
    BY <2>1 DEF Dispatching, InHandler
  <2>3. ioLock = active
    BY <2>1, <2>2 DEF Good, Exclusion
  <2>4. CASE work = "flush"
    BY <2>1, <2>3, <2>4, ShellsAssumption DEF Good, Exclusion
  <2>5. CASE work = "boot"
    BY <2>1, <2>2, <2>5 DEF Good, Exclusion, Up, InHandler
  <2> QED
    BY <2>4, <2>5, <1>2
<1> QED
  BY <1>1, <1>2 DEF PutcTarget

\* An event of a body or of the ring, numbered as the last of its history.
LEMMA NewEventBelongs ==
    ASSUME HistoryOK, NEW home \in Shells, evs' = Append(evs, home)
    PROVE  /\ Len(evs') \in Nat
           /\ Belongs([what |-> "event", n |-> Len(evs')], home, cmds', evs')
<1>1. /\ Len(evs) \in Nat
      /\ evs' \in Seq(Shells) /\ Len(evs') = Len(evs) + 1
      /\ evs'[Len(evs) + 1] = home
  BY AppendProperties, LenProperties DEF HistoryOK
<1>2. Len(evs') \in DOMAIN evs' /\ evs'[Len(evs')] = home
  BY <1>1, LenProperties
<1> QED
  BY <1>1, <1>2 DEF Belongs

LEMMA PlacedOpen ==
    ASSUME Good, Placed, NEW s \in Shells, OpenEvent(s) \/ OpenAnswer(s)
    PROVE  Placed'
<1>1. [Next]_vars /\ UNCHANGED <<cmds, cmd, work>> /\ Dispatching(s)
  BY DEF Next, Handler, OpenEvent, OpenAnswer, lockVars, Dispatching
<1>2. PutcTarget = s /\ s # WorkQueue /\ WorkQueue \in Threads /\ s \in Threads
  BY <1>1, TargetOfWriter, ShellsAssumption DEF Threads
<1>3. HistoryOK /\ line \in [Threads -> Lines]
  BY DEF Good, OutputOK
<1>4. ASSUME NEW l \in Lines, OpenLine(s, l), Belongs(l, s, cmds', evs'), Threaded'
      PROVE  Placed'
  <2>1. console' = Written(l, "begin") /\ Belongs(l, PutcTarget, cmds', evs')
    BY <1>2, <1>4 DEF OpenLine
  <2>2. \A t \in Shells : \A k \in DOMAIN console'[t] :
            Belongs(console'[t][k].line, t, cmds', evs')
    BY <1>1, <2>1, PartBelongs
  <2>3. \A i \in DOMAIN cmds' : AnsweredOnce(i)'
    BY <1>1, <2>1, PartAnswersNone
  <2> QED
    BY <1>4, <2>2, <2>3 DEF Placed
<1>5. ASSUME NEW l \in Lines, OpenLine(s, l)
      PROVE  /\ line'[s] = l /\ line'[WorkQueue] = line[WorkQueue]
             /\ \A t \in Shells : t # s => line'[t] = line[t]
  BY <1>2, <1>3, <1>5 DEF OpenLine, Threads
<1>6. CASE OpenEvent(s)
  <2> DEFINE l == [what |-> "event", n |-> Len(evs')]
  <2>1. evs' = Append(evs, s) /\ OpenLine(s, l) /\ Goto(s, "event") /\ pc[s] = "body"
    BY <1>6 DEF OpenEvent, Event
  <2>2. l \in Lines /\ Belongs(l, s, cmds', evs')
    BY <1>3, <2>1, NewEventBelongs, LinesTyped
  <2>3. Threaded'
    BY <1>1, <1>5, <2>1, <2>2, ThreadedMoves
  <2> QED
    BY <1>4, <2>1, <2>2, <2>3
<1>7. CASE OpenAnswer(s)
  <2>1. /\ OpenLine(s, Answer(cmd[s])) /\ Goto(s, "answer")
        /\ pc[s] \in {"body", "resumed"} /\ evs' = evs
    BY <1>7 DEF OpenAnswer, Answer
  <2>2. cmd[s] \in DOMAIN cmds /\ cmds[cmd[s]].shell = s
    BY <2>1 DEF Placed, Threaded, OwnCommand
  <2>3. Answer(cmd[s]) \in Lines
    <3>1. cmd[s] \in Nat
      BY <1>3, <2>2, LenProperties DEF HistoryOK
    <3> QED
      BY <3>1, LinesTyped DEF Answer
  <2>4. Belongs(Answer(cmd[s]), s, cmds', evs')
    BY <1>1, <2>2 DEF Belongs, Answer
  <2>5. Threaded'
    BY <1>1, <1>5, <2>1, <2>3, ThreadedMoves
  <2> QED
    BY <1>4, <2>1, <2>3, <2>4, <2>5
<1> QED
  BY <1>6, <1>7

LEMMA PlacedEndEvent ==
    ASSUME Good, Framing, Placed, NEW s \in Shells, EndEvent(s)
    PROVE  Placed'
<1>1. /\ [Next]_vars /\ UNCHANGED <<cmds, cmd, work, evs>> /\ pc[s] = "event"
      /\ EndLine(s) /\ Goto(s, "body")
  BY DEF Next, Handler, EndEvent
<1>2. s # WorkQueue /\ WorkQueue \in Threads /\ s \in Threads /\ Writes(s)
  BY <1>1, ShellsAssumption DEF Threads, Writes
<1>3. line[s] \in Lines /\ line[s].what = "event"
  BY <1>1, <1>2 DEF Good, OutputOK, Placed, Threaded, OwnLine
<1>4. Belongs(line[s], PutcTarget, cmds', evs')
  BY <1>1, <1>2, BegunBelongs
<1>5. console' = Written(line[s], "end")
  BY <1>1 DEF EndLine
<1>6. \A t \in Shells : \A k \in DOMAIN console'[t] :
          Belongs(console'[t][k].line, t, cmds', evs')
  BY <1>1, <1>3, <1>4, <1>5, PartBelongs
<1>7. \A i \in DOMAIN cmds' : AnsweredOnce(i)'
  BY <1>1, <1>3, <1>5, PartAnswersNone
<1>8. Threaded'
  <2>1. /\ line'[WorkQueue] = line[WorkQueue]
        /\ \A t \in Shells : t # s => line'[t] = line[t]
    BY <1>1, <1>2 DEF EndLine, Good, OutputOK, Threads
  <2> QED
    BY <1>1, <2>1, ThreadedMoves
<1> QED
  BY <1>6, <1>7, <1>8 DEF Placed

\* The one step that answers a command.
LEMMA PlacedEndAnswer ==
    ASSUME Good, Framing, Placed, NEW s \in Shells, EndAnswer(s)
    PROVE  Placed'
<1> DEFINE i0 == cmd[s]
           part == [line |-> Answer(i0), part |-> "end"]
<1>1. /\ [Next]_vars /\ UNCHANGED <<cmd, work, evs>> /\ pc[s] = "answer"
      /\ EndLine(s) /\ Goto(s, "answered") /\ Answering(s) /\ Dispatching(s)
  BY DEF Next, Handler, EndAnswer, Answering, Dispatching
<1>2. s # WorkQueue /\ WorkQueue \in Threads /\ s \in Threads /\ Writes(s)
  BY <1>1, ShellsAssumption DEF Threads, Writes
<1>3. PutcTarget = s
  BY <1>1, TargetOfWriter
<1>4. /\ line[s] \in Lines /\ line[s] = Answer(i0)
      /\ i0 \in DOMAIN cmds /\ cmds[i0].shell = s /\ cmds[i0].left = "open"
  BY <1>1, <1>2 DEF Good, OutputOK, Placed, Threaded, OwnLine, OwnCommand
<1>5. /\ DOMAIN cmds' = DOMAIN cmds
      /\ \A i \in DOMAIN cmds :
             /\ cmds'[i].shell = cmds[i].shell
             /\ cmds'[i].left = IF i = i0 THEN "answered" ELSE cmds[i].left
  BY <1>1, AnsweringKeeps DEF Good
<1>6. console' = Written(Answer(i0), "end")
  BY <1>1, <1>4 DEF EndLine
<1>7. \A t \in Shells : \A k \in DOMAIN console'[t] :
          Belongs(console'[t][k].line, t, cmds', evs')
  <2>1. Belongs(Answer(i0), PutcTarget, cmds', evs')
    BY <1>3, <1>4, <1>5 DEF Belongs, Answer
  <2> QED
    BY <1>1, <1>4, <1>6, <2>1, PartBelongs
<1>8. ASSUME NEW i \in DOMAIN cmds' PROVE AnsweredOnce(i)'
  <2>1. /\ console \in [Shells -> Seq(Output)] /\ part \in Output
        /\ \A t \in Shells : console'[t] =
               IF t = s THEN Append(console[t], part) ELSE console[t]
    BY <1>3, <1>4, <1>6, WrittenType DEF Good, OutputOK, Output
  <2>2. cmds[i].shell \in Shells
    <3>1. cmds \in Seq(Command) /\ i \in 1 .. Len(cmds)
      BY <1>5, LenProperties DEF Good, HistoryOK
    <3>2. cmds[i] \in Command
      BY <3>1, ElementOfSeq
    <3> QED
      BY <3>2 DEF Command
  <2>3. AnsweredOnce(i)
    BY <1>5 DEF Placed
  <2>4. CASE i = i0
    <3>1. EndsOf(console[s], i0) = {}
      BY <1>4, <2>3, <2>4 DEF AnsweredOnce
    <3>2. EndsOf(console'[s], i0) = {Len(console[s]) + 1}
      <4> HIDE DEF part
      <4>1. console'[s] = Append(console[s], part) /\ console[s] \in Seq(Output)
        BY <2>1
      <4> QED
        BY <2>1, <4>1, <3>1, EndsAppended DEF part
    <3>3. cmds'[i].shell = s /\ cmds'[i].left = "answered"
      BY <1>4, <1>5, <2>4
    <3>4. EndsOf(console'[cmds'[i].shell], i) = {Len(console[s]) + 1}
      BY <2>4, <3>2, <3>3
    <3> QED
      BY <3>3, <3>4 DEF AnsweredOnce
  <2>5. CASE i # i0
    <3>1. part # [line |-> Answer(i), part |-> "end"]
      BY <2>5 DEF Answer
    <3>2. EndsOf(console'[cmds[i].shell], i) = EndsOf(console[cmds[i].shell], i)
      <4> HIDE DEF part
      <4> QED
        BY <2>1, <2>2, <3>1, EndsAppended
    <3>3. cmds'[i].shell = cmds[i].shell /\ cmds'[i].left = cmds[i].left
      BY <1>5, <2>5
    <3> QED
      BY <2>3, <3>2, <3>3 DEF AnsweredOnce
  <2> QED
    BY <2>4, <2>5
<1>9. Threaded'
  <2>1. /\ line'[WorkQueue] = line[WorkQueue]
        /\ \A t \in Shells : t # s => line'[t] = line[t]
    BY <1>1, <1>2 DEF EndLine, Good, OutputOK, Threads
  <2>2. /\ pc'[s] = "answered"
        /\ \A t \in Shells : t # s => pc'[t] = pc[t]
    BY <1>1 DEF Goto, Good, ControlOK
  <2>3. ASSUME NEW t \in Shells PROVE OwnCommand(t)' /\ OwnLine(t)'
    <3>1. OwnCommand(t) /\ OwnLine(t)
      BY DEF Placed, Threaded
    <3>2. CASE t = s
      BY <1>1, <1>4, <1>5, <2>2, <3>2 DEF OwnCommand, OwnLine
    <3>3. CASE t # s
      <4>1. pc[t] # "idle" => cmd[t] # i0
        BY <1>4, <3>1, <3>3 DEF OwnCommand
      <4>2. OwnCommand(t)'
        BY <1>1, <1>5, <2>2, <3>1, <3>3, <4>1 DEF OwnCommand
      <4>3. OwnLine(t)'
        BY <1>1, <2>1, <2>2, <3>1, <3>3 DEF OwnLine, Answer
      <4> QED
        BY <4>2, <4>3
    <3> QED
      BY <3>2, <3>3
  <2> QED
    BY <1>1, <2>1, <2>3 DEF Placed, Threaded
<1> QED
  BY <1>5, <1>7, <1>8, <1>9 DEF Placed

\* The boot, the work item and the interrupts.
LEMMA PlacedWork ==
    ASSUME Good, Framing, Placed, Work \/ LockWork \/ Interrupt
    PROVE  Placed'
<1>1. [Next]_vars /\ UNCHANGED <<cmds, cmd, pc>>
  BY DEF Next, Work, OpenReady, EndReady, StartWork, FlushEvent, EndFlushed,
         UnlockWork, LockWork, Interrupt
<1>2. /\ WorkQueue \in Threads /\ WorkQueue \notin Shells /\ Uart \in Shells
      /\ boots \in Nat /\ HistoryOK /\ line \in [Threads -> Lines]
  BY ShellsAssumption, BoundsAssumption DEF Threads, Good, ControlOK, OutputOK
<1>3. ASSUME \A t \in Shells : line'[t] = line[t],
             work' \in {"ready", "line"} => line'[WorkQueue].what # "answer"
      PROVE  Threaded'
  BY <1>1, <1>3 DEF Placed, Threaded, OwnCommand, OwnLine, Answer
<1>4. CASE OpenReady \/ FlushEvent
  <2>1. PICK l \in Lines : /\ OpenLine(WorkQueue, l) /\ l.what # "answer"
                           /\ Belongs(l, Uart, cmds', evs')
    <3>1. CASE OpenReady
      <4>1. OpenLine(WorkQueue, [what |-> "ready", n |-> boots])
        BY <3>1 DEF OpenReady
      <4>2. Belongs([what |-> "ready", n |-> boots], Uart, cmds', evs')
        BY DEF Belongs
      <4> QED
        BY <1>2, <4>1, <4>2, LinesTyped
    <3>2. CASE FlushEvent
      <4>1. evs' = Append(evs, Uart)
            /\ OpenLine(WorkQueue, [what |-> "event", n |-> Len(evs')])
        BY <3>2 DEF FlushEvent
      <4>2. /\ Len(evs') \in Nat
            /\ Belongs([what |-> "event", n |-> Len(evs')], Uart, cmds', evs')
        BY <1>2, <4>1, NewEventBelongs
      <4> QED
        BY <4>1, <4>2, LinesTyped
    <3> QED
      BY <1>4, <3>1, <3>2
  <2>2. PutcTarget = Uart
    BY <1>4, TargetOfWriter DEF OpenReady, FlushEvent
  <2>3. console' = Written(l, "begin")
    BY <2>1 DEF OpenLine
  <2>4. \A t \in Shells : \A k \in DOMAIN console'[t] :
            Belongs(console'[t][k].line, t, cmds', evs')
    BY <1>1, <2>1, <2>2, <2>3, PartBelongs
  <2>5. \A i \in DOMAIN cmds' : AnsweredOnce(i)'
    BY <1>1, <2>3, PartAnswersNone
  <2>6. Threaded'
    BY <1>2, <1>3, <2>1 DEF OpenLine, Threads
  <2> QED
    BY <2>4, <2>5, <2>6 DEF Placed
<1>5. CASE EndReady \/ EndFlushed
  <2>1. /\ work \in {"ready", "line"} /\ work' \notin {"ready", "line"}
        /\ EndLine(WorkQueue) /\ evs' = evs
    BY <1>5 DEF EndReady, EndFlushed
  <2>2. line[WorkQueue] \in Lines /\ line[WorkQueue].what # "answer"
    BY <1>2, <2>1 DEF Placed, Threaded
  <2>3. Belongs(line[WorkQueue], PutcTarget, cmds', evs')
    BY <1>1, <1>2, <2>1, BegunBelongs DEF Writes
  <2>4. console' = Written(line[WorkQueue], "end")
    BY <2>1 DEF EndLine
  <2>5. \A t \in Shells : \A k \in DOMAIN console'[t] :
            Belongs(console'[t][k].line, t, cmds', evs')
    BY <1>1, <2>2, <2>3, <2>4, PartBelongs
  <2>6. \A i \in DOMAIN cmds' : AnsweredOnce(i)'
    BY <1>1, <2>2, <2>4, PartAnswersNone
  <2>7. Threaded'
    BY <1>2, <1>3, <2>1 DEF EndLine, Threads
  <2> QED
    BY <2>5, <2>6, <2>7 DEF Placed
<1>6. CASE StartWork \/ UnlockWork \/ LockWork \/ Interrupt
  <2>1. /\ UNCHANGED <<console, line>>
        /\ work' \in {"ready", "line"} => work \in {"ready", "line"}
    BY <1>6 DEF StartWork, UnlockWork, LockWork, Interrupt
  <2>2. Threaded'
    BY <1>3, <2>1 DEF Placed, Threaded
  <2> QED
    BY <1>1, <2>1, <2>2, PlacedQuiet
<1> QED
  BY <1>4, <1>5, <1>6 DEF Work

LEMMA PlacedNext == Good /\ Framing /\ Placed /\ [Next]_vars => Placed'
<1> SUFFICES ASSUME Good, Framing, Placed, [Next]_vars PROVE Placed'
  OBVIOUS
<1>1. CASE Interrupt \/ Work \/ LockWork
  BY <1>1, PlacedWork
<1>2. ASSUME NEW s \in Shells, TypeCommand(s) \/ LockIo(s) \/ Handler(s)
      PROVE  Placed'
  BY <1>2, PlacedTyping, PlacedSilent, PlacedOpen, PlacedEndEvent, PlacedEndAnswer
     DEF Handler
<1>3. CASE UNCHANGED vars
  <2>1. UNCHANGED <<console, cmds, cmd, pc, line, work>>
    BY <1>3 DEF vars
  <2>2. Threaded'
    BY <2>1 DEF Placed, Threaded, OwnCommand, OwnLine, Answer
  <2> QED
    BY <2>1, <2>2, PlacedQuiet
<1> QED
  BY <1>1, <1>2, <1>3 DEF Next

(***************************************************************************)
(* Every line is on its own shell and every command that was answered was  *)
(* answered there, once, whichever shells run commands at the same time,   *)
(* whatever interrupts raise and wherever a reboot cuts them off.          *)
(***************************************************************************)
THEOREM EveryLineAtHome == Spec => []LinesAtHome
<1>1. Init => Good /\ Framing /\ Placed
  BY GoodInit, FramingInit, PlacedInit
<1>2. Good /\ Framing /\ Placed /\ [Next]_vars => Good' /\ Framing' /\ Placed'
  BY GoodNext, FramingNext, PlacedNext
<1>3. Good /\ Placed => LinesAtHome
  BY PlacedAtHome
<1> QED
  BY <1>1, <1>2, <1>3, PTL DEF Spec
==============================================================================
