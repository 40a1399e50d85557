---------------------------- MODULE ShellBackend ----------------------------
(***************************************************************************)
(* zephyr/shell_backend.c: riglink under Zephyr's shell.  Each shell       *)
(* instance has a thread that runs rig_sub_handler() for the commands      *)
(* typed there; a work item on the system work queue drains the event ring *)
(* again and again.  rig_io_lock serialises the two, and active_shell says *)
(* where rig_putc() writes.                                                *)
(*                                                                         *)
(* A line is known by what it is and a serial number; it is written in two *)
(* parts, between which every other thread may run.  The capture and the   *)
(* contents of the lines are Dispatch's matter, the ring is EventRing's:   *)
(* here it is the number of records queued.                                *)
(***************************************************************************)
EXTENDS Integers, Sequences

CONSTANTS Shells,       \* the shell instances
          Uart,         \* the one of shell_backend_uart_get_ptr()
          Nobody,       \* no thread, no shell: NULL
          WorkQueue,    \* the system work queue's thread
          Registered,   \* names of the registered commands, see Name below
          MaxArgs,      \* RIG_MAX_ARGS
          BodyWaits,    \* some body waits for work of the system work queue
          MaxCommands,  \* bound: commands typed
          MaxEvents,    \* bound: events raised, in bodies and by interrupts
          MaxBoots      \* bound: boots

\* A registered name, with or without the prefix "rig.".  What the host sends
\* for it, after the root command, is the base.
Name == [rig : BOOLEAN, base : {n.base : n \in Registered}]

ASSUME ShellsAssumption == /\ Uart \in Shells
                           /\ Nobody \notin Shells
                           /\ WorkQueue \notin Shells \union {Nobody}
ASSUME NamesAssumption  == /\ Registered \subseteq Name
                           /\ BodyWaits \in BOOLEAN
ASSUME BoundsAssumption == /\ MaxArgs \in Nat
                           /\ MaxCommands \in Nat
                           /\ MaxEvents \in Nat
                           /\ MaxBoots \in Nat \ {0}

VARIABLES
    ioLock,      \* the holder of rig_io_lock
    active,      \* active_shell
    queued,      \* records in the event ring
    console,     \* per shell: what was written to it
    pc,          \* per shell: where its thread is
    cmd,         \* per shell: the command it runs, an index of cmds
    work,        \* where the work item is
    line,        \* per thread: the line it has begun
    boots,       \* boots so far
    cmds,        \* history: the commands typed
    evs,         \* history: the event lines, and where each belongs
    raised       \* events enqueued by interrupts

lockVars == <<ioLock, active>>
vars     == <<lockVars, queued, console, pc, cmd, work, line, boots, cmds, evs,
              raised>>

NoLine == [what |-> "none", n |-> 0]

Init == /\ ioLock = Nobody
        /\ active = Nobody
        /\ queued = 0
        /\ console = [s \in Shells |-> <<>>]
        /\ pc = [s \in Shells |-> "idle"]
        /\ cmd = [s \in Shells |-> 0]
        /\ work = "boot"
        /\ line = [t \in Shells \union {WorkQueue} |-> NoLine]
        /\ boots = 1
        /\ cmds = <<>>
        /\ evs = <<>>
        /\ raised = 0

-----------------------------------------------------------------------------
(* rig_putc() asks for its target at every byte.                           *)

PutcTarget == IF active # Nobody THEN active ELSE Uart

Written(l, part) ==
    [console EXCEPT ![PutcTarget] = Append(@, [line |-> l, part |-> part])]

OpenLine(t, l) == /\ console' = Written(l, "begin")
                  /\ line' = [line EXCEPT ![t] = l]

EndLine(t) == /\ console' = Written(line[t], "end")
              /\ line' = [line EXCEPT ![t] = NoLine]

Event(home) == /\ Len(evs) < MaxEvents
               /\ evs' = Append(evs, home)

Goto(s, at) == pc' = [pc EXCEPT ![s] = at]

-----------------------------------------------------------------------------
(* rig_shell_init(): the "ready" line, then the work item is scheduled.    *)
(* The kernel is still starting: no shell runs a command before its end.   *)

OpenReady == /\ work = "boot"
             /\ OpenLine(WorkQueue, [what |-> "ready", n |-> boots])
             /\ work' = "ready"
             /\ UNCHANGED <<lockVars, queued, pc, cmd, boots, cmds, evs, raised>>

EndReady == /\ work = "ready"
            /\ EndLine(WorkQueue)
            /\ work' = "scheduled"
            /\ UNCHANGED <<lockVars, queued, pc, cmd, boots, cmds, evs, raised>>

Up == work \notin {"boot", "ready"}

\* RIG_EMIT_EVENT_FROM_ISR, at any moment.
Interrupt == /\ raised < MaxEvents
             /\ raised' = raised + 1
             /\ queued' = queued + 1
             /\ UNCHANGED <<lockVars, console, pc, cmd, work, line, boots, cmds,
                            evs>>

-----------------------------------------------------------------------------
(* rig_sub_handler() on the thread of shell s.                             *)

\* The names that rig_dyn_get() offers: the prefix is stripped.
Offered == {n.base : n \in Registered}

Plain(base)    == [rig |-> FALSE, base |-> base]
Prefixed(base) == [rig |-> TRUE, base |-> base]

\* Fault: the prefixed name is tried first.
FindPrefixedFirst(base) ==
    IF Prefixed(base) \in Registered THEN Prefixed(base) ELSE Plain(base)

\* argv[0] as it is, and with the prefix on a miss.
Find(base) == IF Plain(base) \in Registered THEN Plain(base) ELSE Prefixed(base)

\* Arguments beyond RIG_MAX_ARGS are dropped.
Passed(argc) == IF argc > MaxArgs THEN MaxArgs ELSE argc

\* A command that is offered was typed (the shell refuses any other), for
\* some registered name.
TypeCommand(s) ==
    /\ Up
    /\ pc[s] = "idle"
    /\ Len(cmds) < MaxCommands
    /\ \E asked \in Registered, argc \in 0 .. MaxArgs + 1 :
           /\ asked.base \in Offered
           /\ cmds' = Append(cmds, [shell |-> s, asked |-> asked,
                                    ran |-> Find(asked.base), argc |-> argc,
                                    got |-> Passed(argc), left |-> "open"])
    /\ cmd' = [cmd EXCEPT ![s] = Len(cmds')]
    /\ Goto(s, "lock")
    /\ UNCHANGED <<lockVars, queued, console, work, line, boots, evs, raised>>

LockIo(s) == /\ pc[s] = "lock"
             /\ ioLock = Nobody
             /\ ioLock' = s
             /\ Goto(s, "locked")
             /\ UNCHANGED <<active, queued, console, cmd, work, line, boots, cmds,
                            evs, raised>>

Activate(s) == /\ pc[s] = "locked"
               /\ active' = s
               /\ Goto(s, "body")
               /\ UNCHANGED <<ioLock, queued, console, cmd, work, line, boots,
                              cmds, evs, raised>>

\* rig_dispatch(): the body may print events and wait, then there is one answer.
OpenEvent(s) == /\ pc[s] = "body"
                /\ Event(s)
                /\ OpenLine(s, [what |-> "event", n |-> Len(evs')])
                /\ Goto(s, "event")
                /\ UNCHANGED <<lockVars, queued, cmd, work, boots, cmds, raised>>

EndEvent(s) == /\ pc[s] = "event"
               /\ EndLine(s)
               /\ Goto(s, "body")
               /\ UNCHANGED <<lockVars, queued, cmd, work, boots, cmds, evs,
                              raised>>

AskWork(s) == /\ BodyWaits
              /\ pc[s] = "body"
              /\ Goto(s, "waiting")
              /\ UNCHANGED <<lockVars, queued, console, cmd, work, line, boots,
                             cmds, evs, raised>>

\* The work queue is one thread: it does other work unless it is in ours.  A
\* body is a function that ends: it waits at most once.
WorkDone(s) == /\ pc[s] = "waiting"
               /\ work = "scheduled"
               /\ Goto(s, "resumed")
               /\ UNCHANGED <<lockVars, queued, console, cmd, work, line, boots,
                              cmds, evs, raised>>

OpenAnswer(s) == /\ pc[s] \in {"body", "resumed"}
                 /\ OpenLine(s, [what |-> "answer", n |-> cmd[s]])
                 /\ Goto(s, "answer")
                 /\ UNCHANGED <<lockVars, queued, cmd, work, boots, cmds, evs,
                                raised>>

EndAnswer(s) == /\ pc[s] = "answer"
                /\ EndLine(s)
                /\ Goto(s, "answered")
                /\ cmds' = [cmds EXCEPT ![cmd[s]].left = "answered"]
                /\ UNCHANGED <<lockVars, queued, cmd, work, boots, evs, raised>>

\* rig_reset() reboots, with the lock held, unless the application has its own.
Reboot(s) == /\ pc[s] = "answered"
             /\ cmds[cmd[s]].ran = Prefixed("reset")
             /\ boots < MaxBoots
             /\ boots' = boots + 1
             /\ ioLock' = Nobody
             /\ active' = Nobody
             /\ queued' = 0
             /\ pc' = [t \in Shells |-> "idle"]
             /\ cmd' = [t \in Shells |-> 0]
             /\ work' = "boot"
             /\ UNCHANGED <<console, line, cmds, evs, raised>>

\* Fault: active_shell is not cleared.
DeactivateKeeps(s) == /\ pc[s] = "answered"
                      /\ Goto(s, "unlock")
                      /\ UNCHANGED <<lockVars, queued, console, cmd, work, line,
                                     boots, cmds, evs, raised>>

\* Fault: the lock is released before active_shell is cleared.
DeactivateUnlocked(s) == /\ pc[s] = "answered"
                         /\ ioLock' = Nobody
                         /\ Goto(s, "unlock")
                         /\ UNCHANGED <<active, queued, console, cmd, work, line,
                                        boots, cmds, evs, raised>>

Deactivate(s) == /\ pc[s] = "answered"
                 /\ active' = Nobody
                 /\ Goto(s, "unlock")
                 /\ UNCHANGED <<ioLock, queued, console, cmd, work, line, boots,
                                cmds, evs, raised>>

UnlockIo(s) == /\ pc[s] = "unlock"
               /\ ioLock' = Nobody
               /\ Goto(s, "idle")
               /\ cmd' = [cmd EXCEPT ![s] = 0]
               /\ UNCHANGED <<active, queued, console, work, line, boots, cmds,
                              evs, raised>>

-----------------------------------------------------------------------------
(* rig_evt_work_fn() on the system work queue.                             *)

StartWork == /\ work = "scheduled"
             /\ work' = "lock"
             /\ UNCHANGED <<lockVars, queued, console, pc, cmd, line, boots, cmds,
                            evs, raised>>

\* Fault: the ring is flushed without the lock.
LockWorkFree == /\ work = "lock"
                /\ work' = "flush"
                /\ UNCHANGED <<lockVars, queued, console, pc, cmd, line, boots,
                               cmds, evs, raised>>

LockWork == /\ work = "lock"
            /\ ioLock = Nobody
            /\ ioLock' = WorkQueue
            /\ work' = "flush"
            /\ UNCHANGED <<active, queued, console, pc, cmd, line, boots, cmds,
                           evs, raised>>

FlushEvent == /\ work = "flush"
              /\ queued > 0
              /\ queued' = queued - 1
              /\ evs' = Append(evs, Uart)
              /\ OpenLine(WorkQueue, [what |-> "event", n |-> Len(evs')])
              /\ work' = "line"
              /\ UNCHANGED <<lockVars, pc, cmd, boots, cmds, raised>>

EndFlushed == /\ work = "line"
              /\ EndLine(WorkQueue)
              /\ work' = "flush"
              /\ UNCHANGED <<lockVars, queued, pc, cmd, boots, cmds, evs, raised>>

\* Fault: the lock is kept when there was nothing to flush.
UnlockWorkKeeps == /\ work = "flush"
                   /\ queued = 0
                   /\ work' = "scheduled"
                   /\ UNCHANGED <<lockVars, queued, console, pc, cmd, line, boots,
                                  cmds, evs, raised>>

\* Fault: the work item is not scheduled again.
UnlockWorkOnce == /\ work = "flush"
                  /\ queued = 0
                  /\ ioLock' = Nobody
                  /\ work' = "done"
                  /\ UNCHANGED <<active, queued, console, pc, cmd, line, boots,
                                 cmds, evs, raised>>

UnlockWork == /\ work = "flush"
              /\ queued = 0
              /\ ioLock' = Nobody
              /\ work' = "scheduled"
              /\ UNCHANGED <<active, queued, console, pc, cmd, line, boots, cmds,
                             evs, raised>>

-----------------------------------------------------------------------------
Handler(s) == \/ Activate(s) \/ OpenEvent(s) \/ EndEvent(s)
              \/ AskWork(s) \/ WorkDone(s)
              \/ OpenAnswer(s) \/ EndAnswer(s) \/ Reboot(s)
              \/ Deactivate(s) \/ UnlockIo(s)

Work == \/ OpenReady \/ EndReady
        \/ StartWork \/ FlushEvent \/ EndFlushed \/ UnlockWork

Next == \/ Interrupt
        \/ Work \/ LockWork
        \/ \E s \in Shells : TypeCommand(s) \/ LockIo(s) \/ Handler(s)

Spec == Init /\ [][Next]_vars

\* Threads are scheduled, and k_mutex_unlock() hands the mutex to a thread
\* that waits for it: who waits is not passed over forever.  Nobody has to
\* type a command, and interrupts owe nothing.
FairSpec == /\ Spec
            /\ WF_vars(Work) /\ SF_vars(LockWork)
            /\ \A s \in Shells : WF_vars(Handler(s)) /\ SF_vars(LockIo(s))

-----------------------------------------------------------------------------
Threads == Shells \union {WorkQueue}

Lines == [what : {"ready", "event", "answer", "none"}, n : Nat]

Command == [shell : Shells, asked : Registered, ran : Name, argc : Nat,
            got : 0 .. MaxArgs, left : {"open", "answered"}]

InHandler(s) == pc[s] \notin {"idle", "lock"}

\* Types, and what the lock protects: its holder is the one thread in its
\* critical section, and active_shell is set by nobody else.
TypeOK == /\ ioLock \in Threads \union {Nobody}
          /\ active \in Shells \union {Nobody}
          /\ queued \in Nat /\ raised \in 0 .. MaxEvents
          /\ console \in [Shells -> Seq([line : Lines, part : {"begin", "end"}])]
          /\ pc \in [Shells -> {"idle", "lock", "locked", "body", "event", "waiting",
                                "resumed", "answer", "answered", "unlock"}]
          /\ cmds \in Seq(Command)
          /\ cmd \in [Shells -> 0 .. Len(cmds)]
          /\ work \in {"boot", "ready", "scheduled", "lock", "flush", "line"}
          /\ line \in [Threads -> Lines]
          /\ boots \in 1 .. MaxBoots
          /\ evs \in Seq(Shells)
          /\ active # Nobody => ioLock = active

(***************************************************************************)
(* rig_io_lock "serialises event flushes against in-flight command output":*)
(* on every shell each line is ended before another begins.                *)
(***************************************************************************)
Unspliced(out) ==
    \A k \in DOMAIN out :
        IF out[k].part = "begin"
        THEN k > 1 => out[k - 1].part = "end"
        ELSE k > 1 /\ out[k - 1] = [line |-> out[k].line, part |-> "begin"]

LinesWhole == \A s \in Shells : Unspliced(console[s])

(***************************************************************************)
(* Why lines stay whole: whoever is past the lock holds it, active_shell   *)
(* is set from the start of a dispatch to its end and not before the       *)
(* kernel is up, and so one thread at most is inside a line; that line is  *)
(* the last thing on the shell that rig_putc() writes to, and every other  *)
(* shell has none open.                                                    *)
(***************************************************************************)
Dispatching(s) ==
    pc[s] \in {"body", "event", "waiting", "resumed", "answer", "answered"}

Exclusion ==
    /\ \A s \in Shells : InHandler(s) => ioLock = s
    /\ \A s \in Shells : Dispatching(s) <=> active = s
    /\ work \in {"flush", "line"} => ioLock = WorkQueue
    /\ ~Up => \A s \in Shells : pc[s] = "idle"

Writes(t) == IF t = WorkQueue THEN work \in {"ready", "line"}
                              ELSE pc[t] \in {"event", "answer"}

Ended(out) == out = <<>> \/ out[Len(out)].part = "end"

Framing ==
    /\ LinesWhole
    /\ \A s \in Shells :
           Ended(console[s]) \/ (s = PutcTarget /\ \E t \in Threads : Writes(t))
    /\ \A t \in Threads : Writes(t) =>
           /\ console[PutcTarget] # <<>>
           /\ console[PutcTarget][Len(console[PutcTarget])]
                 = [line |-> line[t], part |-> "begin"]

(***************************************************************************)
(* Every line goes to its own shell: an answer, and the events of a body,  *)
(* to the shell where the command was typed, the events of interrupts and  *)
(* "ready" to the UART shell, whichever shell was active last; and each    *)
(* command that was left is answered by exactly one line.                  *)
(***************************************************************************)
Home(l) == CASE l.what = "answer" -> cmds[l.n].shell
             [] l.what = "event"  -> evs[l.n]
             [] l.what = "ready"  -> Uart

AnswersTo(i) ==
    {k \in DOMAIN console[cmds[i].shell] :
        console[cmds[i].shell][k] = [line |-> [what |-> "answer", n |-> i],
                                     part |-> "end"]}

LinesAtHome ==
    /\ \A s \in Shells : \A k \in DOMAIN console[s] : Home(console[s][k].line) = s
    /\ \A i \in DOMAIN cmds :
           IF cmds[i].left = "answered"
           THEN \E k \in AnswersTo(i) : AnswersTo(i) = {k}
           ELSE AnswersTo(i) = {}

(***************************************************************************)
(* A command reaches the registered command it names, unless the           *)
(* application registered one of the same name without the prefix, which   *)
(* then runs in its place.                                                 *)
(***************************************************************************)
Shadowed(name) == name.rig /\ Plain(name.base) \in Registered

Routed == \A i \in DOMAIN cmds :
              /\ cmds[i].ran \in Registered
              /\ cmds[i].ran = IF Shadowed(cmds[i].asked) THEN Plain(cmds[i].asked.base)
                                                          ELSE cmds[i].asked

(***************************************************************************)
(* Every command that is typed is left again, answered or by a reboot:     *)
(* the lock is given back on every way out, and neither the flush nor      *)
(* another shell's commands keep a command waiting forever.  There is one  *)
(* exception: a body that waits for work of the system work queue, while   *)
(* the work item keeps that queue waiting for the lock of the body.        *)
(***************************************************************************)
Stuck == work = "lock" /\ \E s \in Shells : pc[s] = "waiting"

EveryCommandEnds == \A s \in Shells : pc[s] # "idle" ~> pc[s] = "idle" \/ Stuck

(***************************************************************************)
(* Events raised by interrupts come out although commands hold the lock    *)
(* over whole bodies (or a reboot empties the ring), with that exception.  *)
(***************************************************************************)
EventsDrained == queued > 0 ~> queued = 0 \/ Stuck
=============================================================================
