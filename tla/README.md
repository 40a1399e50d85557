# riglink in TLA+

riglink is a small remote-call link between a microcontroller and a host.  The
device reads request lines, runs the C function that each names and prints one
line of JSON in answer; events and logs are lines of their own.  The host
library keeps a background thread that reads those lines and gives Python code
synchronous calls, events and a reset.

This directory models the parts of it where order, interruption and failure
matter, checks them with TLC on small instances and proves the most important
facts with TLAPS.  Paths below are those of the repository.

## 1. The system

| component | state | operations | works with |
|---|---|---|---|
| event ring (`src/riglink_io.c` 305-352) | a ring of `RIG_EVENT_QUEUE_DEPTH` records, head, tail, count, the loss counter | enqueue (interrupts), flush (pump) | the IRQ lock; event lines |
| capture (`riglink_io.c` 22-130) | fields and byte arena, four flags | reset, begin, store, end, replay | the trampolines, every `rig_emit_*` |
| output lines (`riglink_io.c` 132-303) | jcon's one session, `g_extra_active` | begin, emit, end; response, error, event, log | the capture, `rig_putc` |
| dispatch (`riglink_core.c`, `riglink_cmd.c`, the trampolines of `riglink.h`) | `rig__cmd_active`, the jump buffer | `rig_init`, `rig_run`, `rig_dispatch`, the built-ins, `RIG_ASSERT` | all of the above |
| pump, line assembly, tokenizer, parsers (`riglink_core.c`, `riglink_proto.c`, `riglink_pp.h`) | the line buffer, whether the pump runs | `rig_run`, feed, tokenize, parse | dispatch, the event ring, the host's encoder |
| registry (`riglink_cmd.c` 7-26) | an intrusive list | register, find, list | dispatch, the shell's lookup, the handshake |
| handshake (`device.py` 21-54, 192-219) | the signatures, the aliases of attributes | handshake, attribute, checked call | the registry, over the wire |
| shell backend (`zephyr/shell_backend.c`) | `rig_io_lock`, `active_shell`, a work item | handler, work function, init | dispatch, flush |
| Device proxy (`python/riglink/device.py`) | `_pending`, `_events` with `_evcond`, `_call_lock`, `_buf`, `_stop`, the reader thread | call, `write_line`, `expect_event`, drain, `reset`, `close`, the reader loop | the transport |
| transport (`transport.py`) | the port handle | read, write, reopen, `is_alive`, close | Device, the port |
| codec (`_wire.py`) | none | encode, classify | Device |
| pytest plugin (`pytest_plugin.py`) | the open devices, which modules were reset | the session's and the test's fixtures | Device |
| command line tool | none | | Device |

What is hard about it:

* **Interleaving.** Interrupts run between any two steps of the flush.  Output
  calls of other threads share jcon and the capture flag with the pump.  The
  reader thread, several callers, several waiters and a reset share one Device.
* **Failure.** `RIG_ASSERT` leaves a body by `longjmp`, with the capture armed.
  The device reboots in the middle of a line.  A USB port disappears with bytes
  in it.  A call times out and its answer comes later.  A byte of a line is
  damaged.  A reset raises for one of several ports.
* **Bounds.** The ring, the field array, the arena and the loss counter fill up.
  A line, a string or a number is too long for where it goes.
* **Ordering.** Events of a body precede its answer; the fields of the body,
  emitted before the response line is open, must be in it and nowhere else.
* **Agreement.** What the host quotes the device unquotes; the signature the host
  checks a call against is of the command that the device runs.

What makes each part correct is stated as the properties of section 4;
`PROJECT.json` lists the hazards, each at its line, with the properties that
cover it.

## 2. The modules

    EventChannel  <--implements--  EventRing       --- EventRing_proofs
                                   Dispatch        --- Dispatch_proofs
                                     DispatchShared
    Wire  <--EXTENDS--             Pump            --- Pump_proofs
                                   Registry        --- Registry_proofs
                                   ShellBackend    --- ShellBackend_proofs
                                   HostDevice      --- HostDevice_proofs
                                                       <--EXTENDS-- HostDelivery_proofs
                                   PytestPlugin    --- PytestPlugin_proofs

`MC_*.tla` and `MC_*.cfg` are the instances for TLC.  Operators whose comment
starts with `Fault:` are deliberate mistakes, each next to the definition it
could be confused with; nothing uses them in the specifications.  Replacing the
definition by the mistake makes TLC find a property violated, which is how each
property was tried (`PROJECT.json`, "mutants").

**EventChannel** is the promise of the event path: a lossy first-in first-out
queue that tells, with each event, how many were lost since the one before.

**EventRing** is `rig_io_event_enqueue()` and `rig_io_event_flush()`.  A step is
one critical section of the IRQ lock, or the stretch between two of them.  `pc`
is where the pump is: outside the flush, at the head of its loop, or between the
unlock and the end of the event line.  A record is its serial number, so that
order, loss and duplication can be seen; names and pairs do not matter to a
ring.  `enq` and `out` are history.

**Dispatch** is the device from a complete request line to its answer.  A step
is one library call (`rig_emit`, the begin or the end of a line, ...), made by one
thread.  `cap` is the record of the six statics of the capture, and the
operators on it (`ExtraReset`, `ExtraBegin`, `ExtraEnd`, `Stored`, `Replay`,
`Replayed`, `Suspended`, `Rearmed`) are the functions of `riglink_io.c`.  The output is
a sequence of tokens, `cur` since the last newline and `lines` before it; a
token is a sentinel or a JSON member.  `Take` chooses what kind of line came in:
what the tokenizer, the registry and the argument checks make of it.  `Body` is
whatever a C function may do: emit a field, open an event line and give it
pairs, log, fail an assertion, return.  `Flush` is `rig_io_event_flush()`: the begin of a
popped record's line, `_dropped` if events were lost before it, the pairs of the
record, each a `rig_emit` call of its own, and so into the capture if that were armed.
Which records there are is EventRing's; here any come, with any pairs of integers.

**DispatchShared** adds a use that Dispatch leaves out: events on another thread.

**Wire** is the request line from end to end, as operators without a state:
`EncodeToken` and `EncodeCall` of the host, then `Feed`, `Tokenize` and `Parse` of the device.
The tokenizer is a recursion over the characters with a mode that says what the next
one means; a parser gives the set of the values it accepts, which is empty
when the code refuses.

**Pump** gives Wire a state: `rig_init()`, `rig_deinit()` and `rig_run()`, over the
bytes of two request lines.  A call of `rig_run()` is the flush, a step for each
record, then one step that reads some number of bytes, up to the budget or the
end of a line, and handles the line.  How many bytes `rig_getc()` has is left open,
so a line comes in any pieces.  `answers` tells which request each answer is to;
the device does not know.  `var` is a variable under `RIG_EXPOSE_VAR`.

**Registry** is the list of commands with its links, what `rig.list` says of it, the
two lookups (`Find` of the poll backend, `FindTyped` of the shell) and, on the host,
the handshake's dictionary, the aliases of attributes and a checked call.  A
node is a `struct rig_cmd`, so that a repeated registration is possible.  `last` is
what the host did last and whom it reached.

**PytestPlugin** is `riglink_session` and `riglink_devices`: a step is one turn of their
loops over the ports.  For each port it keeps which tests have left their mark
on the device since it rebooted, and whose events are in the deque or still on
the wire.  A reset may be answered, go unanswered (which `reset()` swallows) or
raise.

**ShellBackend** is `zephyr/shell_backend.c`: a thread for each shell, which runs
`rig_sub_handler()` for what is typed there, and the work item on the system work
queue, which flushes the ring again and again.  A step is one side of
`rig_io_lock`, an assignment of `active_shell`, or the first or second half of an
output line; `console[s]` is what shell s was given, in such halves, so that a
spliced line, a line on the wrong shell and a missing one can all be seen.  The
contents of the lines are left to Dispatch, the ring is a count.

**HostDevice** is the Device proxy with its transport, a port that may
disappear, and the device as far as the host can tell.  A step is what a thread
does between two points at which others can be seen: one chunk for the reader,
one side of a lock, a queue or a condition for a caller.  `op[t]` says where
thread t is.  `OnLine` is the `on_line` callback as a thread of its own: the reader
starts it (`Tell`) and takes no step until it is done (`InCallback`), which is what
running on the reader's thread comes to.  Requests are numbered as they are written and an answer carries the
number of its request; the wire carries neither, so no action looks at them.
`connect()` is a wait for "ready" and the transaction of `rig.list`, so it is
among the behaviours as an expect and a call.

## 3. Abstractions, and why they are safe to make

* JSON text, names and values are not modelled: a member is a token, a field is
  a number with the bytes its name and value take in the arena.  Only sizes and
  identity matter to the capture.
* In `Dispatch` a blank or comment line takes part as a request with no answer.  `_dropped` is
  one of the fields, since a record may name a pair of its own so.  The pairs of a flushed
  record are fields without a string: `RIG_EMIT_EVENT_FROM_ISR` records integers and truths.
* `Dispatch` assumes what the API asks: `rig_emit` only in a body or between the begin and
  the end of an event, the values of an event do not themselves print, and one
  thread makes all output calls (`DispatchShared` shows what happens otherwise).
* In `Wire` text is a sequence of characters from a small alphabet with every one
  that the code looks at; the words "true" and "false" are characters, since
  they are only ever compared as a whole.  The eleven integer types are two widths,
  `Wide` for 64 bits and `Narrow` for less, each signed and unsigned; `char`, which takes the
  union of both ranges, is left out.  Floating point is `repr`
  and `strtod`, outside of this code, and is left out.
* In `Pump` an answer is its kind, its name and its values: how it is printed is
  Dispatch's.  The ring is a count.
* In `Registry` the host knows the shell's root (`shell_root`) exactly when the
  device has the shell.  Only the number of arguments is checked, not their
  Python types.
* In `PytestPlugin` a device that answers a reset has sent all that it had before, in
  order, so that the reader has filed it by then.
* In `ShellBackend` a line is two steps, though `rig_putc()` asks for its target at
  every byte: two are enough for anything to come between.  "ready" is printed
  before a shell can run a command, because `SYS_INIT` precedes the threads.  The
  shell offers the handler only names that `rig_dyn_get()` lists.  `BodyWaits`
  lets a body wait, once, for something else that runs on the system work queue.
* In `HostDevice` a line is whole or begun; a reboot may leave a `fragment`, the
  first part of a line that never ends, which spoils the next line.  A line that
  is joined from two parts is malformed (or taken for console output): either
  way it is not a response or an event.  A damaged line has a byte that is not
  UTF-8 behind its sentinel: `json.loads()` raises `UnicodeDecodeError`, which `classify()`
  does not catch (`_wire.py` 76-79) and which ends the reader thread.
* What the device prints while the host has no good handle on the port is lost.
  Requests in the device's own input survive a link that goes away, which is the
  worse case for the pairing of answers.
* A write to a dead port raises `ConnectionError`, and so does a read.  `_stop`
  is seen between two reads.  `join(timeout=1.0)` is taken to see the reader
  end: a read lasts 50 ms.  With a slow `on_line` callback it may give up after its
  second, and go on with two readers: that is not in the model, and one thread
  only, `Manager`, resets and closes.
* `NoticesDeath` says whether `is_alive()` tells a dead handle from a live one:
  the interface of `Transport` promises it, `SerialTransport` does not do it.
* Argument checks, the list of signatures, logs, console lines and the
  transcript are left out: they are read by nobody else or only grow.

## 4. What is checked

| run | question | bounds |
|---|---|---|
| `event_ring` | does the ring keep and report what it promises, and implement the channel | depth 3, loss counter up to 2, 8 events |
| `dispatch` | is every line framed and every answer exact, every event's line its own | 2 requests, 3 calls in a body, 3 pairs of a flushed record, 2 events, 2 fields |
| `dispatch_threads` | does a claim about shared output hold | as above with 1 request |
| `pump` | do calls get through as they were meant, and every line get its answer | 116 first lines, each with a second; buffer 12, strings 4, 2 arguments, 6 and 4 bits, 1 record in the ring, 2 calls of `rig_init()` |
| `registry` | does the list stay a list, and the host's picture of it right | 5 commands, 2 of one name, 2 of one alias, 1 that hides a built-in; 2 boots; with and without the shell |
| `shell` | do lines stay whole and at home, do commands find their function and end | 2 shells, 2 commands, 1 event of a body or an interrupt each, 2 boots, 3 commands registered, 2 of them of one name |
| `host_device` | do operations end, does a reset recover, what ends the reader | 2 threads and a callback, 2 operations, 1 reboot, 1 death of the link, 1 damaged line |
| `host_events` | do answers stay with their calls, are events kept and waiters woken | 2 threads, 1 reboot, 3 operations with 1 event or 2 with 2 |
| `plugin` | what can one test see of another, which ports stay open | 2 ports, 3 tests of 2 modules with any scopes, 2 configured scopes |
| `host_late_answer`, `host_stale_ready`, `host_serial` | three claims of the documents | the smallest that show it |

*Why the bounds are enough.*  With depth 3 and 8 events the indices go round the
array more than twice, the ring overflows several times in a row and the loss
counter reaches its limit and stays there; a depth of 1 or 2 makes some slots
coincide, more adds nothing new to a ring.  Two fields, one without and one with
a string, two slots and five bytes make the capture overflow on the array, on a
name and on a value, and fill both exactly; two requests are an abandoned
command and its victim.  In ShellBackend two shells and the work item are three
rivals for the lock, with a command on each shell, or two on one, around a flush
and a reboot.  In HostDevice the hazards of calls and events need two operations that
overlap and one that follows, hence three; a second event is of use to two that wait, so
`host_events` leaves out that event along with a third operation (`ThirdOrSecond`), which
would more than double its states; one reboot, one death and one damaged
line put each failure between any two steps, of two operations that overlap or
follow each other.  In Pump the first line is one of every string of up to two
of the characters that matter, integers on both sides of each limit of each
width, too few and too many arguments, lines at and over the size of the buffer
and every error of the tokenizer; the second one shows what the first has left
behind, in the buffer and in the variable.  In Registry five nodes hold each
kind of collision once.  In PytestPlugin a third test can return to the first
one's module after another, and two ports are one before and one after
the port that fails.

*The properties.*

* `QueueIsNewest`, `GapExact`, `DropsHaveCarrier`, `EventuallyAccounted`,
  `ImplementsChannel`: the ring holds the newest records; a line reports exactly
  the losses before it; no loss is stranded; every event is printed or counted.
* `WellFramed`, `AnswersExact`, `EventsIntact`: lines are not cut open; a request
  gets exactly one line, with the fields of its own body or the overflow mark,
  whatever was abandoned before it; events carry their own pairs, before the
  answer.  This holds too of the events that the flush prints, with `_dropped`, after an assertion
  has left the capture armed: the flush does not pass `rig_io_extra_reset()`, and only
  the begin of its line keeps the pairs out of the capture.
* `LinesWhole`, `LinesAtHome`, `Routed`: no line is cut open by another; an answer and
  the events of a body go to the shell of the command, everything else to the UART
  shell; a name finds its command, or the application's command that hides it.
  `EveryCommandEnds`, `EventsDrained`: the lock is given back and nobody is shut
  out, with the one exception the code has (`Stuck`): a body that waits for the
  system work queue waits forever once the work item has begun to wait for
  `rig_io_lock`, which the body's shell holds.  With `BodyWaits` the run has that
  behaviour, and the two properties say that it is the only way.
* `Delivered`: a call whose line fits runs its command with the values that the
  caller gave, or is refused for the first value out of range, in the order of
  the lines.  Of values that are not of the parameters' Python types it says nothing
  (`Suits`).  `TooLongRefused`: a line that does not fit runs nothing and leaves the next
  alone; its error names at most the beginning of its own name, or of a quoted word
  that is malformed only behind what the buffer holds.  `ErrorsNamed`: an error of the tokenizer names its command if that was read
  whole before the fault; of lines with too many arguments it says nothing (section 5).
  `MinusRefused`: no negative number becomes an unsigned one, except
  behind a tab.  `VariableHolds`: an exposed variable is what the last answered set
  gave it.  `EveryLineAnswered`: each line that is not blank or a comment, and each that does
  not fit, is answered in the end, unless the pump is stopped, or interrupts fill the ring as fast as the flush empties it.  That
  exception is real: the flush (`riglink_io.c` 336) has no budget, although `rig_run()`
  has one for its bytes.
* `Linked`: the list holds each registered node once, newest first, and ends.
  `CheckedCallRuns`: a call that the host checked runs the command that it was checked
  against, unless the name is registered twice (the device runs the newer, the
  host keeps the signature of the older), hidden on the shell, or gone since.
  `AttributeOwn`: an attribute never stands for one of several commands by chance.
  `HandshakeReachesList`: `rig.list` is reached, unless the application has registered
  that name too, or a command `list` on the shell.
* `AnswersPaired`: no two calls get one answer, and a wrong answer needs a
  request that was abandoned.  `EveryOperationEnds`: nobody is left behind.
* `EventsKept`, `NobodySleepsOverMatch`, `NoFalseTimeout`: the deque loses nothing,
  and a waiter neither sleeps over its event nor times out on it.
* `MalformedNeedsCut`, `ResetRecovers`: a reconnection joins no halves of lines,
  and a reset that notices a dead link leaves a live reader.  `ReaderLives`: an open link
  has a reader, unless a close or a reset is at work on it or a damaged line has
  ended it.  `CallbackUnanswered`: a command called from `on_line` is never answered.
* `Isolated`: a test of function scope finds its devices untouched, one of module
  scope finds only what was done since its module was first reset; a reset that
  went unanswered voids this, silently.  `OldEventsNeedNoReset`: a device that has answered
  a reset in the test's set-up shows no event of an earlier test; one that was only
  cleared may.  `ClosedInTheEnd`: a session closes its ports, unless a reset raises in
  its own fixture.

Most modules have a type invariant, `TypeOK`, which holds the limits of the
arrays (in Pump, of the line with its NUL) and, in HostDevice, that at most one transaction is open and that it
holds the lock; in ShellBackend, that `active_shell` belongs to the holder of
`rig_io_lock`.

*Deadlock* is checked for EventRing.  The other specifications stop by design
when their bounds are used up and the application starts nothing more, so it is
switched off there; `EveryOperationEnds` says instead that no thread is stuck.

*Fairness.*  EventRing: weak fairness of the pump, which `rig__thread_entry()`
runs in a loop and the work item of the shell backend reschedules; none for interrupts.
ShellBackend: weak fairness of each thread in its own steps, since the scheduler
runs them and the work item is scheduled again each time; strong fairness of
taking `rig_io_lock`, because `k_mutex_unlock()` gives the mutex to a thread that
waits for it, so that a waiter is not passed over forever; none for typing or
interrupts.  Pump: weak fairness of the first `rig_init()` and of the pump
(`rig__thread_entry()`), strong fairness of reading at least one byte, because the bytes
are on the wire and `rig_getc()` has them at some of the calls, though not at each;
none for interrupts.  HostDevice: weak fairness of the reader (a daemon thread in a loop) and of each
thread that is inside an operation, since threads are scheduled and every wait
has a timeout; none for the device or the link, which may stay silent or away,
and none for starting an operation.  A thread may be passed over at the call
lock as long as others keep calling; the bound on operations ends that, so
`EveryOperationEnds` says nothing about starvation under endless calls.

## 5. What the documents say otherwise

Four runs expect a violation; each checks one sentence of the documents or of a comment.

* `dispatch_threads`: events may be emitted from a work queue (design, 233).  No
  output call takes a lock, so such an event can land inside a response.
* `host_late_answer`: a response is said to fulfil the one call in flight
  (design, 342).  After a timeout the late answer fulfils the next call.
* `host_stale_ready`: `reset()` is said to wait for a fresh ready
  (`device.py` 248).  An old one in the deque will do.
* `host_serial`: `reset()` is said to reopen a transport that died
  (`ARCHITECTURE.md` 503).  `SerialTransport.is_alive()` stays true when the port goes,
  so it does not.  `host_device` shows that the rest of the recovery is right.

Others came up without a run of their own; the properties above have them as
exceptions, or as what they say.

* An alias that collides with a command's name is said to become `None`
  (`ARCHITECTURE.md` 425-428).  `__getattr__()` looks for a command of that name first, so the
  attribute is that command (`Targets`).
* Too many arguments are said to leave the name set if it was parsed (`riglink_internal.h`
  103-105); the tokenizer returns before it sets it (`riglink_proto.c` 45), so the error names no
  command.  No property asserts either: `ErrorsNamed` leaves these lines out.
* A leading minus is said to be rejected (`riglink_proto.c` 97); after a tab, which
  only a raw line can hold, it is not (`MinusRefused`).
* A sentinel line that does not parse is said to be malformed (`_wire.py` 70); one that
  is not UTF-8 ends the reader instead (`ReaderLives`).
* An application's command `list` hides `rig.list` on the shell, and `connect()` fails on
  its answer (`HandshakeReachesList`).
* A value given to `RIG_EMIT_EVENT` is evaluated inside the event's line: if it logs, the
  line is cut in two.  Nothing in the repository does it, and it is not in the
  model.

## 6. What is proved

Every invariant that a passing run checks is also proved, by the prover, for every
value of the constants, and so are one action property (`NoFalseTimeout`) and the safety
half of the refinement.  Liveness is TLC's alone.

The proofs assume what the modules assume of their constants and nothing more:

* the depth of the ring and the limit of its loss counter are positive; capacities and
  bounds are numbers, zero included; fields have names of at least one byte; there is a port;
* commands and threads are finitely many, and the manager is not the callback;
* names in Registry are sequences of characters (`NamesAssumption`: a C string);
* the sizes of Wire are positive, and the wide integers wider than the narrow ones
  (`WireAssumption`);
* a request is what the host writes for a call, or any one line of characters, and the
  name that a raw line is said to have is what the tokenizer reads as one
  (`RequestsAssumption`); command names have no minus, a get takes nothing and a set one
  value, which is how `RIG_EXPOSE_VAR` makes them (`CommandsAssumption`).

**EventRing_proofs**, for every depth, every limit and any number of events:

* `TypeCorrect`, `LossesCarried`: `[]TypeOK`, `[]DropsHaveCarrier`.
* `RingHoldsNewest`, `LossReportsExact`: `[]QueueIsNewest`, `[]GapExact`.  Neither is
  inductive alone.  `IInv` adds `LossExact`, that the counter is the number of
  records between the last one popped and the oldest one queued (or the limit), and
  `InFlight`, that a record popped and not yet printed carries the losses
  between it and the last line.  The interrupt between pop and print is then
  harmless because it changes neither.  The arithmetic of the ring is in the lemmas
  on `%` (`NextSlotShift`, `SlotsDistinct`, `NextSlotOffset`).
* `ImplementsChannelSafety`: `Spec => Channel!Spec`, with the refinement mapping
  `Contents` (the slots from tail on) and `Decided` (the lines printed and the
  record in flight).  An event is delivered, for the channel, when it is popped.

**Dispatch_proofs**, for every set of fields, all capacities and any bounds:

* `TypeCorrect`: `[]TypeOK`; the captured fields and arena bytes never exceed
  their arrays.
* `LinesWellFramed`: `[]WellFramed`.  The inductive invariant `Framing` says where
  a line is open and that the capture is armed whenever a body runs between
  lines: otherwise a `rig_emit` there would start a line without a sentinel.
* `EveryAnswerExact`, `EveryEventIntact`: `[]AnswersExact`, `[]EventsIntact`.  The inductive
  invariant `Ledger` keeps the books of the output: what the capture holds now is what the
  running body has emitted, or it is marked as lost (`Collected`); what the open line is
  about, and that it holds nothing else (`OpenAbout`); and each request and each event has
  its one line exactly when it is done (`Answers`, `Tellings`, `Dated`).  The suspension
  of the capture around an event is where it could break: the books of the answer
  stay open while another line is written, be it of an event of the body or of one that
  the flush prints over the books that an assertion has left open.

**ShellBackend_proofs**, for any number of shells, commands, events and boots and any
set of registered names:

* `TypeCorrect`: `[]TypeOK`, by way of `Exclusion`: a thread past the lock holds it,
  and `active_shell` is set exactly during a dispatch.
* `LinesNeverSpliced`: `[]LinesWhole`.  The inductive invariant `Framing` adds that
  an open line is the last thing on the shell that `rig_putc()` now writes to, that
  every other shell has none open, and that the one thread that writes is its
  owner (`OneWriter`, from `Exclusion`).
* `EveryLineAtHome`: `[]LinesAtHome`.  `Placed` says of each thread whose
  line it has in hand and of each half-line on a console that it belongs there
  (`Belongs`), and that a command has its one answer exactly when it was answered.
* `CommandsRouted`: `[]Routed`.  A name is looked up in one step, so the fact is that of the
  lookup (`FindsAsked`), for any set of registered names.

**HostDevice_proofs**, for any threads, operations, events, reboots, deaths of the link and
damaged lines:

* `TypeCorrect`: `[]TypeOK`.  Its inductive form `TypeInv` adds that a thread's transaction
  is one of those begun and that lines on the wire answer requests that were
  written; `LockOK` is mutual exclusion: who is in a transaction holds `_call_lock`, and
  nobody else is.
* `NobodySleeps`: `[]NobodySleepsOverMatch`.  Filing wakes every sleeper, and a thread falls
  asleep only on a deque that it has just searched.
* `CallbackGetsNothing`: `[]CallbackUnanswered`.  Inductive is `DrainedByCallback`: from the
  drain of its transaction on, the callback keeps the reader from filing anything.
* `ReaderOnOpenLink`: `[]ReaderLives`.  `LinkInv` adds that only the manager is ever in a
  reset or a close (`Owned`) and that `_stop` is set only while one is at work or the
  link is not open (`StopOK`).

**HostDelivery_proofs**, about the same specification: what arrives, and where.

* `AnswersNeverCross`: `[]AnswersPaired`.  `Order` says that the numbers on the way to the host,
  in the queue and on the way to the device only rise from the one to the next, whatever is lost,
  cut or damaged in between: so an answer that is got is older than all that can still come
  (`GotOlder`).  `Settled` adds that exactly the requests on whose answer a thread waits are open.  An
  answer that is got by another call is thus of a request that its own caller
  has left: not answered, not broken, so it was abandoned.
* `EventsNeverLost`: `[]EventsKept`.  `Deque` adds that filed events are older than those on the wire, of
  each kind, and that what was taken was filed.
* `TimeoutsHonest`: `NoFalseTimeout`, an action property.  A search ends by a step of its own thread, and one
  that takes an event takes one that was not taken before, by `EventsKept`.
* `HalvesBelongTogether`: `[]MalformedNeedsCut`.  `Halves` counts the malformed lines still to come,
  from the fragments on the wire and in `_buf` (`Owed`); the count is a function along the wire
  (`Covers`), carried as an existential so that no recursion is needed.  What a dead link
  leaves in `_buf` does not count, because `Reopening` says that no reader reads it over the
  next link.

**Registry_proofs**, for any finite set of commands with any names:

* `ListLinked`: `[]Linked`, in any order of registration and with any repetitions.
* `AttributesOwn`: `[]AttributeOwn`, which needs that the host knows finitely many names
  (`KnownFinite`): only then does one alias counted mean one alias.
* `CheckedCallsRun`, `HandshakesReachList`: `[]CheckedCallRuns`, `[]HandshakeReachesList`.  A loop over the list
  visits the k-th newest node at its k-th step (`Place`), by induction, so that a lookup finds the
  newest node of a name; with no twin it is the one that was listed.

**Pump_proofs**, for any commands, requests, sizes and widths, however the bytes arrive:

* `TypeCorrect`: `[]TypeOK`; the line never fills the byte of its NUL.
* `VariableIsLastSet`: `[]VariableHolds`.  The inductive invariant (`VarInv`) names the last answered set as an
  index, where the property takes a maximum.
* `CallsDelivered`, `LongLinesRefused`, `ErrorsNameCommand`, `NegativesRefused`: `[]Delivered`,
  `[]TooLongRefused`, `[]ErrorsNamed`, `[]MinusRefused`.

The argument has two halves.  *The bytes.*  `Progress`, a part of the inductive invariant `IInv`, says
that some number of bytes was read, that the line is what `Feed` makes of those since the last
newline, unless `rig_init()` has cut it, and that each answer is what `Handle` makes of its
whole line (`Faithful`).  `Feed` of two pieces one after the other is `Feed` of them together
(`Line assembly`), so how the bytes were split is forgotten.  *The text.*  Four facts about what
Wire computes give the four properties:

* The slots that the tokenizer cuts from the line of a call are its name and its values, as
  they were before the quoting (`Heard`), and what `Parse` makes of such a value is what `Meant` says
  (`ValueParsed`): decimals are read digit by digit against limits that are powers of two.
* A slot only grows as more is scanned (`ScannedGrows`), so what a cut line is called begins its
  name, or is the beginning of a quoted word.
* A malformed line whose name was whole has it in its first slot, by the definition of a raw
  request, unless its arguments were too many.
* A minus ends up in a slot, and what stood before it in the slot stood before it in the line
  (`Landing`); an unsigned parser accepts a minus only behind a tab (`NegativeRefused`).

**PytestPlugin_proofs**, for any ports, tests and scopes:

* `TestsIsolated`: `[]Isolated`.  `Noted` says what being in `_riglink_module_reset` means for a port,
  `Progress` what the set-up has done for the ports before the one at hand.
* `OldEventsGone`, `SessionCloses`: `[]OldEventsNeedNoReset`, `[]ClosedInTheEnd`.

*Induction over data.*  The prover cannot use the library's induction theorems, whose
hypothesis is an operator.  Two set-valued substitutes carry all of the recursion here: a set of
numbers that holds 0 and, with each number, its successor, holds all (`UpTo`, from the least
element outside of it), and likewise for the sequences over a set, one character more at a time
(`EachSequence`).  A recursive function such as `Power` is first shown to exist (`Recursion`), before
its equation may be used: so are the scans of Wire, which for that reason are recursive
functions over the positions of a text and not folds.

**Checked by TLC only.**  Liveness: `EventuallyAccounted`, `EveryLineAnswered`, `EveryCommandEnds`,
`EventsDrained`, `EveryOperationEnds`, `ResetRecovers`, and the fairness half of `ImplementsChannel`.  They need
fairness and ENABLED, which are beyond the prover.  Everything in section 5 is a
counterexample and needs no proof.

## 7. What is not modelled

The JSON library jcon is a submodule and external.  Floating point on the wire is left to `repr` and `strtod`.
On the host: resets from several threads and a join that gives up; the lists
that only grow (logs, console, transcript); the check of Python types; in the plugin the reading of
options, the choice of one device for a test and the report of a failure.  What
happens to a line that `rig_init()` cuts (its rest is taken for a line of its own) is
in the model of the pump, but no property is about it.  The command line tool, the
preprocessor tables, Kconfig and the samples hold no state that other parts see.

## 8. Plan

Done: EventChannel, EventRing, Dispatch, DispatchShared, ShellBackend, HostDevice,
Registry, PytestPlugin, Wire and Pump, with proofs of all invariants that the runs
check.  Next, most important first:

1. **More refinements**: the Device proxy as a promise to its callers (a call is answered, fails or
   times out; one at a time), and the pump as a service that answers lines in order, each implemented
   by the detailed module, with the step of the refinement proved from `Settled` and `Progress`.
2. **HostDevice extended**: several threads that reset, a join that gives up and the two
   readers on one buffer that come of it.
3. **Pump composed with EventRing** in place of its count, so that the starvation of
   `rig_run()` by interrupts is shown with the ring's own losses.
