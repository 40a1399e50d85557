---------------------------- MODULE PytestPlugin ----------------------------
(***************************************************************************)
(* The fixtures of python/riglink/pytest_plugin.py: which devices are      *)
(* opened and closed, when each is reset, and what one test can find of    *)
(* another on its devices.                                                 *)
(*                                                                         *)
(* A test belongs to a module and has a reset scope, its marker's or the   *)
(* configured one.  Its body may touch any of the devices and may leave    *)
(* events on their wires, which the reader files whenever it comes to it.  *)
(***************************************************************************)
EXTENDS Integers, Sequences

CONSTANTS Ports,     \* the configured ports, in order
          Tests,     \* the sequences of tests that may be collected
          Scopes     \* the scopes that may be configured

ASSUME PluginAssumption == Ports \in Seq({Ports[k] : k \in DOMAIN Ports}) \ {<<>>}

VARIABLES tests, scope,  \* what was collected, and the configured scope
          phase,         \* which fixture or test is running
          at,            \* the port that its loop is at
          test,          \* the number of the test
          open,          \* ports whose Device is open
          modState,      \* the set _riglink_module_reset
          touched,       \* of each port, the tests that have used the device since it last rebooted
          events, onWire, \* of each port, the tests whose events are in the deque, and on the wire
          unsure,        \* ports whose last reset got no answer (history)
          fresh          \* ports that answered a reset in the current set-up (history)

device == <<touched, events, onWire, unsure, fresh>>
vars == <<tests, scope, phase, at, test, open, modState, device>>

AllPorts == {Ports[k] : k \in DOMAIN Ports}
Last == Len(Ports)
None == [p \in AllPorts |-> {}]

Init == /\ tests \in Tests
        /\ scope \in Scopes
        /\ phase = "connect"
        /\ at = 1
        /\ test = 0
        /\ open = {}
        /\ modState = {}
        /\ touched = None /\ events = None /\ onWire = None
        /\ unsure = {} /\ fresh = {}

-----------------------------------------------------------------------------
(* The session fixture.                                                    *)

\* After the last port of a loop, the next one.
Goto(after) == IF at < Last THEN at' = at + 1 /\ UNCHANGED phase
               ELSE at' = 1 /\ phase' = after

Connect == /\ phase = "connect"
           /\ open' = open \cup {Ports[at]}
           /\ Goto(IF scope = "session" THEN "session reset" ELSE "next")
           /\ UNCHANGED <<tests, scope, test, modState, device>>

\* Fault: only the handler of the failed port is dropped.
ClosedNone(opened) == opened

\* What is open after a connect() has raised.
ClosedAll(opened) == {}

\* The devices opened before are closed, and the exception ends the session's tests.
ConnectFails == /\ phase = "connect"
                /\ open' = ClosedAll(open)
                /\ phase' = "over"
                /\ UNCHANGED <<tests, scope, at, test, modState, device>>

-----------------------------------------------------------------------------
(* Device.reset(), as the fixtures see it.                                 *)

\* Fault: the buffers are cleared before the reset, which files what was on the wire.
LeftAfterReset(old) == old

\* What reset() and then clear_buffers() leave in the deque, of what was on the wire.
LeftAfterClear(old) == {}

\* The device answers and reboots: all that it sent before has been read, and is cleared.
Answered(p) == /\ touched' = [touched EXCEPT ![p] = {}]
               /\ events' = [events EXCEPT ![p] = LeftAfterClear(onWire[p])]
               /\ onWire' = [onWire EXCEPT ![p] = {}]
               /\ unsure' = unsure \ {p}
               /\ fresh' = fresh \cup {p}

\* Nothing comes back in time, which reset() swallows: the device may have rebooted or not.
Unanswered(p) == /\ touched' \in {touched, [touched EXCEPT ![p] = {}]}
                 /\ events' = [events EXCEPT ![p] = {}]
                 /\ unsure' = unsure \cup {p}
                 /\ UNCHANGED <<onWire, fresh>>

Reset(p) == Answered(p) \/ Unanswered(p)

\* riglink_session does not clear afterwards, but no test has run: there is nothing to clear.
SessionReset == /\ phase = "session reset"
                /\ Reset(Ports[at])
                /\ Goto("next")
                /\ UNCHANGED <<tests, scope, test, open, modState>>

\* reopen() raises: the fixture ends before its yield, and closes nothing.
SessionResetFails == /\ phase = "session reset"
                     /\ phase' = "over"
                     /\ UNCHANGED <<tests, scope, at, test, open, modState, device>>

-----------------------------------------------------------------------------
(* riglink_devices, for one test after the other.                          *)

NextTest == /\ phase = "next"
            /\ test < Len(tests)
            /\ test' = test + 1
            /\ fresh' = {}
            /\ phase' = "setup"
            /\ at' = 1
            /\ UNCHANGED <<tests, scope, open, modState, touched, events, onWire, unsure>>

Key(p) == <<p, tests[test].module>>

NeedsReset(p) == \/ tests[test].scope = "function"
                 \/ tests[test].scope = "module" /\ Key(p) \notin modState

\* Fault: the module is noted before the reset is known to have succeeded.
RememberedEarly(reset) == modState \cup {Key(Ports[at])}

\* The module is noted when reset() has returned.
Remembered(reset) == IF reset /\ tests[test].scope = "module" THEN modState \cup {Key(Ports[at])}
                     ELSE modState

SetupReset == /\ phase = "setup"
              /\ NeedsReset(Ports[at])
              /\ Reset(Ports[at])
              /\ modState' = Remembered(TRUE)
              /\ Goto("run")
              /\ UNCHANGED <<tests, scope, test, open>>

\* reopen() raises: the test errors, the ports after this one are left as they are.
SetupFails == /\ phase = "setup"
              /\ NeedsReset(Ports[at])
              /\ modState' = Remembered(FALSE)
              /\ phase' = "next"
              /\ UNCHANGED <<tests, scope, at, test, open, device>>

SetupClear == /\ phase = "setup"
              /\ ~NeedsReset(Ports[at])
              /\ events' = [events EXCEPT ![Ports[at]] = {}]
              /\ Goto("run")
              /\ UNCHANGED <<tests, scope, test, open, modState, touched, onWire, unsure, fresh>>

\* The body uses a device, and an event may be on the way to the host.
Use(p) == /\ phase = "run"
          /\ touched' = [touched EXCEPT ![p] = @ \cup {test}]
          /\ onWire' \in {onWire, [onWire EXCEPT ![p] = @ \cup {test}]}
          /\ UNCHANGED <<tests, scope, phase, at, test, open, modState, events, unsure, fresh>>

EndTest == /\ phase = "run"
           /\ phase' = "next"
           /\ UNCHANGED <<tests, scope, at, test, open, modState, device>>

\* The reader files what has arrived.
Arrive(p) == /\ p \in open
             /\ onWire[p] # {}
             /\ events' = [events EXCEPT ![p] = @ \cup onWire[p]]
             /\ onWire' = [onWire EXCEPT ![p] = {}]
             /\ UNCHANGED <<tests, scope, phase, at, test, open, modState, touched, unsure, fresh>>

Teardown == /\ phase = "next"
            /\ test = Len(tests)
            /\ open' = {}
            /\ phase' = "over"
            /\ UNCHANGED <<tests, scope, at, test, modState, device>>

Next == \/ Connect \/ ConnectFails
        \/ SessionReset \/ SessionResetFails
        \/ NextTest \/ SetupReset \/ SetupFails \/ SetupClear
        \/ \E p \in AllPorts : Use(p) \/ Arrive(p)
        \/ EndTest
        \/ Teardown

Spec == Init /\ [][Next]_vars

-----------------------------------------------------------------------------
(* Properties *)

\* Whether test u ran when a module-scope test of the module of test t had been set up before it.
Revisited(t, u) == \E s \in 1..u : tests[s].module = tests[t].module /\ tests[s].scope = "module"

\* In a running test of function scope no device carries what another test has done; in one of module scope, only
\* what was done since its module was first reset: by its own module, or by another that ran in between.  An
\* unanswered reset voids this: reset() does not say that it failed, and the module is noted as reset.
Isolated ==
  phase = "run" =>
    \A p \in AllPorts \ unsure :
      CASE tests[test].scope = "function" -> touched[p] \subseteq {test}
        [] tests[test].scope = "module" ->
             \A u \in touched[p] : tests[u].module # tests[test].module => Revisited(test, u)
        [] OTHER -> TRUE

\* An event of an earlier test is met only on a device that has not answered a reset in this test's set-up:
\* clear_buffers() alone leaves what is on the wire.
OldEventsNeedNoReset ==
  phase = "run" => \A p \in fresh : events[p] \cup onWire[p] \subseteq {test}

\* A session leaves no port open, unless a reset raised in the session's own fixture.
ClosedInTheEnd == phase = "over" /\ open # {} => scope = "session" /\ test = 0
=============================================================================
