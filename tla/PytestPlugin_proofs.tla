------------------------- MODULE PytestPlugin_proofs -------------------------
(***************************************************************************)
(* The fixtures keep tests apart for any ports, any tests with any scopes, *)
(* and any resets that fail or get no answer.                              *)
(***************************************************************************)
EXTENDS PytestPlugin, TLAPS

\* A module-scope test of module m was collected at or before test u.
SetUpBy(m, u) == \E s \in 1 .. u : tests[s].module = m /\ tests[s].scope = "module"

TypeInv == /\ at \in 1 .. Last
           /\ test \in Nat
           /\ touched \in [AllPorts -> SUBSET (1 .. test)]
           /\ events \in [AllPorts -> SUBSET (1 .. test)]
           /\ onWire \in [AllPorts -> SUBSET (1 .. test)]
           /\ fresh \subseteq AllPorts

\* A module that is noted for a port has had a test set up there, and what
\* was done with the device before that is gone, unless its reset was not
\* answered.
Noted == \A key \in modState :
            /\ SetUpBy(key[2], test)
            /\ \A p \in AllPorts \ unsure :
                  p = key[1] =>
                     \A u \in touched[p] : tests[u].module # key[2] => SetUpBy(key[2], u)

\* The set-up of the test is done for port p.
Ready(p) == /\ tests[test].scope = "function" /\ p \notin unsure => touched[p] \subseteq {test}
            /\ tests[test].scope = "module" => Key(p) \in modState

Progress == /\ phase = "setup" => test > 0 /\ \A k \in 1 .. (at - 1) : Ready(Ports[k])
            /\ phase = "run" => test > 0 /\ \A p \in AllPorts : Ready(p)

OnlyNew == phase \in {"setup", "run"} =>
              \A p \in fresh : events[p] \cup onWire[p] \subseteq {test}

IInv == TypeInv /\ Noted /\ Progress /\ OnlyNew

-----------------------------------------------------------------------------
LEMMA PortsOK == /\ Last \in Nat \ {0}
                 /\ DOMAIN Ports = 1 .. Last
                 /\ \A k \in 1 .. Last : Ports[k] \in AllPorts
                 /\ \A p \in AllPorts : \E k \in 1 .. Last : p = Ports[k]
BY PluginAssumption DEF Last, AllPorts

\* A loop over the ports: what held of the ports before holds, after a step
\* that makes it hold of the port at hand, of those before the next one, or
\* of all when the loop is over.
LEMMA LoopStep ==
    ASSUME TypeInv, NEW after, Goto(after)
    PROVE  /\ at' \in 1 .. Last
           /\ \/ phase' = phase /\ at' = at + 1
              \/ phase' = after /\ at = Last
BY PortsOK DEF TypeInv, Goto

\* Whatever comes of a reset, the port has nothing of earlier tests left, or
\* it is known to be unsure; other ports are left alone.
LEMMA ResetStep ==
    ASSUME TypeInv, NEW p \in AllPorts, Reset(p)
    PROVE  /\ touched' \in [AllPorts -> SUBSET (1 .. test)]
           /\ events' \in [AllPorts -> SUBSET (1 .. test)]
           /\ onWire' \in [AllPorts -> SUBSET (1 .. test)]
           /\ touched'[p] = {} \/ p \in unsure'
           /\ \A q \in AllPorts : q = p \/ (touched'[q] = touched[q] /\ (q \in unsure' <=> q \in unsure))
           /\ fresh' \subseteq fresh \cup {p}
           /\ \A q \in AllPorts : events'[q] \subseteq events[q] /\ onWire'[q] \subseteq onWire[q]
           /\ p \in fresh' => p \in fresh \/ events'[p] \cup onWire'[p] = {}
<1>1. CASE Answered(p)
  BY <1>1 DEF Answered, LeftAfterClear, TypeInv
<1>2. CASE Unanswered(p)
  BY <1>2 DEF Unanswered, TypeInv
<1> QED
  BY <1>1, <1>2 DEF Reset

-----------------------------------------------------------------------------
(* The steps that matter.                                                  *)

LEMMA SetupResetStep == ASSUME IInv, SetupReset PROVE IInv'
<1> PICK q : q = Ports[at]
  OBVIOUS
<1>1. /\ TypeInv /\ Noted /\ Progress /\ OnlyNew
      /\ phase = "setup" /\ NeedsReset(q) /\ Reset(q) /\ Goto("run")
      /\ tests' = tests /\ test' = test /\ scope' = scope
      /\ modState' = IF tests[test].scope = "module"
                     THEN modState \cup {<<q, tests[test].module>>} ELSE modState
  BY DEF IInv, SetupReset, Remembered, Key
<1>2. q \in AllPorts /\ at \in 1 .. Last /\ test \in Nat /\ test > 0
  BY <1>1, PortsOK DEF TypeInv, Progress
<1>3. /\ touched' \in [AllPorts -> SUBSET (1 .. test)]
      /\ events' \in [AllPorts -> SUBSET (1 .. test)]
      /\ onWire' \in [AllPorts -> SUBSET (1 .. test)]
      /\ touched'[q] = {} \/ q \in unsure'
      /\ \A p \in AllPorts : p = q \/ (touched'[p] = touched[p] /\ (p \in unsure' <=> p \in unsure))
      /\ fresh' \subseteq fresh \cup {q}
      /\ \A p \in AllPorts : events'[p] \subseteq events[p] /\ onWire'[p] \subseteq onWire[p]
      /\ q \in fresh' => q \in fresh \/ events'[q] \cup onWire'[q] = {}
  BY <1>1, <1>2, ResetStep
<1>4. /\ at' \in 1 .. Last
      /\ (phase' = phase /\ at' = at + 1) \/ (phase' = "run" /\ at = Last)
  BY <1>1, LoopStep
<1>5. TypeInv'
  BY <1>1, <1>2, <1>3, <1>4 DEF TypeInv
<1>6. Noted'
  <2> SUFFICES ASSUME NEW key \in modState'
               PROVE  /\ SetUpBy(key[2], test)'
                      /\ \A p \in AllPorts \ unsure' : p = key[1] =>
                            \A u \in touched'[p] : tests'[u].module # key[2] => SetUpBy(key[2], u)'
    BY DEF Noted
  <2>1. SetUpBy(key[2], test)
    <3>1. CASE key \in modState
      BY <1>1, <3>1 DEF Noted
    <3>2. CASE key = <<q, tests[test].module>> /\ tests[test].scope = "module"
      BY <1>2, <3>2 DEF SetUpBy
    <3> QED
      BY <1>1, <3>1, <3>2
  <2>2. ASSUME NEW p \in AllPorts \ unsure', p = key[1], NEW u \in touched'[p],
               tests[u].module # key[2]
        PROVE  SetUpBy(key[2], u)
    <3>1. p # q /\ touched'[p] = touched[p] /\ p \notin unsure
      BY <1>3, <2>2
    <3>2. key \in modState
      BY <1>1, <2>2, <3>1
    <3> QED
      BY <1>1, <2>2, <3>1, <3>2 DEF Noted
  <2> QED
    BY <1>1, <2>1, <2>2 DEF SetUpBy
<1>7. Progress'
  <2>1. Ready(q)'
    BY <1>1, <1>2, <1>3 DEF Ready, Key
  <2>2. ASSUME NEW p \in AllPorts, Ready(p) PROVE Ready(p)'
    <3>1. CASE p = q
      BY <2>1, <3>1
    <3>2. CASE p # q
      BY <1>1, <1>3, <2>2, <3>2 DEF Ready, Key
    <3> QED
      BY <3>1, <3>2
  <2>3. \A k \in 1 .. at : Ready(Ports[k])'
    <3> SUFFICES ASSUME NEW k \in 1 .. at PROVE Ready(Ports[k])'
      OBVIOUS
    <3>1. CASE k = at
      BY <2>1, <3>1
    <3>2. CASE k # at
      <4>1. k \in 1 .. (at - 1) /\ k \in 1 .. Last
        BY <1>2, <3>2, PortsOK
      <4>2. Ready(Ports[k]) /\ Ports[k] \in AllPorts
        BY <1>1, <4>1, PortsOK DEF Progress
      <4> QED
        BY <2>2, <4>2
    <3> QED
      BY <3>1, <3>2
  <2>4. CASE phase' = phase /\ at' = at + 1
    <3>1. 1 .. (at' - 1) = 1 .. at
      BY <1>2, <2>4, PortsOK
    <3>2. \A k \in 1 .. (at' - 1) : Ready(Ports[k])'
      BY <2>3, <3>1
    <3> QED
      BY <1>1, <1>2, <2>4, <3>2 DEF Progress
  <2>5. CASE phase' = "run" /\ at = Last
    <3>1. \A p \in AllPorts : Ready(p)'
      BY <2>3, <2>5, PortsOK
    <3> QED
      BY <1>1, <1>2, <2>5, <3>1 DEF Progress
  <2> QED
    BY <1>4, <2>4, <2>5
<1>8. OnlyNew'
  <2>1. \A p \in fresh : events[p] \cup onWire[p] \subseteq {test}
    BY <1>1 DEF OnlyNew
  <2>2. \A p \in fresh' : events'[p] \cup onWire'[p] \subseteq {test}
    <3> SUFFICES ASSUME NEW p \in fresh'
                 PROVE  events'[p] \cup onWire'[p] \subseteq {test}
      OBVIOUS
    <3>1. CASE p \in fresh
      BY <1>1, <1>3, <2>1, <3>1 DEF TypeInv
    <3>2. CASE p \notin fresh
      <4>1. p = q
        BY <1>3, <3>2
      <4> QED
        BY <1>3, <3>2, <4>1
    <3> QED
      BY <3>1, <3>2
  <2> QED
    BY <1>1, <2>2 DEF OnlyNew
<1> QED
  BY <1>5, <1>6, <1>7, <1>8 DEF IInv

LEMMA SetupClearStep == ASSUME IInv, SetupClear PROVE IInv'
<1> PICK q : q = Ports[at]
  OBVIOUS
<1>1. /\ TypeInv /\ Noted /\ Progress /\ OnlyNew
      /\ phase = "setup" /\ ~NeedsReset(q) /\ Goto("run")
      /\ events' = [events EXCEPT ![q] = {}]
      /\ UNCHANGED <<tests, scope, test, modState, touched, onWire, unsure, fresh>>
  BY DEF IInv, SetupClear
<1>2. q \in AllPorts /\ at \in 1 .. Last /\ test \in Nat /\ test > 0
  BY <1>1, PortsOK DEF TypeInv, Progress
<1>3. Ready(q)
  BY <1>1 DEF NeedsReset, Ready
<1>4. \A k \in 1 .. at : Ready(Ports[k])
  <2> SUFFICES ASSUME NEW k \in 1 .. at PROVE Ready(Ports[k])
    OBVIOUS
  <2>1. CASE k = at
    BY <1>3, <2>1
  <2>2. CASE k # at
    BY <1>1, <1>2, <2>2, PortsOK DEF Progress
  <2> QED
    BY <2>1, <2>2
<1>5. /\ at' \in 1 .. Last
      /\ (phase' = phase /\ at' = at + 1) \/ (phase' = "run" /\ at = Last)
  BY <1>1, LoopStep
<1>6. events' \in [AllPorts -> SUBSET (1 .. test)] /\ \A p \in AllPorts : events'[p] \subseteq events[p]
  BY <1>1, <1>2 DEF TypeInv
<1>7. TypeInv'
  BY <1>1, <1>2, <1>5, <1>6 DEF TypeInv
<1>8. Noted'
  BY <1>1 DEF Noted, SetUpBy
<1>9. \A p : Ready(p) => Ready(p)'
  BY <1>1 DEF Ready, Key
<1>10. Progress'
  <2>1. CASE phase' = phase /\ at' = at + 1
    <3>1. 1 .. (at' - 1) = 1 .. at
      BY <1>2, <2>1, PortsOK
    <3>2. \A k \in 1 .. (at' - 1) : Ready(Ports[k])'
      BY <1>4, <1>9, <3>1
    <3> QED
      BY <1>1, <1>2, <2>1, <3>2 DEF Progress
  <2>2. CASE phase' = "run" /\ at = Last
    <3>1. \A p \in AllPorts : Ready(p)'
      BY <1>4, <1>9, <2>2, PortsOK
    <3> QED
      BY <1>1, <1>2, <2>2, <3>1 DEF Progress
  <2> QED
    BY <1>5, <2>1, <2>2
<1>11. OnlyNew'
  BY <1>1, <1>6 DEF OnlyNew
<1> QED
  BY <1>7, <1>8, <1>10, <1>11 DEF IInv

LEMMA NextTestStep == ASSUME IInv, NextTest PROVE IInv'
<1>1. /\ TypeInv /\ Noted
      /\ test' = test + 1 /\ fresh' = {} /\ phase' = "setup" /\ at' = 1
      /\ UNCHANGED <<tests, scope, open, modState, touched, events, onWire, unsure>>
  BY DEF IInv, NextTest
<1>2. test \in Nat /\ 1 .. test \subseteq 1 .. (test + 1)
  BY <1>1 DEF TypeInv
<1>3. TypeInv'
  BY <1>1, <1>2, PortsOK DEF TypeInv
<1>4. Noted'
  BY <1>1, <1>2 DEF Noted, SetUpBy
<1>5. Progress'
  BY <1>1, <1>2 DEF Progress
<1>6. OnlyNew'
  BY <1>1 DEF OnlyNew
<1> QED
  BY <1>3, <1>4, <1>5, <1>6 DEF IInv

LEMMA UseStep == ASSUME IInv, NEW q \in AllPorts, Use(q) PROVE IInv'
<1>1. /\ TypeInv /\ Noted /\ Progress /\ OnlyNew
      /\ phase = "run"
      /\ touched' = [touched EXCEPT ![q] = @ \cup {test}]
      /\ onWire' \in {onWire, [onWire EXCEPT ![q] = @ \cup {test}]}
      /\ UNCHANGED <<tests, scope, phase, at, test, modState, events, unsure, fresh>>
  BY DEF IInv, Use
<1>2. test \in Nat /\ test \in 1 .. test
  BY <1>1 DEF TypeInv, Progress
<1>3. \A p \in AllPorts : touched'[p] \subseteq touched[p] \cup {test}
  BY <1>1 DEF TypeInv
<1>4. \A p \in AllPorts : onWire'[p] \subseteq onWire[p] \cup {test}
  BY <1>1 DEF TypeInv
<1>5. TypeInv'
  BY <1>1, <1>2 DEF TypeInv
<1>6. Noted'
  <2> SUFFICES ASSUME NEW key \in modState
               PROVE  /\ SetUpBy(key[2], test)'
                      /\ \A p \in AllPorts \ unsure' : p = key[1] =>
                            \A u \in touched'[p] : tests'[u].module # key[2] => SetUpBy(key[2], u)'
    BY <1>1 DEF Noted
  <2>1. SetUpBy(key[2], test)
    BY <1>1 DEF Noted
  <2>2. ASSUME NEW p \in AllPorts \ unsure, p = key[1], NEW u \in touched'[p],
               tests[u].module # key[2]
        PROVE  SetUpBy(key[2], u)
    <3>1. CASE u \in touched[p]
      BY <1>1, <2>2, <3>1 DEF Noted
    <3>2. CASE u = test
      BY <2>1, <3>2
    <3> QED
      BY <1>3, <3>1, <3>2
  <2> QED
    BY <1>1, <2>1, <2>2 DEF SetUpBy
<1>7. Progress'
  <2>1. \A p \in AllPorts : Ready(p)
    BY <1>1 DEF Progress
  <2>2. \A p \in AllPorts : Ready(p)'
    BY <1>1, <1>3, <2>1 DEF Ready, Key
  <2> QED
    BY <1>1, <2>2 DEF Progress
<1>8. OnlyNew'
  BY <1>1, <1>4 DEF OnlyNew, TypeInv
<1> QED
  BY <1>5, <1>6, <1>7, <1>8 DEF IInv

LEMMA ArriveStep == ASSUME IInv, NEW q \in AllPorts, Arrive(q) PROVE IInv'
<1>1. /\ TypeInv /\ Noted /\ Progress /\ OnlyNew
      /\ events' = [events EXCEPT ![q] = @ \cup onWire[q]]
      /\ onWire' = [onWire EXCEPT ![q] = {}]
      /\ UNCHANGED <<tests, scope, phase, at, test, modState, touched, unsure, fresh>>
  BY DEF IInv, Arrive
<1>2. TypeInv'
  BY <1>1 DEF TypeInv
<1>3. \A p \in AllPorts : events'[p] \cup onWire'[p] \subseteq events[p] \cup onWire[p]
  BY <1>1 DEF TypeInv
<1>4. Noted' /\ Progress'
  BY <1>1 DEF Noted, SetUpBy, Progress, Ready, Key
<1>5. OnlyNew'
  BY <1>1, <1>3 DEF OnlyNew
<1> QED
  BY <1>2, <1>4, <1>5 DEF IInv

\* Steps outside the set-up and the run of a test, by which devices change
\* at most as by a reset.
LEMMA OutsideStep ==
    ASSUME IInv, phase' \notin {"setup", "run"}, at' \in 1 .. Last,
           UNCHANGED <<tests, test, modState>>,
           UNCHANGED device \/ Reset(Ports[at])
    PROVE  IInv'
<1>1. TypeInv /\ Noted
  BY DEF IInv
<1>2. Progress' /\ OnlyNew'
  BY DEF Progress, OnlyNew
<1>3. CASE UNCHANGED device
  BY <1>1, <1>2, <1>3 DEF device, IInv, TypeInv, Noted, SetUpBy
<1>4. CASE Reset(Ports[at])
  <2>1. Ports[at] \in AllPorts
    BY <1>1, PortsOK DEF TypeInv
  <2>2. TypeInv'
    BY <1>1, <1>4, <2>1, ResetStep DEF TypeInv
  <2>3. \A p \in AllPorts \ unsure' : touched'[p] = {} \/ (touched'[p] = touched[p] /\ p \notin unsure)
    BY <1>1, <1>4, <2>1, ResetStep
  <2>4. Noted'
    BY <1>1, <2>3 DEF Noted, SetUpBy
  <2> QED
    BY <1>2, <2>2, <2>4 DEF IInv
<1> QED
  BY <1>3, <1>4

LEMMA Invariance == Spec => []IInv
<1>1. Init => IInv
  BY PortsOK DEF Init, IInv, TypeInv, Noted, Progress, OnlyNew, None
<1>2. IInv /\ [Next]_vars => IInv'
  <2> SUFFICES ASSUME IInv, [Next]_vars PROVE IInv'
    OBVIOUS
  <2>0. TypeInv /\ at \in 1 .. Last
    BY DEF IInv, TypeInv
  <2>1. CASE Connect
    <3>1. phase' \in {"connect", "session reset", "next"}
      BY <2>1 DEF Connect, Goto
    <3>2. at' = 1 \/ (at < Last /\ at' = at + 1)
      BY <2>1 DEF Connect, Goto
    <3>3. at' \in 1 .. Last
      BY <2>0, <3>2, PortsOK
    <3> QED
      BY <2>1, <3>1, <3>3, OutsideStep DEF Connect
  <2>2. CASE ConnectFails
    BY <2>0, <2>2, OutsideStep DEF ConnectFails
  <2>3. CASE SessionReset
    <3>1. phase' \in {"session reset", "next"}
      BY <2>3 DEF SessionReset, Goto
    <3>2. at' = 1 \/ (at < Last /\ at' = at + 1)
      BY <2>3 DEF SessionReset, Goto
    <3>3. at' \in 1 .. Last
      BY <2>0, <3>2, PortsOK
    <3> QED
      BY <2>3, <3>1, <3>3, OutsideStep DEF SessionReset
  <2>4. CASE SessionResetFails
    BY <2>0, <2>4, OutsideStep DEF SessionResetFails
  <2>5. CASE NextTest
    BY <2>5, NextTestStep
  <2>6. CASE SetupReset
    BY <2>6, SetupResetStep
  <2>7. CASE SetupFails
    BY <2>0, <2>7, OutsideStep DEF SetupFails, Remembered
  <2>8. CASE SetupClear
    BY <2>8, SetupClearStep
  <2>9. ASSUME NEW p \in AllPorts, Use(p) \/ Arrive(p) PROVE IInv'
    BY <2>9, UseStep, ArriveStep
  <2>10. CASE EndTest
    BY <2>0, <2>10, OutsideStep DEF EndTest
  <2>11. CASE Teardown
    BY <2>0, <2>11, OutsideStep DEF Teardown
  <2>12. CASE UNCHANGED vars
    BY <2>12 DEF vars, device, IInv, TypeInv, Noted, SetUpBy, Progress, Ready, Key, OnlyNew
  <2> QED
    BY <2>1, <2>2, <2>3, <2>4, <2>5, <2>6, <2>7, <2>8, <2>9, <2>10, <2>11, <2>12 DEF Next
<1> QED
  BY <1>1, <1>2, PTL DEF Spec

-----------------------------------------------------------------------------
(***************************************************************************)
(* A test of function scope finds no device as another test has left it,   *)
(* one of module scope only what came after its module's first reset,      *)
(* unless a reset got no answer.                                           *)
(***************************************************************************)
THEOREM TestsIsolated == Spec => []Isolated
<1>1. IInv => Isolated
  <2> SUFFICES ASSUME IInv, phase = "run", NEW p \in AllPorts \ unsure
               PROVE  /\ tests[test].scope = "function" => touched[p] \subseteq {test}
                      /\ tests[test].scope = "module" =>
                            \A u \in touched[p] :
                               tests[u].module # tests[test].module => Revisited(test, u)
    BY DEF Isolated
  <2>1. Ready(p) /\ Noted
    BY DEF IInv, Progress
  <2>2. ASSUME tests[test].scope = "module", NEW u \in touched[p],
               tests[u].module # tests[test].module
        PROVE  Revisited(test, u)
    <3>1. <<p, tests[test].module>> \in modState
      BY <2>1, <2>2 DEF Ready, Key
    <3>2. SetUpBy(tests[test].module, u)
      BY <2>1, <2>2, <3>1 DEF Noted
    <3> QED
      BY <3>2 DEF SetUpBy, Revisited
  <2> QED
    BY <2>1, <2>2 DEF Ready
<1> QED
  BY <1>1, Invariance, PTL

(***************************************************************************)
(* After an answered reset a test meets no event of an earlier test.       *)
(***************************************************************************)
THEOREM OldEventsGone == Spec => []OldEventsNeedNoReset
<1>1. IInv => OldEventsNeedNoReset
  BY DEF IInv, OnlyNew, OldEventsNeedNoReset
<1> QED
  BY <1>1, Invariance, PTL

-----------------------------------------------------------------------------
\* What the session fixture has done by the time that something can fail.
Opening == /\ phase \in {"connect", "session reset"} => test = 0
           /\ phase = "session reset" => scope = "session"
           /\ phase = "over" /\ open # {} => scope = "session" /\ test = 0

(***************************************************************************)
(* A session leaves a port open only if a reset raised in its own fixture. *)
(***************************************************************************)
THEOREM SessionCloses == Spec => []ClosedInTheEnd
<1>1. Init => Opening
  BY DEF Init, Opening
<1>2. Opening /\ [Next]_vars => Opening'
  <2> SUFFICES ASSUME Opening, [Next]_vars PROVE Opening'
    OBVIOUS
  <2>1. CASE Connect
    BY <2>1 DEF Connect, Goto, Opening
  <2>2. CASE ConnectFails
    BY <2>2 DEF ConnectFails, ClosedAll, Opening
  <2>3. CASE SessionReset
    BY <2>3 DEF SessionReset, Goto, Opening
  <2>4. CASE SessionResetFails
    BY <2>4 DEF SessionResetFails, Opening
  <2>5. CASE NextTest \/ EndTest
    BY <2>5 DEF NextTest, EndTest, Opening
  <2>6. CASE SetupReset \/ SetupClear
    BY <2>6 DEF SetupReset, SetupClear, Goto, Opening
  <2>7. CASE SetupFails
    BY <2>7 DEF SetupFails, Opening
  <2>8. ASSUME NEW p \in AllPorts, Use(p) \/ Arrive(p) PROVE Opening'
    BY <2>8 DEF Use, Arrive, Opening
  <2>9. CASE Teardown
    BY <2>9 DEF Teardown, Opening
  <2>10. CASE UNCHANGED vars
    BY <2>10 DEF vars, Opening
  <2> QED
    BY <2>1, <2>2, <2>3, <2>4, <2>5, <2>6, <2>7, <2>8, <2>9, <2>10 DEF Next
<1>3. Opening => ClosedInTheEnd
  BY DEF Opening, ClosedInTheEnd
<1> QED
  BY <1>1, <1>2, <1>3, PTL DEF Spec
=============================================================================
