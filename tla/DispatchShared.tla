--------------------------- MODULE DispatchShared ---------------------------
(***************************************************************************)
(* A use of the output calls that Dispatch leaves out: RIG_EMIT_EVENT on a *)
(* thread other than the pump (rig_io_lock is taken around a dispatch and  *)
(* a flush only, and by no output call).                                   *)
(***************************************************************************)
EXTENDS Dispatch

VARIABLE appEv   \* the event whose line the other thread has open, 0 if none

sharedVars == <<vars, appEv>>

SharedInit == Init /\ appEv = 0

\* The pump's own steps; a reboot takes the other thread with it.
PumpStep == /\ Next
            /\ appEv' = IF pc' = "boot" THEN 0 ELSE appEv

AppOpen == /\ appEv = 0
           /\ NewEvent(0)
           /\ appEv' = Len(evs')
           /\ OpenLine(cap, <<Event(appEv')>>)
           /\ UNCHANGED <<cmdActive, pc, calls, ev, reqs>>

AppPair(f) == /\ appEv # 0
              /\ evs[appEv].pairs = <<>>
              /\ AddPair(appEv, f)
              /\ Emit(f)
              /\ UNCHANGED <<cmdActive, pc, calls, ev, reqs, appEv>>

AppClose == /\ appEv # 0
            /\ EndLine
            /\ appEv' = 0
            /\ UNCHANGED <<cmdActive, pc, calls, ev, reqs, evs>>

App == AppOpen \/ AppClose \/ \E f \in Fields : AppPair(f)

ThreadsSpec == SharedInit /\ [][PumpStep \/ App]_sharedVars

(***************************************************************************)
(* Events may be emitted "from thread context (the riglink thread or a     *)
(* workqueue)": such a line must not cut a response open.                  *)
(***************************************************************************)
ThreadContextSafe == WellFramed
=============================================================================
