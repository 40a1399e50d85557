---- MODULE MC_DispatchShared ----
(* The instance of MC_Dispatch, with a second thread.   *)
EXTENDS DispatchShared

MCFields     == {1, 2}
MCNameBytes  == [f \in MCFields |-> IF f = 1 THEN 1 ELSE 2]
MCValueBytes == [f \in MCFields |-> IF f = 1 THEN 0 ELSE 2]
====
