---- MODULE MC_Dispatch ----
(* Two fields: one without a string value, which is also the name of the   *)
(* count of lost events, and one whose string value fills what the first   *)
(* leaves of the arena.  Two slots and five bytes: the array overflows,    *)
(* the arena overflows on a name and on a value, both are filled exactly.  *)
EXTENDS Dispatch

MCFields     == {1, 2}
MCNameBytes  == [f \in MCFields |-> IF f = 1 THEN 1 ELSE 2]
MCValueBytes == [f \in MCFields |-> IF f = 1 THEN 0 ELSE 2]
====
