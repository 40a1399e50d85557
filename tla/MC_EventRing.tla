---- MODULE MC_EventRing ----
(* A ring of three slots whose loss counter saturates at two: eight events *)
(* overflow it, saturate it, wrap both indices and empty it again.         *)
EXTENDS EventRing

MCDepth     == 3
MCDropMax   == 2
MCMaxEvents == 8
====
