---- MODULE MC_HostDevice ----
(* Two threads on one Device: the first may reset and close it.  In one of *)
(* the configurations its on_line callback is the third.                   *)
EXTENDS HostDevice

CONSTANTS main, worker, callback

MCThreads  == {main, worker}
MCCallback == {main, worker, callback}

\* Bound of MC_HostEvents: a third operation or a second event, not both.
ThirdOrSecond == ops + raised <= 4
====
