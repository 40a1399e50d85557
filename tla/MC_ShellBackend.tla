---- MODULE MC_ShellBackend ----
(* A UART shell and another one; of the commands, "list" is registered by  *)
(* the application under the name of a built-in.                           *)
EXTENDS ShellBackend

CONSTANTS uart, rtt, nobody, workq

MCShells     == {uart, rtt}
MCRegistered == {Prefixed("reset"), Prefixed("list"), Plain("list")}
====
