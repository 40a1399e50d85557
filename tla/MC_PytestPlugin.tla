--------------------------- MODULE MC_PytestPlugin ---------------------------
(* Instances of PytestPlugin for TLC: two ports, four tests of two modules.  *)
EXTENDS PytestPlugin

CONSTANTS left, right, first, second

MC_Ports == <<left, right>>

Kinds == [module : {first, second}, scope : {"function", "module", "session"}]
MC_Tests == {<<a, b, c>> : a \in {k \in Kinds : k.module = first}, b, c \in Kinds}
=============================================================================
