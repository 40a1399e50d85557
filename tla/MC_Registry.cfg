CONSTANTS
  riglist = riglist
  twinA = twinA
  twinB = twinB
  under = under
  bare = bare
  NULL = NULL
  Nodes <- MC_Nodes
  NameOf <- MC_NameOf
  NArgs <- MC_NArgs
  Variadic <- MC_Variadic
  Unchecked = {riglist}
  List = riglist
  Static = {riglist, twinA}
  MaxBoots = 2
SPECIFICATION Spec
INVARIANTS
  Linked
  CheckedCallRuns
  AttributeOwn
  HandshakeReachesList
CHECK_DEADLOCK FALSE
