SPECIFICATION Spec
CHECK_DEADLOCK FALSE
CONSTANTS
  Conns = {c1, c2, c3}
  Node = {n1, n2, n3}
  NULL = NULL
  Faults = {"create", "malloc", "session", "signal"}
INVARIANTS
  UsesAllocatedNodes
