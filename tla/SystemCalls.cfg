SPECIFICATION FairSpec
CHECK_DEADLOCK FALSE
CONSTANTS
  Threads = {t1, t2}
  Pid = {p1, p2, p3}
  NULL = NULL
  Ops = {"system", "exec", "redirect"}
  Outcomes = {"ok", "fails", "killed"}
  Fd = {1, 2}
  Faults = {"fork", "signal", "background"}
VIEW Relevant
INVARIANTS
  TypeOK
  EveryWaitHasAChild
PROPERTIES
  AloneAnswersItself
  FileLeakIsConfined
  EveryCallReturns
