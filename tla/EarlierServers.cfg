SPECIFICATION FairSpec
CHECK_DEADLOCK FALSE
CONSTANTS
  c1 = c1
  c2 = c2
  Conns = {c1, c2}
  NULL = NULL
  a = a
  NL = nl
  NUL = nul
  Packet <- Packets
  BufferSize = 2
  MaxEvents = 3
  Workers = {w1, w2}
  Stamper = stamper
  Stamp = stamp
  MaxStamps = 1
INVARIANTS
  TypeOK
  FileHoldsTheSession
  SocketsStayOpen
PROPERTIES
  RepliesWithTheFile
  ExitRemovesTheFile
  LockIsServed
  SignalEnds
