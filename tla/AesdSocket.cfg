SPECIFICATION FairSpec
CHECK_DEADLOCK FALSE
CONSTANTS
  c1 = c1
  c2 = c2
  Conns = {c1, c2}
  NULL = NULL
  a = a
  b = b
  nl = nl
  Byte = {a, b, nl}
  NL = nl
  Packet <- Packets
  Prefix <- TwoBytes
  SeekTos <- OneSeekTo
  BufferSize = 2
  MaxOps = 1
  MaxStarts = 2
  Faults = {"start", "accept", "create", "open", "write", "drop", "send", "signal", "pipe"}
VIEW Relevant
INVARIANTS
  TypeOK
  MutexSpansSession
  PacketsDoNotMix
PROPERTIES
  ConnectionsEnd
  RepliesWithTheDevice
