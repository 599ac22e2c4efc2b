SPECIFICATION FairSpec
CHECK_DEADLOCK FALSE
CONSTANTS
  c1 = c1
  c2 = c2
  Conns = {c1}
  NULL = NULL
  a = a
  b = b
  nl = nl
  Byte = {a, b, nl}
  NL = nl
  Packet <- OnePacket
  Prefix <- TwoBytes
  SeekTos <- NoSeekTo
  BufferSize = 2
  MaxOps = 1
  MaxStarts = 1
  Faults = {"signal"}
PROPERTIES
  SignalEndsServer
