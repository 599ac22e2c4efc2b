SPECIFICATION Spec
CONSTANTS
  MaxOps = 2
  NULL = NULL
  Threads = {t1, t2}
  Ptr = {1, 2, 3, 4, 5, 6, 7, 8, 9}
  a = a
  nl = nl
  Byte = {a, nl}
  NL = nl
  Payloads <- Lines
  ReadCounts = {2}
  Seeks <- SomeSeeks
  SeekTos <- SomeSeekTos
  MaxAlloc = 3
  PosLimit = 64
  MaxPos = 3
  Faults = {"efault", "signal"}
VIEW UpToAddresses
INVARIANTS
  LockHeldInside
PROPERTIES
  SeeksLandInside
