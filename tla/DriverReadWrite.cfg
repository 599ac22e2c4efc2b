SPECIFICATION FairSpec
CONSTANTS
  MaxOps = 2
  NULL = NULL
  Threads = {t1, t2}
  Ptr = {1, 2, 3, 4, 5, 6, 7}
  a = a
  nl = nl
  Byte = {a, nl}
  NL = nl
  Payloads <- Packets
  ReadCounts = {3}
  Seeks <- OneSeek
  SeekTos <- OneSeekTo
  MaxAlloc = 3
  PosLimit = 64
  MaxPos = 2
  Faults = {"kmalloc", "efault", "signal"}
VIEW UpToAddresses
INVARIANTS
  TypeOK
  LockHeldInside
  OwnedOnce
  BlocksHoldTheirSize
  CommandsAreEnded
PROPERTIES
  MemoryLossIsConfined
  ReadsOneMoment
  ImplementsCommandLog
  EveryCallReturns
