------------------------ MODULE AesdCharDriverProofs ------------------------
(***************************************************************************)
(* What AesdCharDriver promises, for every number of threads, slots and    *)
(* memory blocks and for every set of arguments.                           *)
(***************************************************************************)
EXTENDS AesdCharDriver, DataLemmas

(* A thread has a kbuff exactly while it is in aesd_write.                 *)
WriterHasBuffer ==
  \A t \in Threads :
    IF pc[t] \in Writing
    THEN /\ kbuff[t] # NULL
         /\ req[t] \in {[op |-> "write", data |-> d] : d \in Payloads}
    ELSE kbuff[t] = NULL

(* Without the module no file is open.                                     *)
ClosedWhenUnloaded == ~loaded => \A t \in Threads : pc[t] = "closed"

BufferShape == loaded => WellFormed(circular_buffer)

(* There is something to commit.                                           *)
CommitHasCommand ==
  \A t \in Threads : pc[t] = "w_commit" => write_accumulator # NULL

IInv ==
  /\ TypeOK
  /\ LockHeldInside
  /\ OwnedOnce
  /\ WriterHasBuffer
  /\ ClosedWhenUnloaded
  /\ BufferShape
  /\ CommitHasCommand

-----------------------------------------------------------------------------
(* The steps of a call that touch neither the device nor the heap.         *)
Quiet(t) ==
  \/ Open(t) \/ Release(t)
  \/ WriteRefused(t)
  \/ ReadEnter(t) \/ SeekEnter(t) \/ IoctlEnter(t) \/ IoctlRefused(t)
  \/ Acquire(t)
  \/ ReadPastEnd(t) \/ ReadBegin(t) \/ ReadCopy(t) \/ ReadFaults(t)
  \/ ReadUnlock(t)
  \/ Seek(t) \/ SeekRefused(t)
  \/ IoctlSeek(t)

LEMMA NextCases ==
  ASSUME [Next]_vars
  PROVE  \/ InitModule \/ CleanupModule
         \/ \E t \in Threads :
              \/ WriteEnter(t) \/ Interrupted(t)
              \/ AppendRefused(t) \/ WriteAppend(t)
              \/ WriteCommit(t) \/ WriteUnlock(t)
              \/ Quiet(t)
         \/ UNCHANGED vars
BY Zenon DEF Next, Call, Step, Quiet

LEMMA QuietKeeps ==
  ASSUME NEW t \in Threads, Quiet(t)
  PROVE  UNCHANGED <<device, heap, kbuff>>
<1> USE DEF Refuse, Enter, Goto, Return, device, heap
<1>1. CASE Open(t) \/ Release(t) \/ Acquire(t)
  BY <1>1 DEF Open, Release, Acquire
<1>2. CASE WriteRefused(t) \/ IoctlRefused(t)
  BY <1>2 DEF WriteRefused, IoctlRefused
<1>3. CASE ReadEnter(t) \/ SeekEnter(t) \/ IoctlEnter(t)
  BY <1>3 DEF ReadEnter, SeekEnter, IoctlEnter
<1>4. CASE ReadPastEnd(t) \/ ReadBegin(t) \/ ReadCopy(t) \/ ReadFaults(t)
           \/ ReadUnlock(t)
  BY <1>4 DEF ReadPastEnd, ReadBegin, ReadCopy, ReadFaults, ReadUnlock
<1>5. CASE Seek(t) \/ SeekRefused(t) \/ IoctlSeek(t)
  BY <1>5 DEF Seek, SeekRefused, IoctlSeek
<1> QED
  BY <1>1, <1>2, <1>3, <1>4, <1>5 DEF Quiet

(* kmalloc returns a block nobody has.                                     *)
LEMMA FreshBlock ==
  ASSUME alloc \subseteq Ptr, ~Exhausted
  PROVE  Fresh \in Ptr /\ Fresh \notin alloc /\ Fresh # NULL
<1>1. \E p \in Ptr \ alloc : TRUE
  BY DEF Exhausted
<1> QED
  BY <1>1, DriverAssumption DEF Fresh

LEMMA InitIInv == Init => IInv
<1> SUFFICES ASSUME Init PROVE IInv
  OBVIOUS
<1>1. circular_buffer \in BufferType(Ptr) /\ circular_buffer = EmptyBuffer
  BY EmptyBufferGood DEF Init
<1>2. TypeOK
  <2>1. mem \in [Ptr -> Seq(Byte)]
    BY DEF Init
  <2>2. req \in [Threads -> Request]
    BY DEF Init, Request
  <2>3. pc \in [Threads -> Labels]
    BY DEF Init, Labels
  <2> QED
    BY <1>1, <2>1, <2>2, <2>3 DEF Init, TypeOK
<1>3. LockHeldInside
  BY DriverAssumption DEF Init, LockHeldInside, Inside
<1>4. OwnedOnce
  BY <1>1 DEF Init, OwnedOnce, EntryPtr, EmptyBuffer, EmptyEntry
<1>5. WriterHasBuffer /\ ClosedWhenUnloaded /\ BufferShape /\ CommitHasCommand
  BY DEF Init, WriterHasBuffer, Writing, ClosedWhenUnloaded, BufferShape,
         CommitHasCommand
<1> QED
  BY <1>2, <1>3, <1>4, <1>5 DEF IInv

-----------------------------------------------------------------------------
(* The shape of a call keeps pc and req in their types.                    *)
LEMMA LabelSets ==
  /\ Inside \subseteq Labels /\ Writing \subseteq Labels
  /\ Reading \subseteq Labels /\ Waiting \subseteq Labels
  /\ "closed" \in Labels /\ "idle" \in Labels
  /\ "s_lock" \in Labels /\ "i_lock" \in Labels
BY DEF Labels, Inside, Writing, Reading, Waiting

LEMMA LockedLabel ==
  ASSUME NEW label \in Waiting
  PROVE  /\ Locked(label) \in Inside
         /\ label \in Writing <=> Locked(label) \in Writing
         /\ Locked(label) # "w_commit"
BY DEF Waiting, Locked, Inside, Writing

LEMMA QuietCalls ==
  ASSUME TypeOK, NEW t \in Threads, Quiet(t)
  PROVE  /\ pc' \in [Threads -> Labels]
         /\ req' \in [Threads -> Request]
         /\ lock' \in Threads \cup {NULL}
<1> USE DEF TypeOK
<1>1. CASE Open(t) \/ Release(t)
  BY <1>1, LabelSets DEF Open, Release, Goto
<1>2. CASE Acquire(t)
  <2>1. Locked(pc[t]) \in Labels
    BY <1>2, LockedLabel, LabelSets DEF Acquire
  <2> QED
    BY <1>2, <2>1 DEF Acquire, Goto
<1>3. CASE WriteRefused(t) \/ IoctlRefused(t)
  BY <1>3 DEF WriteRefused, IoctlRefused, Refuse
<1>4. CASE ReadEnter(t)
  BY <1>4, LabelSets DEF ReadEnter, Enter, Request, Reading
<1>5. CASE SeekEnter(t)
  <2>1. PICK s \in Seeks :
          Enter(t, "s_lock",
                [op |-> "llseek", whence |-> s.whence, offset |-> s.offset])
    BY <1>5 DEF SeekEnter
  <2>2. [op |-> "llseek", whence |-> s.whence, offset |-> s.offset] \in Request
    BY DEF Request
  <2> QED
    BY <1>5, <2>1, <2>2, LabelSets DEF SeekEnter, Enter
<1>6. CASE IoctlEnter(t)
  <2>1. PICK s \in SeekTos :
          Enter(t, "i_lock",
                [op               |-> "ioctl",
                 write_cmd        |-> s.write_cmd,
                 write_cmd_offset |-> s.write_cmd_offset])
    BY <1>6 DEF IoctlEnter
  <2>2. [op               |-> "ioctl",
         write_cmd        |-> s.write_cmd,
         write_cmd_offset |-> s.write_cmd_offset] \in Request
    BY DEF Request
  <2> QED
    BY <1>6, <2>1, <2>2, LabelSets DEF IoctlEnter, Enter
<1>7. CASE ReadBegin(t) \/ ReadCopy(t)
  BY <1>7, LabelSets DEF ReadBegin, ReadCopy, Goto, Reading
<1>8. CASE \/ ReadPastEnd(t) \/ ReadFaults(t) \/ ReadUnlock(t)
           \/ Seek(t) \/ SeekRefused(t) \/ IoctlSeek(t)
  <2>1. /\ pc' = [pc EXCEPT ![t] = "idle"]
        /\ req' = [req EXCEPT ![t] = NoReq]
        /\ lock' = NULL
    BY <1>8 DEF ReadPastEnd, ReadFaults, ReadUnlock, Seek, SeekRefused,
                IoctlSeek, Return
  <2> QED
    BY <2>1, LabelSets DEF Request
<1> QED
  BY <1>1, <1>2, <1>3, <1>4, <1>5, <1>6, <1>7, <1>8 DEF Quiet

(* Freeing blocks keeps the heap in its type.                              *)
LEMMA ErasedType ==
  ASSUME mem \in [Ptr -> Seq(Byte)], NEW S
  PROVE  Erased(S) \in [Ptr -> Seq(Byte)]
BY DEF Erased

LEMMA ReturnType ==
  ASSUME TypeOK, NEW t \in Threads, NEW value, Return(t, value)
  PROVE  pc' \in [Threads -> Labels] /\ req' \in [Threads -> Request]
BY LabelSets DEF TypeOK, Return, Request

(* What a writer brought is a sequence of bytes.                           *)
LEMMA WriterData ==
  ASSUME WriterHasBuffer, NEW t \in Threads, pc[t] \in Writing
  PROVE  req[t].data \in Seq(Byte) /\ Len(req[t].data) \in Nat
<1>1. PICK d \in Payloads : req[t] = [op |-> "write", data |-> d]
  BY DEF WriterHasBuffer
<1>2. d \in Seq(Byte)
  BY DriverAssumption
<1> QED
  BY <1>1, <1>2

LEMMA ContentsType ==
  ASSUME mem \in [Ptr -> Seq(Byte)], NEW p \in Ptr \cup {NULL}
  PROVE  Contents(p) \in Seq(Byte)
BY DEF Contents

LEMMA TypeNext == IInv /\ [Next]_vars => TypeOK'
<1> SUFFICES ASSUME IInv, [Next]_vars PROVE TypeOK'
  OBVIOUS
<1> USE DEF IInv, TypeOK
<1>1. CASE InitModule
  BY <1>1, EmptyBufferGood DEF InitModule, heap, caller
<1>2. CASE CleanupModule
  <2>1. circular_buffer' \in BufferType(Ptr)
    BY <1>2 DEF CleanupModule, BufferType
  <2>2. mem' \in [Ptr -> Seq(Byte)]
    BY <1>2, ErasedType DEF CleanupModule
  <2> QED
    BY <1>2, <2>1, <2>2 DEF CleanupModule, caller
<1>3. ASSUME NEW t \in Threads, WriteEnter(t) PROVE TypeOK'
  <2>1. PICK data \in Payloads :
          /\ MayGrant(Len(data))
          /\ Enter(t, "w_lock", [op |-> "write", data |-> data])
          /\ alloc' = alloc \cup {Fresh}
          /\ mem'   = [mem EXCEPT ![Fresh] = data]
          /\ kbuff' = [kbuff EXCEPT ![t] = Fresh]
          /\ UNCHANGED <<device, lock, copied, f_pos>>
    BY <1>3 DEF WriteEnter
  <2>2. Fresh \in Ptr
    BY <2>1, FreshBlock DEF MayGrant
  <2>3. mem' \in [Ptr -> Seq(Byte)]
    BY <2>1, <2>2, DriverAssumption
  <2>4. pc' \in [Threads -> Labels] /\ req' \in [Threads -> Request]
    BY <2>1, LabelSets DEF Enter, Request, Writing
  <2> QED
    BY <2>1, <2>2, <2>3, <2>4 DEF device
<1>4. ASSUME NEW t \in Threads,
             Interrupted(t) \/ AppendRefused(t) \/ WriteUnlock(t)
      PROVE  TypeOK'
  <2>1. \E value : Return(t, value)
    BY <1>4 DEF Interrupted, AppendRefused, WriteUnlock
  <2>2. pc' \in [Threads -> Labels] /\ req' \in [Threads -> Request]
    BY <2>1, ReturnType
  <2>3. /\ alloc' = alloc \ {kbuff[t]}
        /\ mem' = Erased({kbuff[t]})
        /\ kbuff' = [kbuff EXCEPT ![t] = NULL]
        /\ lock' = lock \/ lock' = NULL
        /\ UNCHANGED device
    BY <1>4 DEF Interrupted, AppendRefused, WriteUnlock
  <2>4. mem' \in [Ptr -> Seq(Byte)]
    BY <2>3, ErasedType
  <2> QED
    BY <2>2, <2>3, <2>4 DEF device
<1>5. ASSUME NEW t \in Threads, WriteAppend(t) PROVE TypeOK'
  <2> DEFINE size  == accumulator_size + Len(req[t].data)
             bytes == Contents(write_accumulator) \o mem[kbuff[t]]
  <2>1. PICK p \in Grown(size) :
          /\ alloc' = (alloc \ {write_accumulator}) \cup {p}
          /\ mem'   = [Erased({write_accumulator}) EXCEPT ![p] = bytes]
          /\ write_accumulator' = p
    BY <1>5 DEF WriteAppend
  <2>2. p \in Ptr
    BY <2>1, FreshBlock DEF Grown
  <2>3. pc[t] \in Writing /\ kbuff[t] \in Ptr
    BY <1>5 DEF WriteAppend, WriterHasBuffer, Writing
  <2>4. size \in Nat
    BY <2>3, WriterData
  <2>5. bytes \in Seq(Byte)
    BY <2>3, ContentsType
  <2>6. mem' \in [Ptr -> Seq(Byte)]
    BY <2>1, <2>2, <2>5, ErasedType
  <2>7. /\ accumulator_size' = size
        /\ pc' = [pc EXCEPT ![t] = IF CommandEnded(bytes) THEN "w_commit"
                                                          ELSE "w_unlock"]
        /\ UNCHANGED <<loaded, circular_buffer, lock, req, kbuff>>
    BY <1>5 DEF WriteAppend, Goto
  <2>8. pc' \in [Threads -> Labels]
    BY <2>7, LabelSets DEF Writing
  <2> QED
    BY <2>1, <2>2, <2>4, <2>6, <2>7, <2>8
<1>6. ASSUME NEW t \in Threads, WriteCommit(t) PROVE TypeOK'
  <2>1. CASE Stored
    <3>1. circular_buffer' \in BufferType(Ptr)
      BY <2>1, AddEntryType DEF Stored
    <3>2. Fresh \in Ptr
      BY <2>1, FreshBlock DEF Stored, MayGrant
    <3>3. mem' \in [Ptr -> Seq(Byte)]
      BY <2>1, ErasedType DEF Stored
    <3> QED
      BY <1>6, <2>1, <3>1, <3>2, <3>3, LabelSets
         DEF Stored, WriteCommit, Goto, Writing
  <2>2. CASE NotStored
    BY <1>6, <2>2, LabelSets DEF NotStored, WriteCommit, Goto, heap, Writing
  <2> QED
    BY <1>6, <2>1, <2>2 DEF WriteCommit
<1>7. ASSUME NEW t \in Threads, Quiet(t) PROVE TypeOK'
  BY <1>7, QuietKeeps, QuietCalls DEF device, heap
<1>8. CASE UNCHANGED vars
  BY <1>8 DEF vars, device, heap, caller
<1> QED
  BY <1>1, <1>2, <1>3, <1>4, <1>5, <1>6, <1>7, <1>8, NextCases

-----------------------------------------------------------------------------
(* Every return of a call that holds the mutex gives it back, every call   *)
(* that takes it goes on inside.                                           *)
LEMMA LockNext == IInv /\ [Next]_vars => LockHeldInside'
<1> SUFFICES ASSUME IInv, [Next]_vars PROVE LockHeldInside'
  OBVIOUS
<1>0. /\ pc \in [Threads -> Labels]
      /\ lock \in Threads \cup {NULL}
      /\ \A t \in Threads : pc[t] \in Inside <=> lock = t
      /\ NULL \notin Threads
  BY DriverAssumption DEF IInv, TypeOK, LockHeldInside
<1>1. CASE InitModule
  BY <1>0, <1>1 DEF InitModule, caller, LockHeldInside
<1>2. CASE CleanupModule
  BY <1>0, <1>2 DEF CleanupModule, caller, LockHeldInside
(* A call that starts, ends or goes on outside the mutex.                  *)
<1>3. ASSUME NEW t \in Threads, NEW label,
             pc[t] \notin Inside, label \notin Inside,
             pc' = [pc EXCEPT ![t] = label], lock' = lock
      PROVE  LockHeldInside'
  BY <1>0, <1>3 DEF LockHeldInside
(* A call that goes on inside.                                             *)
<1>4. ASSUME NEW t \in Threads, NEW label,
             pc[t] \in Inside, label \in Inside,
             pc' = [pc EXCEPT ![t] = label], lock' = lock
      PROVE  LockHeldInside'
  BY <1>0, <1>4 DEF LockHeldInside
(* A call that unlocks and returns.                                        *)
<1>5. ASSUME NEW t \in Threads,
             pc[t] \in Inside,
             pc' = [pc EXCEPT ![t] = "idle"], lock' = NULL
      PROVE  LockHeldInside'
  BY <1>0, <1>5 DEF LockHeldInside, Inside
<1>6. ASSUME NEW t \in Threads, Acquire(t) PROVE LockHeldInside'
  <2>1. /\ pc[t] \notin Inside
        /\ Locked(pc[t]) \in Inside
    BY <1>6, LockedLabel DEF Acquire, Waiting, Inside
  <2>2. pc' = [pc EXCEPT ![t] = Locked(pc[t])] /\ lock = NULL /\ lock' = t
    BY <1>6 DEF Acquire, Goto
  <2> QED
    BY <1>0, <2>1, <2>2 DEF LockHeldInside
<1>7. ASSUME NEW t \in Threads,
             \/ WriteEnter(t) \/ ReadEnter(t) \/ SeekEnter(t) \/ IoctlEnter(t)
      PROVE  LockHeldInside'
  <2>1. \E label \in Waiting :
          pc[t] = "idle" /\ pc' = [pc EXCEPT ![t] = label] /\ lock' = lock
    BY <1>7 DEF WriteEnter, ReadEnter, SeekEnter, IoctlEnter, Enter, Waiting
  <2> QED
    BY <1>3, <2>1 DEF Waiting, Inside
<1>8. ASSUME NEW t \in Threads, Open(t) \/ Release(t) \/ Interrupted(t)
      PROVE  LockHeldInside'
  <2>1. /\ pc[t] \in {"closed", "idle"} \cup Waiting
        /\ pc' = [pc EXCEPT ![t] = "idle"] \/ pc' = [pc EXCEPT ![t] = "closed"]
        /\ lock' = lock
    BY <1>8 DEF Open, Release, Interrupted, Goto, Return
  <2> QED
    BY <1>3, <2>1 DEF Waiting, Inside
<1>9. ASSUME NEW t \in Threads,
             \/ AppendRefused(t) \/ WriteUnlock(t)
             \/ ReadPastEnd(t) \/ ReadFaults(t) \/ ReadUnlock(t)
             \/ Seek(t) \/ SeekRefused(t) \/ IoctlSeek(t)
      PROVE  LockHeldInside'
  <2>1. /\ pc[t] \in Inside
        /\ pc' = [pc EXCEPT ![t] = "idle"]
        /\ lock' = NULL
    BY <1>9 DEF AppendRefused, WriteUnlock, ReadPastEnd, ReadFaults,
                ReadUnlock, Seek, SeekRefused, IoctlSeek, Return, Inside
  <2> QED
    BY <1>5, <2>1
<1>10. ASSUME NEW t \in Threads,
              WriteAppend(t) \/ WriteCommit(t) \/ ReadBegin(t)
       PROVE  LockHeldInside'
  <2>1. /\ pc[t] \in Inside
        /\ \E label \in Inside : pc' = [pc EXCEPT ![t] = label]
        /\ lock' = lock
    BY <1>10 DEF WriteAppend, WriteCommit, ReadBegin, Goto, Inside
  <2> QED
    BY <1>4, <2>1
<1>11. ASSUME NEW t \in Threads,
              WriteRefused(t) \/ IoctlRefused(t) \/ ReadCopy(t)
       PROVE  LockHeldInside'
  <2>1. pc' = pc /\ lock' = lock
    BY <1>11 DEF WriteRefused, IoctlRefused, Refuse, ReadCopy
  <2> QED
    BY <1>0, <2>1 DEF LockHeldInside
<1>12. CASE UNCHANGED vars
  BY <1>0, <1>12 DEF vars, caller, LockHeldInside
<1> QED
  BY <1>1, <1>2, <1>6, <1>7, <1>8, <1>9, <1>10, <1>11, <1>12, NextCases
     DEF Quiet

-----------------------------------------------------------------------------
(* A writer gets its kbuff when it enters and gives it up when it returns. *)
LEMMA WriterNext == IInv /\ [Next]_vars => WriterHasBuffer'
<1> SUFFICES ASSUME IInv, [Next]_vars PROVE WriterHasBuffer'
  OBVIOUS
<1>0. /\ pc \in [Threads -> Labels]
      /\ req \in [Threads -> Request]
      /\ kbuff \in [Threads -> Ptr \cup {NULL}]
      /\ WriterHasBuffer
  BY DEF IInv, TypeOK
(* Thread t starts or goes on outside aesd_write.                          *)
<1>1. ASSUME NEW t \in Threads, NEW label,
             pc[t] \notin Writing, label \notin Writing,
             pc' = [pc EXCEPT ![t] = label],
             \A u \in Threads \ {t} : req'[u] = req[u],
             kbuff' = kbuff
      PROVE  WriterHasBuffer'
  BY <1>0, <1>1 DEF WriterHasBuffer
(* Thread t goes on inside aesd_write.                                     *)
<1>2. ASSUME NEW t \in Threads, NEW label,
             pc[t] \in Writing, label \in Writing,
             pc' = [pc EXCEPT ![t] = label],
             req' = req, kbuff' = kbuff
      PROVE  WriterHasBuffer'
  BY <1>0, <1>2 DEF WriterHasBuffer
(* Thread t leaves the driver without a kbuff.                             *)
<1>3. ASSUME NEW t \in Threads, NEW value,
             Return(t, value), kbuff' = [kbuff EXCEPT ![t] = NULL]
      PROVE  WriterHasBuffer'
  BY <1>0, <1>3 DEF WriterHasBuffer, Return, Writing
<1>4. CASE InitModule \/ CleanupModule \/ UNCHANGED vars
  <2>1. UNCHANGED <<pc, req, kbuff>>
    BY <1>4 DEF InitModule, CleanupModule, vars, caller
  <2> QED
    BY <1>0, <2>1 DEF WriterHasBuffer
<1>5. ASSUME NEW t \in Threads, WriteEnter(t) PROVE WriterHasBuffer'
  <2>1. PICK data \in Payloads :
          /\ MayGrant(Len(data))
          /\ Enter(t, "w_lock", [op |-> "write", data |-> data])
          /\ kbuff' = [kbuff EXCEPT ![t] = Fresh]
    BY <1>5 DEF WriteEnter
  <2>2. Fresh # NULL
    BY <2>1, FreshBlock DEF MayGrant, IInv, TypeOK
  <2> QED
    BY <1>0, <2>1, <2>2 DEF Enter, WriterHasBuffer, Writing
<1>6. ASSUME NEW t \in Threads,
             Interrupted(t) \/ AppendRefused(t) \/ WriteUnlock(t)
      PROVE  WriterHasBuffer'
  BY <1>3, <1>6 DEF Interrupted, AppendRefused, WriteUnlock
<1>7. ASSUME NEW t \in Threads, WriteAppend(t) \/ WriteCommit(t)
      PROVE  WriterHasBuffer'
  <2>1. /\ pc[t] \in Writing
        /\ \E label \in Writing : pc' = [pc EXCEPT ![t] = label]
        /\ req' = req /\ kbuff' = kbuff
    BY <1>7 DEF WriteAppend, WriteCommit, Goto, Writing
  <2> QED
    BY <1>2, <2>1
<1>8. ASSUME NEW t \in Threads, Acquire(t) PROVE WriterHasBuffer'
  <2>1. /\ pc[t] \in Writing <=> Locked(pc[t]) \in Writing
        /\ pc' = [pc EXCEPT ![t] = Locked(pc[t])]
        /\ req' = req /\ kbuff' = kbuff
    BY <1>8, LockedLabel DEF Acquire, Goto
  <2> QED
    BY <1>1, <1>2, <2>1
<1>9. ASSUME NEW t \in Threads, WriteRefused(t) \/ IoctlRefused(t)
      PROVE  WriterHasBuffer'
  <2>1. UNCHANGED <<pc, req, kbuff>>
    BY <1>9 DEF WriteRefused, IoctlRefused, Refuse
  <2> QED
    BY <1>0, <2>1 DEF WriterHasBuffer
<1>10. ASSUME NEW t \in Threads,
              \/ Open(t) \/ Release(t)
              \/ ReadEnter(t) \/ SeekEnter(t) \/ IoctlEnter(t)
              \/ ReadPastEnd(t) \/ ReadBegin(t) \/ ReadCopy(t)
              \/ ReadFaults(t) \/ ReadUnlock(t)
              \/ Seek(t) \/ SeekRefused(t) \/ IoctlSeek(t)
       PROVE  WriterHasBuffer'
  <2>1. pc[t] \notin Writing
    BY <1>10 DEF Open, Release, ReadEnter, SeekEnter, IoctlEnter, Enter,
                 ReadPastEnd, ReadBegin, ReadCopy, ReadFaults, ReadUnlock,
                 Seek, SeekRefused, IoctlSeek, Writing
  <2>2. \E label : label \notin Writing /\ pc' = [pc EXCEPT ![t] = label]
    <3>1. CASE ReadCopy(t)
      BY <1>0, <2>1, <3>1 DEF ReadCopy
    <3> QED
      BY <1>10, <3>1
         DEF Open, Release, ReadEnter, SeekEnter, IoctlEnter, Enter, Goto,
             ReadPastEnd, ReadBegin, ReadFaults, ReadUnlock,
             Seek, SeekRefused, IoctlSeek, Return, Writing
  <2>3. \A u \in Threads \ {t} : req'[u] = req[u]
    BY <1>0, <1>10
       DEF Open, Release, ReadEnter, SeekEnter, IoctlEnter, Enter,
           ReadPastEnd, ReadBegin, ReadCopy, ReadFaults, ReadUnlock,
           Seek, SeekRefused, IoctlSeek, Return
  <2>4. kbuff' = kbuff
    BY <1>10, QuietKeeps DEF Quiet
  <2> QED
    BY <1>1, <2>1, <2>2, <2>3, <2>4
<1> QED
  BY <1>4, <1>5, <1>6, <1>7, <1>8, <1>9, <1>10, NextCases DEF Quiet

(* Files are open only while the module is there: the kernel counts them.  *)
LEMMA ClosedNext == IInv /\ [Next]_vars => ClosedWhenUnloaded'
<1> SUFFICES ASSUME IInv, [Next]_vars PROVE ClosedWhenUnloaded'
  OBVIOUS
<1>0. /\ pc \in [Threads -> Labels]
      /\ loaded \in BOOLEAN
      /\ ClosedWhenUnloaded
  BY DEF IInv, TypeOK
<1>1. CASE InitModule \/ CleanupModule \/ UNCHANGED vars
  BY <1>0, <1>1 DEF InitModule, CleanupModule, vars, device, caller,
                    ClosedWhenUnloaded
<1>2. ASSUME NEW t \in Threads, loaded, loaded' = loaded
      PROVE  ClosedWhenUnloaded'
  BY <1>2 DEF ClosedWhenUnloaded
<1>3. ASSUME NEW t \in Threads,
             \/ WriteEnter(t) \/ Interrupted(t) \/ AppendRefused(t)
             \/ WriteAppend(t) \/ WriteCommit(t) \/ WriteUnlock(t)
      PROVE  ClosedWhenUnloaded'
  <2>1. loaded' = loaded /\ pc[t] # "closed"
    BY <1>3 DEF WriteEnter, Enter, Interrupted, Waiting, AppendRefused,
                WriteAppend, WriteCommit, WriteUnlock, device
  <2> QED
    BY <1>0, <1>2, <2>1 DEF ClosedWhenUnloaded
<1>4. ASSUME NEW t \in Threads, Quiet(t) PROVE ClosedWhenUnloaded'
  <2>1. loaded' = loaded
    BY <1>4, QuietKeeps DEF device
  <2>2. CASE Open(t)
    BY <1>2, <2>1, <2>2 DEF Open
  <2>3. CASE ~Open(t)
    <3>1. pc[t] # "closed"
      BY <1>4, <2>3
         DEF Quiet, Release, WriteRefused, IoctlRefused, Refuse, ReadEnter,
             SeekEnter, IoctlEnter, Enter, Acquire, Waiting, ReadPastEnd,
             ReadBegin, ReadCopy, ReadFaults, ReadUnlock, Seek, SeekRefused,
             IoctlSeek
    <3> QED
      BY <1>0, <1>2, <2>1, <3>1 DEF ClosedWhenUnloaded
  <2> QED
    BY <2>2, <2>3
<1> QED
  BY <1>1, <1>3, <1>4, NextCases

(* What a commit stores is a block: the buffer keeps its shape.            *)
LEMMA ShapeNext == IInv /\ [Next]_vars => BufferShape'
<1> SUFFICES ASSUME IInv, [Next]_vars PROVE BufferShape'
  OBVIOUS
<1>0. BufferShape /\ TypeOK
  BY DEF IInv
<1>1. CASE InitModule
  BY <1>1, EmptyBufferGood DEF InitModule, BufferShape
<1>2. CASE CleanupModule
  BY <1>2 DEF CleanupModule, BufferShape
<1>3. ASSUME loaded' = loaded, circular_buffer' = circular_buffer
      PROVE  BufferShape'
  BY <1>0, <1>3 DEF BufferShape
<1>4. ASSUME NEW t \in Threads, WriteCommit(t) PROVE BufferShape'
  <2>1. CASE Stored
    <3>1. loaded /\ write_accumulator # NULL
      BY <1>4 DEF WriteCommit, IInv, ClosedWhenUnloaded, CommitHasCommand
    <3>2. WellFormed(circular_buffer')
      BY <1>0, <2>1, <3>1, AddEntryWellFormed DEF Stored, BufferShape, TypeOK
    <3> QED
      BY <3>2 DEF BufferShape
  <2>2. CASE NotStored
    BY <1>3, <1>4, <2>2 DEF NotStored, WriteCommit
  <2> QED
    BY <1>4, <2>1, <2>2 DEF WriteCommit
<1>5. ASSUME NEW t \in Threads,
             \/ WriteEnter(t) \/ Interrupted(t) \/ AppendRefused(t)
             \/ WriteAppend(t) \/ WriteUnlock(t)
      PROVE  BufferShape'
  BY <1>3, <1>5 DEF WriteEnter, Interrupted, AppendRefused, WriteAppend,
                    WriteUnlock, device
<1>6. ASSUME NEW t \in Threads, Quiet(t) PROVE BufferShape'
  BY <1>3, <1>6, QuietKeeps DEF device
<1>7. CASE UNCHANGED vars
  BY <1>3, <1>7 DEF vars, device
<1> QED
  BY <1>1, <1>2, <1>4, <1>5, <1>6, <1>7, NextCases

(* The accumulator stays while its writer is between append and commit:    *)
(* the others wait for the mutex.                                          *)
LEMMA CommitNext == IInv /\ [Next]_vars => CommitHasCommand'
<1> SUFFICES ASSUME IInv, [Next]_vars PROVE CommitHasCommand'
  OBVIOUS
<1>0. /\ pc \in [Threads -> Labels]
      /\ alloc \subseteq Ptr
      /\ write_accumulator \in Ptr \cup {NULL}
      /\ CommitHasCommand
      /\ \A t \in Threads : pc[t] \in Inside <=> lock = t
      /\ "w_commit" \in Inside
  BY DEF IInv, TypeOK, LockHeldInside, Inside
(* A step of t that leaves the accumulator alone and does not go to commit. *)
<1>1. ASSUME NEW t \in Threads, NEW label, label # "w_commit",
             write_accumulator' = write_accumulator,
             pc' = [pc EXCEPT ![t] = label] \/ pc' = pc
      PROVE  CommitHasCommand'
  BY <1>0, <1>1 DEF CommitHasCommand
<1>2. CASE InitModule
  BY <1>2 DEF InitModule, caller, IInv, ClosedWhenUnloaded, CommitHasCommand
<1>3. CASE CleanupModule \/ UNCHANGED vars
  <2>1. UNCHANGED <<pc, write_accumulator>>
    BY <1>3 DEF CleanupModule, vars, device, caller
  <2> QED
    BY <1>0, <2>1 DEF CommitHasCommand
<1>4. ASSUME NEW t \in Threads, WriteAppend(t) PROVE CommitHasCommand'
  <2>1. write_accumulator' \in Ptr
    BY <1>0, <1>4, FreshBlock DEF WriteAppend, Grown
  <2> QED
    BY <2>1, DriverAssumption DEF CommitHasCommand
<1>5. ASSUME NEW t \in Threads, WriteCommit(t) PROVE CommitHasCommand'
  <2>1. pc[t] = "w_commit" /\ pc' = [pc EXCEPT ![t] = "w_unlock"]
    BY <1>5 DEF WriteCommit, Goto
  <2>2. \A u \in Threads : pc'[u] # "w_commit"
    BY <1>0, <2>1
  <2> QED
    BY <2>2 DEF CommitHasCommand
<1>6. ASSUME NEW t \in Threads,
             \/ WriteEnter(t) \/ Interrupted(t)
             \/ AppendRefused(t) \/ WriteUnlock(t)
      PROVE  CommitHasCommand'
  <2>1. /\ write_accumulator' = write_accumulator
        /\ \E label \in {"w_lock", "idle"} : pc' = [pc EXCEPT ![t] = label]
    BY <1>6 DEF WriteEnter, Enter, Interrupted, AppendRefused, WriteUnlock,
                Return, device
  <2> QED
    BY <1>1, <2>1
<1>7. ASSUME NEW t \in Threads, Quiet(t) PROVE CommitHasCommand'
  <2>1. write_accumulator' = write_accumulator
    BY <1>7, QuietKeeps DEF device
  <2>2. CASE Acquire(t)
    BY <1>1, <2>1, <2>2, LockedLabel DEF Acquire, Goto
  <2>3. CASE ~Acquire(t)
    <3>1. \/ pc' = pc
          \/ \E label \in {"idle", "closed", "r_lock", "s_lock", "i_lock",
                           "r_copy"} : pc' = [pc EXCEPT ![t] = label]
      BY <1>7, <2>3
         DEF Quiet, Open, Release, WriteRefused, IoctlRefused, Refuse,
             ReadEnter, SeekEnter, IoctlEnter, Enter, Goto, ReadPastEnd,
             ReadBegin, ReadCopy, ReadFaults, ReadUnlock, Seek, SeekRefused,
             IoctlSeek, Return
    <3> QED
      BY <1>1, <2>1, <3>1
  <2> QED
    BY <2>2, <2>3
<1> QED
  BY <1>2, <1>3, <1>4, <1>5, <1>6, <1>7, NextCases

-----------------------------------------------------------------------------
(* What add_entry displaces is what the slot in_offs holds: the oldest     *)
(* entry of a full buffer, nothing otherwise.                              *)
LEMMA OverwrittenIsNext ==
  ASSUME IInv, NEW t \in Threads, WriteCommit(t)
  PROVE  Overwritten(circular_buffer) = EntryPtr(circular_buffer.in_offs)
<1> DEFINE in == circular_buffer.in_offs
<1>1. circular_buffer \in BufferType(Ptr) /\ WellFormed(circular_buffer)
  BY DEF WriteCommit, IInv, TypeOK, ClosedWhenUnloaded, BufferShape
<1>2. in \in Slots /\ circular_buffer.full \in BOOLEAN
  BY <1>1 DEF BufferType
<1>3. CASE circular_buffer.full
  BY <1>1, <1>3 DEF Overwritten, EntryPtr, WellFormed
<1>4. CASE ~circular_buffer.full
  <2>1. ~Used(circular_buffer, in)
    BY <1>2, <1>4 DEF Used, Slots
  <2>2. circular_buffer.entry[in] = EmptyEntry
    BY <1>1, <1>2, <2>1 DEF WellFormed
  <2> QED
    BY <1>4, <2>2 DEF Overwritten, EntryPtr, EmptyEntry
<1> QED
  BY <1>3, <1>4

(* Each step hands a block to one new owner or frees what one owner had.   *)
LEMMA OwnedNext == IInv /\ [Next]_vars => OwnedOnce'
<1> SUFFICES ASSUME IInv, [Next]_vars PROVE OwnedOnce'
  OBVIOUS
<1>0. /\ TypeOK /\ OwnedOnce /\ WriterHasBuffer
      /\ alloc \subseteq Ptr /\ NULL \notin Ptr
      /\ kbuff \in [Threads -> Ptr \cup {NULL}]
      /\ write_accumulator \in Ptr \cup {NULL}
  BY DriverAssumption DEF IInv, TypeOK
<1>00. circular_buffer \in BufferType(Ptr)
  BY <1>0 DEF TypeOK
(* A step that changes neither the owners nor the heap.                    *)
<1>1. ASSUME circular_buffer' = circular_buffer,
             write_accumulator' = write_accumulator,
             kbuff' = kbuff, alloc' = alloc
      PROVE  OwnedOnce'
  BY <1>0, <1>1 DEF OwnedOnce, EntryPtr
<1>2. CASE InitModule
  <2>1. /\ \A i \in Slots : EntryPtr(i)' = NULL
        /\ write_accumulator' = NULL
        /\ kbuff' = kbuff /\ alloc' = alloc
    BY <1>2 DEF InitModule, EntryPtr, EmptyBuffer, EmptyEntry, heap, caller
  <2> QED
    BY <1>0, <2>1 DEF OwnedOnce
<1>3. CASE CleanupModule
  <2> DEFINE pointers == {circular_buffer.entry[i].buffptr : i \in Slots}
  <2>1. /\ alloc' = alloc \ pointers
        /\ write_accumulator' = write_accumulator /\ kbuff' = kbuff
    BY <1>3 DEF CleanupModule, caller
  <2>2. \A i \in Slots : EntryPtr(i)' = NULL
    BY <1>3, <1>00 DEF CleanupModule, EntryPtr, BufferType
  <2>3. write_accumulator # NULL => write_accumulator \notin pointers
    BY <1>0 DEF OwnedOnce, EntryPtr
  <2>4. \A t \in Threads : kbuff[t] # NULL => kbuff[t] \notin pointers
    BY <1>0 DEF OwnedOnce, EntryPtr
  <2> QED
    BY <1>0, <2>1, <2>2, <2>3, <2>4 DEF OwnedOnce
(* A new kbuff is a block nobody has.                                      *)
<1>4. ASSUME NEW t \in Threads, WriteEnter(t) PROVE OwnedOnce'
  <2>1. /\ ~Exhausted
        /\ alloc' = alloc \cup {Fresh}
        /\ kbuff' = [kbuff EXCEPT ![t] = Fresh]
        /\ UNCHANGED device
    BY <1>4 DEF WriteEnter, MayGrant
  <2>2. Fresh \in Ptr /\ Fresh \notin alloc /\ Fresh # NULL
    BY <1>0, <2>1, FreshBlock
  <2>3. \A i \in Slots : EntryPtr(i)' = EntryPtr(i)
    BY <2>1 DEF device, EntryPtr
  <2> QED
    BY <1>0, <2>1, <2>2, <2>3 DEF OwnedOnce, device
(* A write that returns frees its kbuff and nothing else.                  *)
<1>5. ASSUME NEW t \in Threads,
             Interrupted(t) \/ AppendRefused(t) \/ WriteUnlock(t)
      PROVE  OwnedOnce'
  <2>1. /\ alloc' = alloc \ {kbuff[t]}
        /\ kbuff' = [kbuff EXCEPT ![t] = NULL]
        /\ UNCHANGED device
    BY <1>5 DEF Interrupted, AppendRefused, WriteUnlock
  <2>2. \A i \in Slots : EntryPtr(i)' = EntryPtr(i)
    BY <2>1 DEF device, EntryPtr
  <2>3. kbuff[t] # NULL =>
          /\ kbuff[t] # write_accumulator
          /\ \A i \in Slots : kbuff[t] # EntryPtr(i)
          /\ \A u \in Threads \ {t} : kbuff[t] # kbuff[u]
    BY <1>0 DEF OwnedOnce
  <2> QED
    BY <1>0, <2>1, <2>2, <2>3 DEF OwnedOnce, device
(* krealloc gives the accumulator a new block or leaves it the old one.    *)
<1>6. ASSUME NEW t \in Threads, WriteAppend(t) PROVE OwnedOnce'
  <2> DEFINE size == accumulator_size + Len(req[t].data)
  <2>1. PICK p \in Grown(size) :
          /\ alloc' = (alloc \ {write_accumulator}) \cup {p}
          /\ write_accumulator' = p
    BY <1>6 DEF WriteAppend
  <2>2. kbuff' = kbuff /\ circular_buffer' = circular_buffer
    BY <1>6 DEF WriteAppend
  <2>3. \/ p = write_accumulator /\ p # NULL
        \/ p \in Ptr /\ p \notin alloc
    BY <1>0, <2>1, FreshBlock DEF Grown
  <2>4. \A i \in Slots : EntryPtr(i)' = EntryPtr(i)
    BY <2>2 DEF EntryPtr
  <2>5. p # NULL /\ p \in alloc'
    BY <1>0, <2>1, <2>3
  <2>6. \A i \in Slots : EntryPtr(i) # NULL => EntryPtr(i) # p
    BY <1>0, <2>3 DEF OwnedOnce
  <2>7. \A u \in Threads : kbuff[u] # NULL => kbuff[u] # p
    BY <1>0, <2>3 DEF OwnedOnce
  <2> QED
    BY <1>0, <2>1, <2>2, <2>4, <2>5, <2>6, <2>7 DEF OwnedOnce
(* The accumulator becomes the entry in_offs; what that slot held is freed. *)
<1>7. ASSUME NEW t \in Threads, WriteCommit(t) PROVE OwnedOnce'
  <2>1. write_accumulator' = NULL /\ kbuff' = kbuff
    BY <1>7 DEF WriteCommit
  <2>2. CASE NotStored
    <3>1. alloc' = alloc /\ \A i \in Slots : EntryPtr(i)' = EntryPtr(i)
      BY <2>2 DEF NotStored, heap, EntryPtr
    <3> QED
      BY <1>0, <2>1, <3>1 DEF OwnedOnce
  <2>3. CASE Stored
    <3> DEFINE in  == circular_buffer.in_offs
               old == Overwritten(circular_buffer)
    <3>1. write_accumulator # NULL
      BY <1>7 DEF WriteCommit, IInv, CommitHasCommand
    <3>2. in \in Slots /\ circular_buffer.full \in BOOLEAN
      BY <1>00 DEF BufferType
    <3>3. old = EntryPtr(in)
      BY <1>7, <2>3, OverwrittenIsNext
    <3>4. \A i \in Slots : EntryPtr(i)' = IF i = in THEN write_accumulator
                                                    ELSE EntryPtr(i)
      BY <1>00, <2>3 DEF Stored, AddEntry, EntryPtr, BufferType
    <3>5. alloc \ {old} \subseteq alloc'
      BY <2>3 DEF Stored
    <3>6. \A i \in Slots : EntryPtr(i)' # NULL => EntryPtr(i)' \in alloc \ {old}
      BY <1>0, <3>1, <3>2, <3>3, <3>4 DEF OwnedOnce
    <3>7. \A i \in Slots, j \in Slots :
            i # j /\ EntryPtr(i)' # NULL => EntryPtr(i)' # EntryPtr(j)'
      BY <1>0, <3>1, <3>2, <3>4 DEF OwnedOnce
    <3>8. \A u \in Threads : kbuff[u] # NULL =>
            /\ kbuff[u] \in alloc \ {old}
            /\ \A i \in Slots : kbuff[u] # EntryPtr(i)'
      BY <1>0, <3>2, <3>3, <3>4 DEF OwnedOnce
    <3>9. \A u \in Threads : kbuff[u] # NULL =>
             \A v \in Threads \ {u} : kbuff[u] # kbuff[v]
      BY <1>0 DEF OwnedOnce
    <3> QED
      BY <2>1, <3>5, <3>6, <3>7, <3>8, <3>9 DEF OwnedOnce
  <2> QED
    BY <1>7, <2>2, <2>3 DEF WriteCommit
<1>8. ASSUME NEW t \in Threads, Quiet(t) PROVE OwnedOnce'
  BY <1>1, <1>8, QuietKeeps DEF device, heap
<1>9. CASE UNCHANGED vars
  BY <1>1, <1>9 DEF vars, device, heap, caller
<1> QED
  BY <1>2, <1>3, <1>4, <1>5, <1>6, <1>7, <1>8, <1>9, NextCases

-----------------------------------------------------------------------------
LEMMA Inductive == Spec => []IInv
<1>1. Init => IInv
  BY InitIInv
<1>2. IInv /\ [Next]_vars => IInv'
  BY TypeNext, LockNext, OwnedNext, WriterNext, ClosedNext, ShapeNext,
     CommitNext DEF IInv
<1> QED
  BY <1>1, <1>2, PTL DEF Spec

(* Every step of every call keeps the device, the heap and the calls in    *)
(* the types the code gives them.                                          *)
THEOREM TypeCorrect == Spec => []TypeOK
BY Inductive, PTL DEF IInv

(* aesd_read, aesd_write, aesd_llseek and aesd_unlocked_ioctl are in their *)
(* critical section exactly while they hold aesd_device.lock, whatever     *)
(* error path they take.                                                   *)
THEOREM MutualExclusion == Spec => []LockHeldInside
BY Inductive, PTL DEF IInv

(* No block of the driver is freed twice, used after it was freed or       *)
(* shared by two pointers, for any number of threads and entries, under    *)
(* any refusal of kmalloc or krealloc and any signal.                      *)
THEOREM SoleOwner == Spec => []OwnedOnce
BY Inductive, PTL DEF IInv

-----------------------------------------------------------------------------
(* aesd_cleanup_module leaves no pointer in the slots, so that the memset  *)
(* of the next aesd_init_module forgets no entry.                          *)
UnloadedIsEmpty == ~loaded => \A i \in Slots : EntryPtr(i) = NULL

LEMMA InitEmpty == Init => UnloadedIsEmpty
BY DEF Init, UnloadedIsEmpty, EntryPtr, EmptyBuffer, EmptyEntry

LEMMA EmptyNext == IInv /\ UnloadedIsEmpty /\ [Next]_vars => UnloadedIsEmpty'
<1> SUFFICES ASSUME IInv, UnloadedIsEmpty, [Next]_vars
             PROVE  UnloadedIsEmpty'
  OBVIOUS
<1>1. ASSUME UNCHANGED <<loaded, circular_buffer>> PROVE UnloadedIsEmpty'
  BY <1>1 DEF UnloadedIsEmpty, EntryPtr
<1>2. CASE InitModule
  BY <1>2 DEF InitModule, UnloadedIsEmpty
<1>3. CASE CleanupModule
  BY <1>3 DEF CleanupModule, UnloadedIsEmpty, EntryPtr, IInv, TypeOK,
              BufferType
<1>4. ASSUME NEW t \in Threads, WriteCommit(t) PROVE UnloadedIsEmpty'
  BY <1>4 DEF WriteCommit, IInv, ClosedWhenUnloaded, UnloadedIsEmpty
<1>5. ASSUME NEW t \in Threads,
             \/ WriteEnter(t) \/ Interrupted(t) \/ AppendRefused(t)
             \/ WriteAppend(t) \/ WriteUnlock(t)
      PROVE  UnloadedIsEmpty'
  BY <1>1, <1>5 DEF WriteEnter, Interrupted, AppendRefused, WriteAppend,
                    WriteUnlock, device
<1>6. ASSUME NEW t \in Threads, Quiet(t) PROVE UnloadedIsEmpty'
  BY <1>1, <1>6, QuietKeeps DEF device
<1>7. CASE UNCHANGED vars
  BY <1>1, <1>7 DEF vars, device
<1> QED
  BY <1>2, <1>3, <1>4, <1>5, <1>6, <1>7, NextCases

(* One step of the driver, as MemoryLossIsConfined sees it.                *)
LossIsConfined ==
  \/ Lost' \subseteq Lost
  \/ /\ \/ \E t \in Threads : pc[t] = "w_commit" /\ pc'[t] = "w_unlock"
        \/ loaded' # loaded
     /\ \E p \in Ptr : Lost' \subseteq Lost \cup {p}

LEMMA StepLoss ==
  ASSUME IInv, UnloadedIsEmpty, [Next]_vars
  PROVE  LossIsConfined
<1>0. /\ TypeOK /\ OwnedOnce /\ WriterHasBuffer
      /\ alloc \subseteq Ptr /\ NULL \notin Ptr
      /\ kbuff \in [Threads -> Ptr \cup {NULL}]
      /\ pc \in [Threads -> Labels]
      /\ write_accumulator \in Ptr \cup {NULL}
      /\ circular_buffer \in BufferType(Ptr)
  BY DriverAssumption DEF IInv, TypeOK
<1>1. ASSUME UNCHANGED <<circular_buffer, write_accumulator, kbuff, alloc>>
      PROVE  LossIsConfined
  BY <1>1 DEF LossIsConfined, Lost, Known, EntryPtr
<1>2. CASE InitModule
  <2>1. /\ loaded' # loaded /\ alloc' = alloc /\ kbuff' = kbuff
        /\ \A i \in Slots : EntryPtr(i) = NULL
    BY <1>2 DEF InitModule, heap, caller, UnloadedIsEmpty
  <2>2. Lost' \subseteq Lost \cup {write_accumulator}
    BY <1>0, <2>1 DEF Lost, Known
  <2>3. CASE write_accumulator = NULL
    BY <1>0, <2>1, <2>2, <2>3 DEF LossIsConfined, Lost
  <2>4. CASE write_accumulator # NULL
    BY <1>0, <2>1, <2>2, <2>4 DEF LossIsConfined
  <2> QED
    BY <2>3, <2>4
<1>3. CASE CleanupModule
  <2> DEFINE pointers == {circular_buffer.entry[i].buffptr : i \in Slots}
  <2>1. /\ alloc' = alloc \ pointers
        /\ write_accumulator' = write_accumulator /\ kbuff' = kbuff
    BY <1>3 DEF CleanupModule, caller
  <2>2. Known \subseteq Known' \cup pointers
    BY <2>1 DEF Known, EntryPtr
  <2> QED
    BY <2>1, <2>2 DEF LossIsConfined, Lost
<1>4. ASSUME NEW t \in Threads, WriteEnter(t) PROVE LossIsConfined
  <2>1. /\ alloc' = alloc \cup {Fresh}
        /\ kbuff' = [kbuff EXCEPT ![t] = Fresh]
        /\ UNCHANGED device
        /\ pc[t] = "idle"
    BY <1>4 DEF WriteEnter, Enter
  <2>2. kbuff[t] = NULL
    BY <1>0, <2>1 DEF WriterHasBuffer, Writing
  <2>3. /\ {EntryPtr(i) : i \in Slots}' = {EntryPtr(i) : i \in Slots}
        /\ write_accumulator' = write_accumulator
    BY <2>1 DEF device, EntryPtr
  <2>4. Known \subseteq Known' \cup {NULL} /\ Fresh \in Known'
    BY <1>0, <2>1, <2>2, <2>3 DEF Known
  <2> QED
    BY <1>0, <2>1, <2>4 DEF LossIsConfined, Lost
<1>5. ASSUME NEW t \in Threads,
             Interrupted(t) \/ AppendRefused(t) \/ WriteUnlock(t)
      PROVE  LossIsConfined
  <2>1. /\ alloc' = alloc \ {kbuff[t]}
        /\ kbuff' = [kbuff EXCEPT ![t] = NULL]
        /\ UNCHANGED device
    BY <1>5 DEF Interrupted, AppendRefused, WriteUnlock
  <2>2. /\ {EntryPtr(i) : i \in Slots}' = {EntryPtr(i) : i \in Slots}
        /\ write_accumulator' = write_accumulator
    BY <2>1 DEF device, EntryPtr
  <2>3. Known \subseteq Known' \cup {kbuff[t]}
    BY <1>0, <2>1, <2>2 DEF Known
  <2> QED
    BY <2>1, <2>3 DEF LossIsConfined, Lost
<1>6. ASSUME NEW t \in Threads, WriteAppend(t) PROVE LossIsConfined
  <2>1. PICK p : /\ alloc' = (alloc \ {write_accumulator}) \cup {p}
                 /\ write_accumulator' = p
    BY <1>6 DEF WriteAppend
  <2>2. kbuff' = kbuff /\ circular_buffer' = circular_buffer
    BY <1>6 DEF WriteAppend
  <2>3. Known \subseteq Known' \cup {write_accumulator} /\ p \in Known'
    BY <2>1, <2>2 DEF Known, EntryPtr
  <2> QED
    BY <2>1, <2>3 DEF LossIsConfined, Lost
<1>7. ASSUME NEW t \in Threads, WriteCommit(t) PROVE LossIsConfined
  <2>1. /\ pc[t] = "w_commit" /\ pc'[t] = "w_unlock"
        /\ write_accumulator' = NULL /\ kbuff' = kbuff
        /\ write_accumulator \in Ptr
    BY <1>0, <1>7 DEF WriteCommit, Goto, IInv, CommitHasCommand
  <2>2. CASE Stored
    <3> DEFINE in  == circular_buffer.in_offs
               old == Overwritten(circular_buffer)
    <3>1. Fresh \in Ptr
      BY <1>0, <2>2, FreshBlock DEF Stored, MayGrant
    <3>2. in \in Slots /\ old = EntryPtr(in)
      BY <1>0, <1>7, OverwrittenIsNext DEF BufferType
    <3>3. \A i \in Slots : EntryPtr(i)' = IF i = in THEN write_accumulator
                                                    ELSE EntryPtr(i)
      BY <1>0, <2>2 DEF Stored, AddEntry, EntryPtr, BufferType
    <3>4. alloc' = (alloc \cup {Fresh}) \ {old}
      BY <2>2 DEF Stored
    <3>5. Known \subseteq Known' \cup {old}
      <4>1. ASSUME NEW i \in Slots, i # in PROVE EntryPtr(i) \in Known'
        BY <3>3, <4>1 DEF Known
      <4>2. write_accumulator \in Known'
        BY <3>2, <3>3 DEF Known
      <4>3. \A u \in Threads : kbuff[u] \in Known'
        BY <2>1 DEF Known
      <4> QED
        BY <3>2, <4>1, <4>2, <4>3 DEF Known
    <3>6. Lost' \subseteq Lost \cup {Fresh}
      BY <3>4, <3>5 DEF Lost
    <3> QED
      BY <2>1, <3>1, <3>6 DEF LossIsConfined
  <2>3. CASE NotStored
    <3>1. alloc' = alloc /\ circular_buffer' = circular_buffer
      BY <2>3 DEF NotStored, heap
    <3>2. Lost' \subseteq Lost \cup {write_accumulator}
      BY <2>1, <3>1 DEF Lost, Known, EntryPtr
    <3> QED
      BY <2>1, <3>2 DEF LossIsConfined
  <2> QED
    BY <1>7, <2>2, <2>3 DEF WriteCommit
<1>8. ASSUME NEW t \in Threads, Quiet(t) PROVE LossIsConfined
  BY <1>1, <1>8, QuietKeeps DEF device, heap
<1>9. CASE UNCHANGED vars
  BY <1>1, <1>9 DEF vars, device, heap, caller
<1> QED
  BY <1>2, <1>3, <1>4, <1>5, <1>6, <1>7, <1>8, <1>9, NextCases

(* No error path of read, write, llseek or ioctl forgets a kfree: a commit *)
(* and the reload of the module lose a block, and never more than one.     *)
THEOREM LossConfined == Spec => MemoryLossIsConfined
<1>1. Spec => []UnloadedIsEmpty
  BY InitEmpty, EmptyNext, Inductive, PTL DEF Spec
<1>2. IInv /\ UnloadedIsEmpty /\ [Next]_vars => [LossIsConfined]_vars
  BY StepLoss
<1>3. Spec => [][LossIsConfined]_vars
  BY <1>1, <1>2, Inductive, PTL DEF Spec
<1> QED
  BY <1>3 DEF MemoryLossIsConfined, LossIsConfined

-----------------------------------------------------------------------------
(***************************************************************************)
(* What the blocks hold, and that the write path implements CommandLog.    *)
(***************************************************************************)

(* What a pointer of the driver leads to.                                  *)
Entry(i)    == Contents(EntryPtr(i))
Accumulated == Contents(write_accumulator)

EntriesSized ==
  loaded => \A i \in Slots : circular_buffer.entry[i].size = Len(Entry(i))

EntriesEnded ==
  loaded => \A i \in Slots : EntryPtr(i) # NULL => Holds(Entry(i), NL)

AccumulatorSized == loaded => accumulator_size = Len(Accumulated)

AccumulatorEnds ==
  loaded => (Holds(Accumulated, NL) <=> \E t \in Threads : pc[t] = "w_commit")

(* Nobody else touches a kbuff: the data is still there when the writer    *)
(* has waited for the mutex.                                               *)
KbuffHoldsData ==
  \A t \in Threads : pc[t] \in Writing => Contents(kbuff[t]) = req[t].data

ContentInv ==
  /\ EntriesSized
  /\ EntriesEnded
  /\ AccumulatorSized
  /\ AccumulatorEnds
  /\ KbuffHoldsData

-----------------------------------------------------------------------------
LEMMA EntryPtrType ==
  ASSUME TypeOK, NEW i \in Slots
  PROVE  EntryPtr(i) \in Ptr \cup {NULL}
BY DEF TypeOK, BufferType, EntryPtr

(* A write that returns frees its kbuff: the others' blocks stay.          *)
LEMMA FreeKeeps ==
  ASSUME IInv, NEW t \in Threads,
         Interrupted(t) \/ AppendRefused(t) \/ WriteUnlock(t)
  PROVE  /\ UNCHANGED device
         /\ \A i \in Slots : Entry(i)' = Entry(i)
         /\ Accumulated' = Accumulated
         /\ \A u \in Threads \ {t} : Contents(kbuff[u])' = Contents(kbuff[u])
<1>1. /\ mem' = Erased({kbuff[t]})
      /\ kbuff' = [kbuff EXCEPT ![t] = NULL]
      /\ UNCHANGED device
  BY DEF Interrupted, AppendRefused, WriteUnlock
<1>2. /\ TypeOK /\ OwnedOnce /\ NULL \notin Ptr
      /\ kbuff \in [Threads -> Ptr \cup {NULL}]
      /\ write_accumulator \in Ptr \cup {NULL}
  BY DriverAssumption DEF IInv, TypeOK
<1>3. \A i \in Slots : Entry(i)' = Entry(i)
  <2> TAKE i \in Slots
  <2>1. EntryPtr(i)' = EntryPtr(i)
    BY <1>1 DEF device, EntryPtr
  <2>2. EntryPtr(i) # NULL => EntryPtr(i) \notin {kbuff[t]}
    BY <1>2 DEF OwnedOnce
  <2> QED
    BY <1>1, <1>2, <2>1, <2>2, EntryPtrType DEF Entry, Contents, Erased
<1>4. Accumulated' = Accumulated
  <2>1. write_accumulator' = write_accumulator
    BY <1>1 DEF device
  <2>2. write_accumulator # NULL => write_accumulator \notin {kbuff[t]}
    BY <1>2 DEF OwnedOnce
  <2> QED
    BY <1>1, <1>2, <2>1, <2>2 DEF Accumulated, Contents, Erased
<1>5. \A u \in Threads \ {t} : Contents(kbuff[u])' = Contents(kbuff[u])
  <2> TAKE u \in Threads \ {t}
  <2>1. kbuff'[u] = kbuff[u] /\ kbuff[u] \in Ptr \cup {NULL}
    BY <1>1, <1>2
  <2>2. kbuff[u] # NULL => kbuff[u] \notin {kbuff[t]}
    BY <1>2 DEF OwnedOnce
  <2> QED
    BY <1>1, <1>2, <2>1, <2>2 DEF Contents, Erased
<1> QED
  BY <1>1, <1>3, <1>4, <1>5

(* A write that starts copies its data to a block nobody has.              *)
LEMMA EnterKeeps ==
  ASSUME IInv, NEW t \in Threads, WriteEnter(t)
  PROVE  /\ UNCHANGED device
         /\ \A i \in Slots : Entry(i)' = Entry(i)
         /\ Accumulated' = Accumulated
         /\ \A u \in Threads \ {t} : Contents(kbuff[u])' = Contents(kbuff[u])
         /\ Contents(kbuff[t])' = req'[t].data
<1>1. PICK data \in Payloads :
        /\ ~Exhausted
        /\ mem'   = [mem EXCEPT ![Fresh] = data]
        /\ kbuff' = [kbuff EXCEPT ![t] = Fresh]
        /\ req'   = [req EXCEPT ![t] = [op |-> "write", data |-> data]]
        /\ UNCHANGED device
  BY DEF WriteEnter, MayGrant, Enter
<1>2. /\ TypeOK /\ OwnedOnce /\ NULL \notin Ptr
      /\ kbuff \in [Threads -> Ptr \cup {NULL}]
      /\ req \in [Threads -> Request]
      /\ mem \in [Ptr -> Seq(Byte)]
      /\ write_accumulator \in Ptr \cup {NULL}
  BY DriverAssumption DEF IInv, TypeOK
<1>3. Fresh \in Ptr /\ Fresh \notin alloc /\ Fresh # NULL
  BY <1>1, <1>2, FreshBlock DEF TypeOK
<1>4. \A i \in Slots : Entry(i)' = Entry(i)
  <2> TAKE i \in Slots
  <2>1. EntryPtr(i)' = EntryPtr(i)
    BY <1>1 DEF device, EntryPtr
  <2>2. EntryPtr(i) # Fresh
    BY <1>2, <1>3 DEF OwnedOnce
  <2> QED
    BY <1>1, <1>2, <2>1, <2>2, EntryPtrType DEF Entry, Contents
<1>5. Accumulated' = Accumulated
  <2>1. write_accumulator' = write_accumulator /\ write_accumulator # Fresh
    BY <1>1, <1>2, <1>3 DEF device, OwnedOnce
  <2> QED
    BY <1>1, <1>2, <2>1 DEF Accumulated, Contents
<1>6. \A u \in Threads \ {t} : Contents(kbuff[u])' = Contents(kbuff[u])
  <2> TAKE u \in Threads \ {t}
  <2>1. kbuff'[u] = kbuff[u] /\ kbuff[u] # Fresh
    BY <1>1, <1>2, <1>3 DEF OwnedOnce
  <2> QED
    BY <1>1, <1>2, <2>1 DEF Contents
<1>7. Contents(kbuff[t])' = req'[t].data
  BY <1>1, <1>2, <1>3 DEF Contents
<1> QED
  BY <1>1, <1>4, <1>5, <1>6, <1>7

(* krealloc and memcpy: the accumulator grows by what the writer brought.  *)
LEMMA AppendAdds ==
  ASSUME IInv, KbuffHoldsData, NEW t \in Threads, WriteAppend(t)
  PROVE  /\ UNCHANGED <<loaded, circular_buffer, req, kbuff>>
         /\ \A i \in Slots : Entry(i)' = Entry(i)
         /\ Accumulated' = Accumulated \o req[t].data
         /\ accumulator_size' = accumulator_size + Len(req[t].data)
         /\ \A u \in Threads : Contents(kbuff[u])' = Contents(kbuff[u])
         /\ pc' = [pc EXCEPT ![t] = IF Holds(Accumulated', NL)
                                    THEN "w_commit" ELSE "w_unlock"]
<1> DEFINE bytes == Contents(write_accumulator) \o mem[kbuff[t]]
<1>1. PICK p \in Grown(accumulator_size + Len(req[t].data)) :
        /\ mem' = [Erased({write_accumulator}) EXCEPT ![p] = bytes]
        /\ write_accumulator' = p
  BY DEF WriteAppend
<1>2. /\ pc' = [pc EXCEPT ![t] = IF CommandEnded(bytes) THEN "w_commit"
                                                        ELSE "w_unlock"]
      /\ accumulator_size' = accumulator_size + Len(req[t].data)
      /\ UNCHANGED <<loaded, circular_buffer, req, kbuff>>
  BY DEF WriteAppend, Goto
<1>3. /\ TypeOK /\ OwnedOnce /\ NULL \notin Ptr
      /\ alloc \subseteq Ptr
      /\ kbuff \in [Threads -> Ptr \cup {NULL}]
      /\ mem \in [Ptr -> Seq(Byte)]
      /\ write_accumulator \in Ptr \cup {NULL}
  BY DriverAssumption DEF IInv, TypeOK
<1>4. \/ p = write_accumulator /\ p # NULL
      \/ p \notin alloc
  BY <1>1, <1>3, FreshBlock DEF Grown
<1>5. p \in Ptr
  BY <1>1, <1>3, FreshBlock DEF Grown
(* A block that another pointer names is neither freed nor written.        *)
<1>6. ASSUME NEW q \in Ptr, q \in alloc, q # write_accumulator
      PROVE  mem'[q] = mem[q]
  <2>1. q # p
    BY <1>4, <1>6
  <2> QED
    BY <1>1, <1>3, <1>6, <2>1 DEF Erased
<1>7. \A i \in Slots : Entry(i)' = Entry(i)
  <2> TAKE i \in Slots
  <2>1. EntryPtr(i)' = EntryPtr(i)
    BY <1>2 DEF EntryPtr
  <2>2. EntryPtr(i) # NULL =>
          EntryPtr(i) \in alloc /\ EntryPtr(i) # write_accumulator
    BY <1>3 DEF OwnedOnce
  <2> QED
    BY <1>3, <1>6, <2>1, <2>2 DEF Entry, Contents
<1>8. \A u \in Threads : Contents(kbuff[u])' = Contents(kbuff[u])
  <2> TAKE u \in Threads
  <2>1. kbuff[u] # NULL => kbuff[u] \in alloc /\ kbuff[u] # write_accumulator
    BY <1>3 DEF OwnedOnce
  <2> QED
    BY <1>2, <1>3, <1>6, <2>1 DEF Contents
<1>9. bytes = Accumulated \o req[t].data
  <2>1. pc[t] \in Writing
    BY DEF WriteAppend, Writing
  <2>2. kbuff[t] # NULL
    BY <2>1 DEF IInv, WriterHasBuffer
  <2> QED
    BY <2>1, <2>2 DEF KbuffHoldsData, Contents, Accumulated
<1>10. Accumulated' = bytes
  <2>1. mem'[p] = bytes
    BY <1>1, <1>5 DEF Erased
  <2> QED
    BY <1>1, <1>3, <1>5, <2>1 DEF Accumulated, Contents
<1> QED
  BY <1>2, <1>7, <1>8, <1>9, <1>10 DEF CommandEnded

(* The accumulator becomes the entry in_offs of the buffer.                *)
LEMMA StoredHandsOver ==
  ASSUME IInv, NEW t \in Threads, WriteCommit(t), Stored
  PROVE  /\ \A i \in Slots :
              /\ EntryPtr(i)' = IF i = circular_buffer.in_offs
                                THEN write_accumulator ELSE EntryPtr(i)
              /\ circular_buffer'.entry[i].size =
                   IF i = circular_buffer.in_offs
                   THEN accumulator_size ELSE circular_buffer.entry[i].size
              /\ Entry(i)' = IF i = circular_buffer.in_offs
                             THEN Accumulated ELSE Entry(i)
         /\ \A u \in Threads : Contents(kbuff[u])' = Contents(kbuff[u])
<1> DEFINE in  == circular_buffer.in_offs
           old == Overwritten(circular_buffer)
<1>1. /\ TypeOK /\ OwnedOnce /\ NULL \notin Ptr
      /\ kbuff \in [Threads -> Ptr \cup {NULL}]
      /\ mem \in [Ptr -> Seq(Byte)]
      /\ write_accumulator \in Ptr /\ write_accumulator # NULL
      /\ circular_buffer \in BufferType(Ptr)
  BY DriverAssumption DEF IInv, TypeOK, WriteCommit, CommitHasCommand
<1>2. in \in Slots
  BY <1>1 DEF BufferType
<1>3. old = EntryPtr(in)
  BY OverwrittenIsNext
<1>4. mem' = Erased({old}) /\ kbuff' = kbuff
  BY DEF Stored, WriteCommit
<1>5. \A i \in Slots : circular_buffer'.entry[i] =
        IF i = in THEN [buffptr |-> write_accumulator,
                        size    |-> accumulator_size]
        ELSE circular_buffer.entry[i]
  BY <1>1 DEF Stored, AddEntry, BufferType
<1>6. \A i \in Slots : EntryPtr(i)' = IF i = in THEN write_accumulator
                                                ELSE EntryPtr(i)
  BY <1>5 DEF EntryPtr
<1>7. \A i \in Slots : Entry(i)' = IF i = in THEN Accumulated ELSE Entry(i)
  <2> TAKE i \in Slots
  <2>1. write_accumulator # old
    BY <1>1, <1>2, <1>3 DEF OwnedOnce
  <2>2. i # in /\ EntryPtr(i) # NULL => EntryPtr(i) # old
    BY <1>1, <1>2, <1>3 DEF OwnedOnce
  <2> QED
    BY <1>1, <1>4, <1>6, <2>1, <2>2, EntryPtrType
       DEF Entry, Accumulated, Contents, Erased
<1>8. \A u \in Threads : Contents(kbuff[u])' = Contents(kbuff[u])
  <2> TAKE u \in Threads
  <2>1. kbuff[u] # NULL => kbuff[u] # old
    BY <1>1, <1>2, <1>3 DEF OwnedOnce
  <2> QED
    BY <1>1, <1>4, <2>1 DEF Contents, Erased
<1> QED
  BY <1>5, <1>6, <1>7, <1>8

LEMMA NotStoredKeeps ==
  ASSUME NEW t \in Threads, WriteCommit(t), NotStored
  PROVE  /\ UNCHANGED circular_buffer
         /\ \A i \in Slots : Entry(i)' = Entry(i)
         /\ \A u \in Threads : Contents(kbuff[u])' = Contents(kbuff[u])
<1>1. UNCHANGED <<circular_buffer, mem, kbuff>>
  BY DEF WriteCommit, NotStored, heap
<1> QED
  BY <1>1 DEF Entry, EntryPtr, Contents

(* The other steps neither begin nor end a commit, and bring no data.      *)
LEMMA QuietWriters ==
  ASSUME TypeOK, NEW t \in Threads, Quiet(t)
  PROVE  \A u \in Threads :
           /\ pc'[u] = "w_commit" <=> pc[u] = "w_commit"
           /\ pc'[u] \in Writing => pc[u] \in Writing /\ req'[u] = req[u]
<1>0. pc \in [Threads -> Labels] /\ req \in [Threads -> Request]
  BY DEF TypeOK
<1>1. CASE Acquire(t)
  <2>1. /\ pc[t] \in Waiting /\ req' = req
        /\ pc' = [pc EXCEPT ![t] = Locked(pc[t])]
    BY <1>1 DEF Acquire, Goto
  <2>2. /\ Locked(pc[t]) # "w_commit"
        /\ pc[t] \in Writing <=> Locked(pc[t]) \in Writing
    BY <2>1, LockedLabel
  <2> QED
    BY <1>0, <2>1, <2>2 DEF Waiting
<1>2. CASE WriteRefused(t) \/ IoctlRefused(t) \/ ReadCopy(t)
  <2>1. pc' = pc /\ req' = req
    BY <1>2 DEF WriteRefused, IoctlRefused, Refuse, ReadCopy
  <2> QED
    BY <2>1
<1>3. CASE ~(Acquire(t) \/ WriteRefused(t) \/ IoctlRefused(t) \/ ReadCopy(t))
  <2>1. /\ pc[t] # "w_commit"
        /\ \E label \in {"idle", "closed", "r_lock", "s_lock", "i_lock",
                         "r_copy"} : pc' = [pc EXCEPT ![t] = label]
        /\ \A u \in Threads \ {t} : req'[u] = req[u]
    BY <1>0, <1>3
       DEF Quiet, Open, Release, ReadEnter, SeekEnter, IoctlEnter, Enter,
           Goto, ReadPastEnd, ReadBegin, ReadFaults, ReadUnlock, Seek,
           SeekRefused, IoctlSeek, Return
  <2>2. pc'[t] \notin Writing /\ pc'[t] # "w_commit"
    BY <1>0, <2>1 DEF Writing
  <2>3. \A u \in Threads \ {t} : pc'[u] = pc[u]
    BY <1>0, <2>1
  <2> QED
    BY <2>1, <2>2, <2>3
<1> QED
  BY <1>1, <1>2, <1>3

LEMMA QuietContents ==
  ASSUME NEW t \in Threads, Quiet(t)
  PROVE  /\ \A i \in Slots : Entry(i)' = Entry(i)
         /\ Accumulated' = Accumulated
         /\ \A u \in Threads : Contents(kbuff[u])' = Contents(kbuff[u])
BY QuietKeeps DEF device, heap, Entry, EntryPtr, Accumulated, Contents

-----------------------------------------------------------------------------
LEMMA InitContent == Init => ContentInv
BY DEF Init, ContentInv, EntriesSized, EntriesEnded, AccumulatorSized,
       AccumulatorEnds, KbuffHoldsData, Writing

(* A step that leaves the device's blocks alone and keeps the others from  *)
(* beginning or ending a commit.                                           *)
LEMMA DeviceKept ==
  ASSUME ContentInv,
         UNCHANGED device,
         \A i \in Slots : Entry(i)' = Entry(i),
         Accumulated' = Accumulated,
         \A u \in Threads : pc'[u] = "w_commit" <=> pc[u] = "w_commit"
  PROVE  (EntriesSized /\ EntriesEnded /\ AccumulatorSized /\ AccumulatorEnds)'
<1>1. \A i \in Slots : EntryPtr(i)' = EntryPtr(i)
  BY DEF device, EntryPtr
<1>2. EntriesSized' /\ EntriesEnded'
  BY <1>1 DEF ContentInv, EntriesSized, EntriesEnded, device, Holds
<1>3. AccumulatorSized' /\ AccumulatorEnds'
  BY DEF ContentInv, AccumulatorSized, AccumulatorEnds, device, Holds
<1> QED
  BY <1>2, <1>3

LEMMA ContentNext == IInv /\ ContentInv /\ [Next]_vars => ContentInv'
<1> SUFFICES ASSUME IInv, ContentInv, [Next]_vars PROVE ContentInv'
  OBVIOUS
<1>0. /\ pc \in [Threads -> Labels] /\ req \in [Threads -> Request]
      /\ \A t \in Threads : pc[t] \in Inside <=> lock = t
      /\ KbuffHoldsData
  BY DEF IInv, TypeOK, LockHeldInside, ContentInv
<1>1. CASE InitModule
  <2>1. \A t \in Threads : pc'[t] = "closed"
    BY <1>1 DEF InitModule, caller, IInv, ClosedWhenUnloaded
  <2>2. /\ circular_buffer' = EmptyBuffer
        /\ write_accumulator' = NULL /\ accumulator_size' = 0
    BY <1>1 DEF InitModule
  <2>3. \A i \in Slots : EntryPtr(i)' = NULL /\ circular_buffer'.entry[i].size = 0
    BY <2>2 DEF EntryPtr, EmptyBuffer, EmptyEntry
  <2>4. \A i \in Slots : Entry(i)' = <<>>
    BY <2>3 DEF Entry, Contents
  <2>5. Accumulated' = <<>>
    BY <2>2 DEF Accumulated, Contents
  <2> QED
    BY <2>1, <2>2, <2>3, <2>4, <2>5
       DEF ContentInv, EntriesSized, EntriesEnded, AccumulatorSized,
           AccumulatorEnds, KbuffHoldsData, Holds, Writing
<1>2. CASE CleanupModule
  <2>1. ~loaded' /\ \A t \in Threads : pc'[t] = "closed"
    BY <1>2 DEF CleanupModule, caller
  <2> QED
    BY <2>1 DEF ContentInv, EntriesSized, EntriesEnded, AccumulatorSized,
                AccumulatorEnds, KbuffHoldsData, Writing
<1>3. ASSUME NEW t \in Threads, WriteEnter(t) PROVE ContentInv'
  <2>1. /\ pc[t] = "idle" /\ pc' = [pc EXCEPT ![t] = "w_lock"]
        /\ \A u \in Threads \ {t} : req'[u] = req[u]
    BY <1>0, <1>3 DEF WriteEnter, Enter
  <2>2. \A u \in Threads : pc'[u] = "w_commit" <=> pc[u] = "w_commit"
    BY <1>0, <2>1
  <2>3. KbuffHoldsData'
    <3> SUFFICES ASSUME NEW u \in Threads, pc'[u] \in Writing
                 PROVE  Contents(kbuff[u])' = req'[u].data
      BY DEF KbuffHoldsData
    <3> QED
      BY <1>0, <1>3, <2>1, EnterKeeps DEF KbuffHoldsData
  <2> QED
    BY <1>3, <2>2, <2>3, EnterKeeps, DeviceKept DEF ContentInv
<1>4. ASSUME NEW t \in Threads,
             Interrupted(t) \/ AppendRefused(t) \/ WriteUnlock(t)
      PROVE  ContentInv'
  <2>1. /\ pc[t] # "w_commit" /\ pc' = [pc EXCEPT ![t] = "idle"]
        /\ req' = [req EXCEPT ![t] = NoReq]
    BY <1>4 DEF Interrupted, Waiting, AppendRefused, WriteUnlock, Return
  <2>2. \A u \in Threads : pc'[u] = "w_commit" <=> pc[u] = "w_commit"
    BY <1>0, <2>1
  <2>3. KbuffHoldsData'
    <3> SUFFICES ASSUME NEW u \in Threads, pc'[u] \in Writing
                 PROVE  Contents(kbuff[u])' = req'[u].data
      BY DEF KbuffHoldsData
    <3>1. u # t
      BY <1>0, <2>1 DEF Writing
    <3> QED
      BY <1>0, <1>4, <2>1, <3>1, FreeKeeps DEF KbuffHoldsData
  <2> QED
    BY <1>4, <2>2, <2>3, FreeKeeps, DeviceKept DEF ContentInv
<1>5. ASSUME NEW t \in Threads, WriteAppend(t) PROVE ContentInv'
  <2>1. /\ UNCHANGED <<loaded, circular_buffer, req, kbuff>>
        /\ \A i \in Slots : Entry(i)' = Entry(i)
        /\ Accumulated' = Accumulated \o req[t].data
        /\ accumulator_size' = accumulator_size + Len(req[t].data)
        /\ \A u \in Threads : Contents(kbuff[u])' = Contents(kbuff[u])
        /\ pc' = [pc EXCEPT ![t] = IF Holds(Accumulated', NL)
                                   THEN "w_commit" ELSE "w_unlock"]
    BY <1>0, <1>5, AppendAdds
  <2>2. \A i \in Slots : EntryPtr(i)' = EntryPtr(i)
    BY <2>1 DEF EntryPtr
  <2>3. EntriesSized' /\ EntriesEnded'
    BY <2>1, <2>2 DEF ContentInv, EntriesSized, EntriesEnded, Holds
  <2>4. pc[t] = "w_append" /\ pc[t] \in Inside /\ pc[t] \in Writing
    BY <1>5 DEF WriteAppend, Inside, Writing
  <2>5. AccumulatorSized'
    <3>1. Accumulated \in Seq(Byte) /\ req[t].data \in Seq(Byte)
      BY <2>4, WriterData, ContentsType DEF IInv, TypeOK, Accumulated
    <3>2. Len(Accumulated \o req[t].data)
            = Len(Accumulated) + Len(req[t].data)
      BY <3>1
    <3> QED
      BY <2>1, <3>2 DEF ContentInv, AccumulatorSized
  (* No other writer is at its commit: t holds the mutex.                  *)
  <2>6. AccumulatorEnds'
    <3>1. \A u \in Threads \ {t} : pc'[u] # "w_commit"
      BY <1>0, <2>1, <2>4 DEF Inside
    <3> QED
      BY <1>0, <2>1, <3>1 DEF AccumulatorEnds
  <2>7. KbuffHoldsData'
    <3> SUFFICES ASSUME NEW u \in Threads, pc'[u] \in Writing
                 PROVE  Contents(kbuff[u])' = req'[u].data
      BY DEF KbuffHoldsData
    <3>1. pc[u] \in Writing
      BY <1>0, <2>1, <2>4
    <3> QED
      BY <1>0, <2>1, <3>1 DEF KbuffHoldsData
  <2> QED
    BY <2>3, <2>5, <2>6, <2>7 DEF ContentInv
<1>6. ASSUME NEW t \in Threads, WriteCommit(t) PROVE ContentInv'
  <2>1. /\ pc[t] = "w_commit" /\ pc' = [pc EXCEPT ![t] = "w_unlock"]
        /\ write_accumulator' = NULL /\ accumulator_size' = 0
        /\ UNCHANGED <<loaded, req, kbuff>>
    BY <1>6 DEF WriteCommit, Goto
  <2>2. AccumulatorSized' /\ AccumulatorEnds'
    <3>1. Accumulated' = <<>>
      BY <2>1 DEF Accumulated, Contents
    <3>2. \A u \in Threads : pc'[u] # "w_commit"
      BY <1>0, <2>1 DEF Inside
    <3> QED
      BY <2>1, <3>1, <3>2 DEF AccumulatorSized, AccumulatorEnds, Holds
  <2>3. EntriesSized' /\ EntriesEnded'
    <3>1. CASE Stored
      <4>1. loaded
        BY <2>1 DEF IInv, ClosedWhenUnloaded
      <4>2. Holds(Accumulated, NL) /\ accumulator_size = Len(Accumulated)
        BY <2>1, <4>1 DEF ContentInv, AccumulatorSized, AccumulatorEnds
      <4> QED
        BY <1>6, <2>1, <3>1, <4>1, <4>2, StoredHandsOver
           DEF ContentInv, EntriesSized, EntriesEnded, Holds
    <3>2. CASE NotStored
      <4>1. \A i \in Slots : EntryPtr(i)' = EntryPtr(i)
        BY <3>2 DEF NotStored, EntryPtr
      <4> QED
        BY <1>6, <2>1, <3>2, <4>1, NotStoredKeeps
           DEF ContentInv, EntriesSized, EntriesEnded, Holds
    <3> QED
      BY <1>6, <3>1, <3>2 DEF WriteCommit
  <2>4. KbuffHoldsData'
    <3> SUFFICES ASSUME NEW u \in Threads, pc'[u] \in Writing
                 PROVE  Contents(kbuff[u])' = req'[u].data
      BY DEF KbuffHoldsData
    <3>1. pc[u] \in Writing
      BY <1>0, <2>1 DEF Writing
    <3>2. Contents(kbuff[u])' = Contents(kbuff[u])
      BY <1>6, StoredHandsOver, NotStoredKeeps DEF WriteCommit
    <3> QED
      BY <1>0, <2>1, <3>1, <3>2 DEF KbuffHoldsData
  <2> QED
    BY <2>2, <2>3, <2>4 DEF ContentInv
<1>7. ASSUME NEW t \in Threads, Quiet(t) PROVE ContentInv'
  <2>1. UNCHANGED device
    BY <1>7, QuietKeeps
  <2>2. KbuffHoldsData'
    BY <1>0, <1>7, QuietContents, QuietWriters DEF KbuffHoldsData, IInv
  <2> QED
    BY <1>7, <2>1, <2>2, QuietContents, QuietWriters, DeviceKept
       DEF ContentInv, IInv
<1>8. CASE UNCHANGED vars
  <2>1. UNCHANGED <<device, mem, pc, req, kbuff>>
    BY <1>8 DEF vars, heap, caller
  <2>2. /\ \A i \in Slots : Entry(i)' = Entry(i)
        /\ Accumulated' = Accumulated
        /\ \A u \in Threads : Contents(kbuff[u])' = Contents(kbuff[u])
    BY <2>1 DEF device, Entry, EntryPtr, Accumulated, Contents
  <2>3. KbuffHoldsData'
    BY <1>0, <2>1, <2>2 DEF KbuffHoldsData
  <2> QED
    BY <2>1, <2>2, <2>3, DeviceKept DEF ContentInv
<1> QED
  BY <1>1, <1>2, <1>3, <1>4, <1>5, <1>6, <1>7, <1>8, NextCases

LEMMA ContentInductive == Spec => [](IInv /\ ContentInv)
<1>1. Init => ContentInv
  BY InitContent
<1>2. IInv /\ ContentInv /\ [Next]_vars => ContentInv'
  BY ContentNext
<1> QED
  BY <1>1, <1>2, Inductive, PTL DEF Spec

(* The sizes the driver keeps are the sizes of its blocks, whatever was    *)
(* appended, refused or overwritten: no copy leaves its block.             *)
THEOREM SizesKept == Spec => []BlocksHoldTheirSize
<1>1. IInv /\ ContentInv => BlocksHoldTheirSize
  BY DEF IInv, BufferShape, ContentInv, EntriesSized, AccumulatorSized,
         BlocksHoldTheirSize, Entry, Accumulated
<1> QED
  BY <1>1, ContentInductive, PTL

(* Every entry holds a newline, not always as its last byte, since a       *)
(* commit takes the whole accumulator (main.c:158-171), and no newline     *)
(* waits in the accumulator for the next write, however writers interleave. *)
THEOREM CommandsEnd == Spec => []CommandsAreEnded
<1>1. IInv /\ ContentInv => CommandsAreEnded
  BY DEF ContentInv, EntriesEnded, AccumulatorEnds, CommandsAreEnded,
         Entry, Accumulated, Contents
<1> QED
  BY <1>1, ContentInductive, PTL

-----------------------------------------------------------------------------
(* What the slots lead to, and the log made of it.                         *)
Blocks == [i \in Slots |-> Entry(i)]

CommandsAreBlocks ==
  Commands = IF loaded THEN InOrder(circular_buffer, Blocks) ELSE <<>>

Pending == IF loaded THEN Accumulated ELSE <<>>

(* A slot that the order reaches holds a block.                            *)
LEMMA CommandsInOrder == IInv => CommandsAreBlocks
<1> SUFFICES ASSUME IInv, loaded
             PROVE  Commands = InOrder(circular_buffer, Blocks)
  BY DEF CommandsAreBlocks, Commands
<1>1. circular_buffer \in BufferType(Ptr) /\ WellFormed(circular_buffer)
  BY DEF IInv, TypeOK, BufferShape
<1>2. /\ Count(circular_buffer) \in 0 .. MaxOps
      /\ ~circular_buffer.full =>
           Count(circular_buffer) = circular_buffer.in_offs
      /\ circular_buffer.in_offs \in Slots
      /\ circular_buffer.full \in BOOLEAN
  BY <1>1, CountRange DEF BufferType
<1>3. ASSUME NEW k \in 1 .. Count(circular_buffer)
      PROVE  mem[EntryPtr(Slot(circular_buffer, k - 1))]
               = Blocks[Slot(circular_buffer, k - 1)]
  <2>1. k - 1 \in Slots
    BY <1>2, MaxOpsAssumption DEF Slots
  <2>2. /\ Slot(circular_buffer, k - 1) \in Slots
        /\ Slot(circular_buffer, k - 1)
             = IF circular_buffer.out_offs + (k - 1) < MaxOps
               THEN circular_buffer.out_offs + (k - 1)
               ELSE circular_buffer.out_offs + (k - 1) - MaxOps
    BY <1>1, <2>1, SlotValue
  <2>3. Used(circular_buffer, Slot(circular_buffer, k - 1))
    <3>1. CASE circular_buffer.full
      BY <3>1 DEF Used
    <3>2. CASE ~circular_buffer.full
      <4>1. circular_buffer.out_offs = 0
        BY <1>1, <3>2 DEF WellFormed
      <4> QED
        BY <1>2, <2>1, <2>2, <3>2, <4>1, MaxOpsAssumption DEF Used, Slots
    <3> QED
      BY <3>1, <3>2
  <2>4. EntryPtr(Slot(circular_buffer, k - 1)) # NULL
    BY <1>1, <2>2, <2>3 DEF WellFormed, EntryPtr
  <2> QED
    BY <2>2, <2>4 DEF Blocks, Entry, Contents
<1> QED
  BY <1>3 DEF Commands, InOrder

LEMMA BlocksType == TypeOK => Blocks \in [Slots -> Seq(Byte)]
<1> SUFFICES ASSUME TypeOK PROVE Blocks \in [Slots -> Seq(Byte)]
  OBVIOUS
<1>1. \A i \in Slots : Entry(i) \in Seq(Byte)
  BY EntryPtrType, ContentsType DEF Entry, TypeOK
<1> QED
  BY <1>1 DEF Blocks

(* The write path implements one log of commands: however the threads'     *)
(* appends, commits, refusals and signals interleave, the commands are     *)
(* whole, in order and the last MaxOps of them.                            *)
THEOREM Refinement == Spec => ImplementsCommandLog
<1>1. Init => Log!Init
  BY DEF Init, Log!Init, Commands
<1>2. IInv' => CommandsAreBlocks'
  BY CommandsInOrder, PTL
<1>3. TypeOK' => (Blocks \in [Slots -> Seq(Byte)])'
  BY BlocksType, PTL
<1>4. IInv /\ ContentInv /\ IInv' /\ [Next]_vars => [Log!Next]_Log!vars
  <2> SUFFICES ASSUME IInv, ContentInv, IInv', [Next]_vars
               PROVE  [Log!Next]_Log!vars
    OBVIOUS
  <2>0. /\ Commands = IF loaded THEN InOrder(circular_buffer, Blocks) ELSE <<>>
        /\ Commands' = IF loaded' THEN InOrder(circular_buffer', Blocks')
                                  ELSE <<>>
    BY <1>2, CommandsInOrder DEF CommandsAreBlocks, InOrder, Count, Slot
  (* A step that leaves what the device holds alone.                       *)
  <2>1. ASSUME UNCHANGED <<loaded, circular_buffer>>,
               \A i \in Slots : Entry(i)' = Entry(i)
        PROVE  Commands' = Commands
    <3>1. Blocks' = Blocks
      BY <2>1 DEF Blocks
    <3> QED
      BY <2>0, <2>1, <3>1
  <2>2. ASSUME UNCHANGED device,
               \A i \in Slots : Entry(i)' = Entry(i),
               Accumulated' = Accumulated
        PROVE  [Log!Next]_Log!vars
    BY <2>1, <2>2 DEF device, Accumulated, Log!vars
  <2>3. CASE InitModule
    <3>1. /\ ~loaded /\ loaded' /\ loaded' = TRUE
          /\ circular_buffer' = EmptyBuffer /\ write_accumulator' = NULL
      BY <2>3 DEF InitModule
    <3>2. InOrder(EmptyBuffer, Blocks') = <<>>
      BY MaxOpsAssumption DEF InOrder, EmptyBuffer, Count
    <3>3. Commands = <<>> /\ Commands' = <<>>
      BY <2>0, <3>1, <3>2
    <3> QED
      BY <3>1, <3>3 DEF Log!Next, Log!Load, Contents
  <2>4. CASE CleanupModule
    <3>1. /\ loaded /\ ~loaded' /\ loaded' = FALSE
          /\ \A t \in Threads : pc[t] = "closed"
      BY <2>4 DEF CleanupModule
    <3>2. ~Holds(Accumulated, NL)
      BY <3>1 DEF ContentInv, AccumulatorEnds
    <3>3. Commands' = <<>>
      BY <2>0, <3>1
    <3> QED
      BY <3>1, <3>2, <3>3
         DEF Log!Next, Log!Unload, Log!Holds, Holds, Accumulated
  <2>5. ASSUME NEW t \in Threads, WriteAppend(t) PROVE Log!Next
    <3>1. pc[t] = "w_append" /\ pc[t] \in Writing /\ pc[t] \in Inside
      BY <2>5 DEF WriteAppend, Writing, Inside
    <3>2. loaded
      BY <3>1 DEF IInv, ClosedWhenUnloaded
    <3>3. PICK data \in Payloads : req[t] = [op |-> "write", data |-> data]
      BY <3>1 DEF IInv, WriterHasBuffer
    <3>4. ~Holds(Accumulated, NL)
      <4>1. \A u \in Threads : pc[u] # "w_commit"
        BY <3>1 DEF IInv, LockHeldInside, Inside
      <4> QED
        BY <3>2, <4>1 DEF ContentInv, AccumulatorEnds
    <3>5. /\ UNCHANGED <<loaded, circular_buffer>>
          /\ Commands' = Commands
          /\ Accumulated' = Accumulated \o data
      BY <2>1, <2>5, <3>3, AppendAdds DEF ContentInv
    <3> QED
      BY <3>2, <3>4, <3>5
         DEF Log!Next, Log!Accept, Log!Holds, Holds, Accumulated
  <2>6. ASSUME NEW t \in Threads, WriteCommit(t) PROVE Log!Next
    <3>1. /\ pc[t] = "w_commit" /\ UNCHANGED loaded
          /\ write_accumulator' = NULL
      BY <2>6 DEF WriteCommit
    <3>2. loaded
      BY <3>1 DEF IInv, ClosedWhenUnloaded
    <3>3. Holds(Accumulated, NL)
      BY <3>1, <3>2 DEF ContentInv, AccumulatorEnds
    <3>4. Accumulated' = <<>>
      BY <3>1 DEF Accumulated, Contents
    <3>5. CASE Stored
      <4> DEFINE e == [buffptr |-> write_accumulator,
                       size    |-> accumulator_size]
      <4>1. /\ circular_buffer \in BufferType(Ptr)
            /\ WellFormed(circular_buffer)
            /\ e \in EntryType(Ptr) /\ e.buffptr # NULL
        BY <3>1, <3>2 DEF IInv, TypeOK, BufferShape, CommitHasCommand, EntryType
      <4>2. Blocks \in [Slots -> Seq(Byte)] /\ Blocks' \in [Slots -> Seq(Byte)]
        BY <1>3, BlocksType DEF IInv
      <4>3. Accumulated \in Seq(Byte)
        BY ContentsType DEF IInv, TypeOK, Accumulated
      <4>4. \A i \in Slots : Blocks'[i] = IF i = circular_buffer.in_offs
                                          THEN Accumulated ELSE Blocks[i]
        BY <2>6, <3>5, StoredHandsOver DEF Blocks
      <4>5. circular_buffer' = AddEntry(circular_buffer, e)
        BY <3>5 DEF Stored
      <4> HIDE DEF e
      <4>6. ASSUME NEW S, NEW x \in S,
                   NEW f \in [Slots -> S], NEW g \in [Slots -> S],
                   \A i \in Slots : g[i] = IF i = circular_buffer.in_offs
                                            THEN x ELSE f[i]
            PROVE  InOrder(AddEntry(circular_buffer, e), g)
                     = LastOps(Append(InOrder(circular_buffer, f), x))
        BY <4>1, <4>6, AddEntryAppends
      <4>7. InOrder(AddEntry(circular_buffer, e), Blocks')
              = LastOps(Append(InOrder(circular_buffer, Blocks), Accumulated))
        BY <4>2, <4>3, <4>4, <4>6, Zenon
      <4>8. Commands' = LastOps(Append(Commands, Accumulated))
        BY <2>0, <3>1, <3>2, <4>5, <4>7
      <4> QED
        BY <3>1, <3>2, <3>3, <3>4, <4>8
           DEF Log!Next, Log!Commit, Log!Keep, LastOps, Log!Holds, Holds,
               Accumulated
    <3>6. CASE NotStored
      <4>1. Commands' = Commands
        BY <2>1, <2>6, <3>1, <3>6, NotStoredKeeps
      <4> QED
        BY <3>1, <3>2, <3>3, <3>4, <4>1
           DEF Log!Next, Log!Drop, Log!Holds, Holds, Accumulated
    <3> QED
      BY <2>6, <3>5, <3>6 DEF WriteCommit
  <2>7. ASSUME NEW t \in Threads,
               \/ WriteEnter(t) \/ Interrupted(t) \/ AppendRefused(t)
               \/ WriteUnlock(t) \/ Quiet(t)
        PROVE  [Log!Next]_Log!vars
    BY <2>2, <2>7, EnterKeeps, FreeKeeps, QuietKeeps, QuietContents
  <2>8. CASE UNCHANGED vars
    <3>1. UNCHANGED <<device, mem>>
      BY <2>8 DEF vars, heap
    <3>2. \A i \in Slots : Entry(i)' = Entry(i)
      BY <3>1 DEF device, Entry, EntryPtr, Contents
    <3>3. Accumulated' = Accumulated
      BY <3>1 DEF device, Accumulated, Contents
    <3> QED
      BY <2>2, <3>1, <3>2, <3>3
  <2> QED
    BY <2>3, <2>4, <2>5, <2>6, <2>7, <2>8, NextCases
<1> QED
  BY <1>1, <1>4, ContentInductive, PTL
     DEF Spec, ImplementsCommandLog, Log!Spec

-----------------------------------------------------------------------------
(***************************************************************************)
(* What read, llseek and ioctl find.                                       *)
(***************************************************************************)

ArgumentsFit(t) ==
  /\ pc[t] \in Reading => req[t].count \in Nat
  /\ pc[t] \in {"s_lock", "s_seek"} => req[t].offset \in Int
  /\ pc[t] \in {"i_lock", "i_seek"} =>
       req[t].write_cmd \in Nat /\ req[t].write_cmd_offset \in Nat

(* Between two turns of the loop of aesd_read, what was copied is what the *)
(* contents hold from f_pos on.                                            *)
CopiedFits(t) ==
  IF pc[t] = "r_copy"
  THEN /\ Len(copied[t]) <= req[t].count
       /\ f_pos[t] + Len(copied[t]) <= Len(Text)
       /\ copied[t] = SubSeq(Text, f_pos[t] + 1, f_pos[t] + Len(copied[t]))
  ELSE copied[t] = <<>>

CallInv ==
  /\ f_pos \in [Threads -> Nat]
  /\ copied \in [Threads -> Seq(Byte)]
  /\ ret \in [Threads -> Int]
  /\ \A t \in Threads : ArgumentsFit(t)
  /\ \A t \in Threads : CopiedFits(t)

-----------------------------------------------------------------------------
(* The commands are the blocks the slots lead to, in the order the search  *)
(* takes.                                                                  *)
LEMMA TextPlaces ==
  ASSUME IInv, ContentInv, loaded
  PROVE  /\ circular_buffer \in BufferType(Ptr) /\ WellFormed(circular_buffer)
         /\ Commands \in Seq(Seq(Byte))
         /\ Len(Commands) = Count(circular_buffer)
         /\ Text \in Seq(Byte)
         /\ Len(Text) = Offset(circular_buffer, Count(circular_buffer))
         /\ Len(Text) = Size(circular_buffer)
         /\ \A k \in 0 .. Count(circular_buffer) :
              Len(FlattenSeq(SubSeq(Commands, 1, k)))
                = Offset(circular_buffer, k)
         /\ \A k \in 0 .. Count(circular_buffer) - 1 :
              LET i == Slot(circular_buffer, k)
              IN  /\ i \in Slots
                  /\ Commands[k + 1] = mem[EntryPtr(i)]
                  /\ Len(Commands[k + 1]) = circular_buffer.entry[i].size
                  /\ \A j \in 1 .. circular_buffer.entry[i].size :
                       Text[Offset(circular_buffer, k) + j]
                         = mem[EntryPtr(i)][j]
<1> DEFINE b == circular_buffer
           n == Count(b)
           X == Seq(Byte)
<1>1. b \in BufferType(Ptr) /\ WellFormed(b)
  BY DEF IInv, TypeOK, BufferShape
<1>2. /\ n \in 0 .. MaxOps /\ n \in Nat /\ n \in 0 .. n
      /\ \A k \in 0 .. n - 1 : k \in Slots /\ k + 1 \in 1 .. n /\ (k + 1) - 1 = k
  BY <1>1, CountRange, MaxOpsAssumption DEF Slots
<1>3. /\ Commands = InOrder(b, Blocks)
      /\ Blocks \in [Slots -> X]
      /\ \A k \in 1 .. n : Commands[k] = mem[EntryPtr(Slot(b, k - 1))]
  BY CommandsInOrder, BlocksType DEF IInv, CommandsAreBlocks, Commands
<1> HIDE DEF X
<1>4. /\ Commands \in Seq(X) /\ Len(Commands) = n
      /\ \A k \in 1 .. n : /\ Slot(b, k - 1) \in Slots
                           /\ Commands[k] = Blocks[Slot(b, k - 1)]
  BY <1>1, <1>3, InOrderSeq
<1>5. \A k \in 1 .. n : Len(Commands[k]) = b.entry[Slot(b, k - 1)].size
  BY <1>4 DEF ContentInv, EntriesSized, Blocks
<1>6. Commands \in Seq(Seq(Byte))
  BY <1>4 DEF X
<1>7. \A k \in 0 .. n : Len(FlattenSeq(SubSeq(Commands, 1, k))) = Offset(b, k)
  BY <1>1, <1>4, <1>5, <1>6, OffsetIsLength
<1>8. Text \in Seq(Byte)
  BY <1>6, FlattenType DEF Text
<1>9. Len(Text) = Offset(b, n)
  <2>1. SubSeq(Commands, 1, Len(Commands)) = Commands
    BY <1>4
  <2> QED
    BY <1>2, <1>4, <1>7, <2>1 DEF Text
<1>10. Size(b) = Offset(b, n)
  BY <1>1, SizeIsOffset, OffsetEnds
<1>11. ASSUME NEW k \in 0 .. n - 1
       PROVE  /\ Slot(b, k) \in Slots
              /\ Commands[k + 1] = mem[EntryPtr(Slot(b, k))]
              /\ Len(Commands[k + 1]) = b.entry[Slot(b, k)].size
              /\ \A j \in 1 .. b.entry[Slot(b, k)].size :
                   Text[Offset(b, k) + j] = mem[EntryPtr(Slot(b, k))][j]
  <2>1. k \in Slots /\ k + 1 \in 1 .. n /\ (k + 1) - 1 = k /\ k \in 0 .. n
    BY <1>2
  <2>2. /\ Slot(b, k) \in Slots
        /\ Commands[k + 1] = mem[EntryPtr(Slot(b, k))]
        /\ Len(Commands[k + 1]) = b.entry[Slot(b, k)].size
    BY <1>3, <1>4, <1>5, <2>1
  <2>3. ASSUME NEW j \in 1 .. b.entry[Slot(b, k)].size
        PROVE  Text[Offset(b, k) + j] = mem[EntryPtr(Slot(b, k))][j]
    <3>1. k + 1 \in 1 .. Len(Commands) /\ j \in 1 .. Len(Commands[k + 1])
      BY <1>4, <2>1, <2>2, <2>3
    <3>2. FlattenSeq(Commands)[
            Len(FlattenSeq(SubSeq(Commands, 1, (k + 1) - 1))) + j]
            = Commands[k + 1][j]
      BY <1>6, <3>1, FlattenPlace, Zenon
    <3> QED
      BY <1>7, <2>1, <2>2, <3>2 DEF Text
  <2> QED
    BY <2>2, <2>3
<1> QED
  BY <1>1, <1>4, <1>6, <1>7, <1>8, <1>9, <1>10, <1>11

(* One turn of the loop copies what the contents hold there.               *)
LEMMA TurnCopies ==
  ASSUME IInv, ContentInv, loaded, NEW p \in Nat, NEW rest \in Nat,
         FindEntry(circular_buffer, p) # NotFound
  PROVE  LET found == FindEntry(circular_buffer, p)
             entry == circular_buffer.entry[found.slot]
             bytes_to_copy == Min({entry.size - found.entry_offset, rest})
         IN  /\ bytes_to_copy \in 0 .. rest
             /\ p + bytes_to_copy <= Len(Text)
             /\ SubSeq(mem[entry.buffptr], found.entry_offset + 1,
                       found.entry_offset + bytes_to_copy)
                  = SubSeq(Text, p + 1, p + bytes_to_copy)
<1> DEFINE b == circular_buffer
           n == Count(b)
<1>1. b \in BufferType(Ptr) /\ WellFormed(b) /\ n \in 0 .. MaxOps
      /\ MaxOps \in Nat
  BY TextPlaces, CountRange, MaxOpsAssumption
<1>2. PICK k \in 0 .. n - 1 :
        /\ Offset(b, k) <= p /\ p < Offset(b, k + 1)
        /\ FindEntry(b, p) = [slot         |-> Slot(b, k),
                              entry_offset |-> p - Offset(b, k)]
  <2>1. Offset(b, n) \in Nat
    BY <1>1, OffsetStep
  <2>2. p < Offset(b, n) \/ Offset(b, n) <= p
    BY <2>1
  <2> QED
    BY <1>1, <2>2, FindEntryFinds
<1> DEFINE i == Slot(b, k)
           size == b.entry[i].size
           at == p - Offset(b, k)
           some == Min({size - at, rest})
           block == mem[EntryPtr(i)]
<1>3. /\ i \in Slots
      /\ Len(Commands[k + 1]) = size /\ Commands[k + 1] = block
      /\ \A j \in 1 .. size : Text[Offset(b, k) + j] = block[j]
      /\ Commands \in Seq(Seq(Byte)) /\ Len(Commands) = n
      /\ Text \in Seq(Byte)
      /\ Len(Text) = Offset(b, n)
  BY TextPlaces
<1>4. /\ k \in Slots /\ k \in 0 .. MaxOps /\ k + 1 \in 0 .. MaxOps
      /\ k + 1 \in 1 .. n /\ n \in (k + 1) .. MaxOps
  BY <1>1 DEF Slots
<1>5. /\ Offset(b, k) \in Nat /\ Offset(b, k + 1) = Offset(b, k) + size
      /\ Offset(b, n) \in Nat
      /\ Offset(b, k + 1) <= Offset(b, n)
  BY <1>1, <1>4, OffsetStep, OffsetsGrow
<1>6. block \in Seq(Byte) /\ Len(block) = size /\ size \in Nat
  <2>1. Commands[k + 1] \in Seq(Byte)
    <3> DEFINE X == Seq(Byte)
    <3>1. Commands \in Seq(X) /\ k + 1 \in 1 .. Len(Commands)
      BY <1>3, <1>4
    <3> HIDE DEF X
    <3>2. Commands[k + 1] \in X
      BY <3>1
    <3> QED
      BY <3>2 DEF X
  <2> QED
    BY <1>3, <2>1
<1>7. /\ FindEntry(b, p).slot = i /\ FindEntry(b, p).entry_offset = at
      /\ b.entry[FindEntry(b, p).slot].buffptr = EntryPtr(i)
      /\ b.entry[FindEntry(b, p).slot].size = size
  BY <1>2 DEF EntryPtr
<1> HIDE DEF i, size, block
<1>8. at \in Nat /\ at < size /\ Offset(b, k) + at = p
  BY <1>2, <1>5, <1>6
<1> HIDE DEF at
<1>9. some \in Nat /\ some <= rest /\ at + some <= size
  <2>1. size - at \in Int /\ some = IF size - at <= rest THEN size - at ELSE rest
    BY <1>6, <1>8, MinOfTwo
  <2> QED
    BY <1>6, <1>8, <2>1
<1> HIDE DEF some
<1>10. p + some <= Len(Text)
  BY <1>3, <1>5, <1>6, <1>8, <1>9
<1>11. SubSeq(block, at + 1, at + some) = SubSeq(Text, p + 1, p + some)
  <2> DEFINE u == SubSeq(block, at + 1, at + some)
  <2>1. /\ u \in Seq(Byte) /\ Len(u) = (at + some) - at
        /\ \A j \in 1 .. (at + some) - at : u[j] = block[at + j]
    <3>1. at + some \in at .. Len(block)
      BY <1>6, <1>8, <1>9
    <3> QED
      BY <1>6, <1>8, <3>1, PieceOf
  <2> HIDE DEF u
  <2>2. Len(u) = (p + some) - p
    BY <1>8, <1>9, <2>1
  <2>3. ASSUME NEW j \in 1 .. (p + some) - p
        PROVE  u[j] = Text[p + j]
    <3>1. /\ j \in 1 .. (at + some) - at /\ at + j \in 1 .. size
          /\ Offset(b, k) + (at + j) = p + j
      BY <1>5, <1>6, <1>8, <1>9, <2>3
    <3> QED
      BY <1>3, <2>1, <3>1
  <2>4. p + some \in p .. Len(Text)
    BY <1>3, <1>5, <1>9, <1>10
  <2>5. u = SubSeq(Text, p + 1, p + some)
    BY <1>3, <2>1, <2>2, <2>3, <2>4, PieceIs
  <2> QED
    BY <2>5 DEF u
<1>12. some \in 0 .. rest
  BY <1>9
<1> QED
  BY <1>7, <1>10, <1>11, <1>12 DEF some, block

-----------------------------------------------------------------------------
LEMMA CommandsNext == IInv' => CommandsAreBlocks'
BY CommandsInOrder, PTL

(* The contents change only where the device's blocks do.                  *)
LEMMA TextKept ==
  ASSUME IInv, IInv',
         UNCHANGED <<loaded, circular_buffer>>,
         \A i \in Slots : Entry(i)' = Entry(i)
  PROVE  Text' = Text
<1>1. /\ Commands = IF loaded THEN InOrder(circular_buffer, Blocks) ELSE <<>>
      /\ Commands' = IF loaded' THEN InOrder(circular_buffer', Blocks')
                                ELSE <<>>
  BY CommandsInOrder, CommandsNext DEF CommandsAreBlocks, InOrder, Count, Slot
<1>2. Blocks' = Blocks
  BY DEF Blocks
<1>3. Commands' = Commands
  BY <1>1, <1>2
<1> QED
  BY <1>3 DEF Text

(* While a read is in its loop nobody else has the mutex, and without it   *)
(* the contents do not change.                                             *)
LEMMA ReaderKeepsText ==
  ASSUME IInv, IInv', ContentInv, [Next]_vars,
         NEW u \in Threads, pc[u] \in {"r_size", "r_copy"}
  PROVE  Text' = Text /\ loaded /\ lock = u
<1>1. pc[u] \in Inside /\ lock = u /\ loaded /\ pc[u] # "closed"
  BY DEF IInv, LockHeldInside, ClosedWhenUnloaded, Inside
<1>2. ~InitModule /\ ~CleanupModule
  BY <1>1 DEF InitModule, CleanupModule
<1>3. ASSUME NEW t \in Threads, WriteAppend(t) \/ WriteCommit(t)
      PROVE  FALSE
  <2>1. pc[t] \in {"w_append", "w_commit"}
    BY <1>3 DEF WriteAppend, WriteCommit
  <2>2. lock = t
    BY <2>1 DEF IInv, LockHeldInside, Inside
  <2> QED
    BY <1>1, <2>1, <2>2
<1>4. ASSUME NEW t \in Threads,
             \/ WriteEnter(t) \/ Interrupted(t) \/ AppendRefused(t)
             \/ WriteUnlock(t) \/ Quiet(t)
      PROVE  Text' = Text
  <2>1. UNCHANGED device /\ \A i \in Slots : Entry(i)' = Entry(i)
    BY <1>4, EnterKeeps, FreeKeeps, QuietKeeps, QuietContents
  <2> QED
    BY <2>1, TextKept DEF device
<1>5. CASE UNCHANGED vars
  <2>1. UNCHANGED <<device, mem>>
    BY <1>5 DEF vars, heap
  <2>2. \A i \in Slots : Entry(i)' = Entry(i)
    BY <2>1 DEF device, Entry, EntryPtr, Contents
  <2> QED
    BY <1>1, <2>1, <2>2, TextKept DEF device
<1> QED
  BY <1>1, <1>2, <1>3, <1>4, <1>5, NextCases

(* A call touches no other call's arguments, copies and file position.     *)
LEMMA OthersStay ==
  ASSUME TypeOK, CallInv, NEW t \in Threads, NEW u \in Threads \ {t},
         Call(t) \/ Acquire(t) \/ Interrupted(t) \/ Step(t)
  PROVE  /\ pc'[u] = pc[u] /\ req'[u] = req[u]
         /\ copied'[u] = copied[u] /\ f_pos'[u] = f_pos[u]
<1> USE DEF TypeOK, CallInv, Enter, Goto, Return, Refuse
<1>1. CASE Open(t) \/ Release(t) \/ Acquire(t)
  BY <1>1 DEF Open, Release, Acquire
<1>2. CASE WriteRefused(t) \/ IoctlRefused(t)
  BY <1>2 DEF WriteRefused, IoctlRefused
<1>3. CASE WriteEnter(t)
  BY <1>3 DEF WriteEnter
<1>4. CASE ReadEnter(t) \/ SeekEnter(t) \/ IoctlEnter(t)
  BY <1>4 DEF ReadEnter, SeekEnter, IoctlEnter
<1>5. CASE Interrupted(t) \/ AppendRefused(t) \/ WriteUnlock(t)
  BY <1>5 DEF Interrupted, AppendRefused, WriteUnlock
<1>6. CASE WriteAppend(t) \/ WriteCommit(t)
  BY <1>6 DEF WriteAppend, WriteCommit
<1>7. CASE ReadPastEnd(t) \/ ReadBegin(t) \/ ReadFaults(t) \/ ReadUnlock(t)
  BY <1>7 DEF ReadPastEnd, ReadBegin, ReadFaults, ReadUnlock
<1>8. CASE ReadCopy(t)
  BY <1>8 DEF ReadCopy
<1>9. CASE Seek(t) \/ SeekRefused(t)
  BY <1>9 DEF Seek, SeekRefused
<1>10. CASE IoctlSeek(t)
  BY <1>10 DEF IoctlSeek
<1> QED
  BY <1>1, <1>2, <1>3, <1>4, <1>5, <1>6, <1>7, <1>8, <1>9, <1>10
     DEF Call, Step

(* A call that returns leaves no copies.                                   *)
LEMMA ReturnFits ==
  ASSUME TypeOK, CallInv, NEW t \in Threads, NEW value, Return(t, value)
  PROVE  /\ copied' \in [Threads -> Seq(Byte)]
         /\ ArgumentsFit(t)' /\ CopiedFits(t)'
<1>1. pc'[t] = "idle" /\ copied'[t] = <<>>
      /\ copied' = [copied EXCEPT ![t] = <<>>]
  BY DEF TypeOK, CallInv, Return
<1>2. copied' \in [Threads -> Seq(Byte)]
  BY <1>1 DEF CallInv
<1> QED
  BY <1>1, <1>2 DEF ArgumentsFit, CopiedFits, Reading

(* Seeks give positions at or behind 0, also where loff_t wraps around.    *)
LEMMA SeekNatural ==
  ASSUME IInv, CallInv, NEW t \in Threads,
         pc[t] = "s_seek", req[t].whence \in Whences
  PROVE  /\ Size(circular_buffer) \in Nat
         /\ Clamp(LoffT(Origin(t) + req[t].offset), 0, Size(circular_buffer))
              \in 0 .. Size(circular_buffer)
<1>1. Size(circular_buffer) \in Nat
  <2>1. circular_buffer \in BufferType(Ptr) /\ MaxOps \in 0 .. MaxOps
    BY MaxOpsAssumption DEF IInv, TypeOK
  <2> QED
    BY <2>1, SizeIsOffset, OffsetStep
<1>2. Origin(t) \in Int
  BY <1>1 DEF Origin, Whences, CallInv
<1>3. Origin(t) + req[t].offset \in Int
  BY <1>2 DEF CallInv, ArgumentsFit
<1> DEFINE x == Origin(t) + req[t].offset
<1> HIDE DEF x
<1>4. LoffT(x) \in Int
  <2>1. x + PosLimit \in Int /\ 2 * PosLimit \in Nat \ {0}
    BY <1>3, DriverAssumption DEF x
  <2> DEFINE m == 2 * PosLimit
             y == x + PosLimit
  <2> HIDE DEF m, y
  <2>2. y % m \in Int
    BY <2>1 DEF m, y
  <2> QED
    BY <2>2, DriverAssumption DEF LoffT, m, y
<1> DEFINE z == LoffT(x)
<1> HIDE DEF z
<1>5. Clamp(z, 0, Size(circular_buffer)) \in 0 .. Size(circular_buffer)
  BY <1>1, <1>4 DEF Clamp, z
<1> QED
  BY <1>1, <1>5 DEF x, z

(* The steps of a call outside the loop of aesd_read.                      *)
LEMMA CallFits ==
  ASSUME IInv, ContentInv, CallInv, NEW t \in Threads,
         \/ Call(t) \/ Acquire(t) \/ Interrupted(t)
         \/ WriteAppend(t) \/ AppendRefused(t)
         \/ WriteCommit(t) \/ WriteUnlock(t)
         \/ ReadPastEnd(t) \/ ReadFaults(t) \/ ReadUnlock(t)
         \/ Seek(t) \/ SeekRefused(t) \/ IoctlSeek(t)
  PROVE  /\ f_pos' \in [Threads -> Nat]
         /\ copied' \in [Threads -> Seq(Byte)]
         /\ ArgumentsFit(t)' /\ CopiedFits(t)'
<1>1. /\ TypeOK
      /\ pc \in [Threads -> Labels] /\ req \in [Threads -> Request]
      /\ f_pos \in [Threads -> Nat] /\ copied \in [Threads -> Seq(Byte)]
      /\ ArgumentsFit(t) /\ CopiedFits(t)
  BY DEF IInv, TypeOK, CallInv
(* A call that does not return here and copies nothing.                    *)
<1>2. ASSUME UNCHANGED copied, pc[t] # "r_copy", pc'[t] # "r_copy"
      PROVE  copied' \in [Threads -> Seq(Byte)] /\ CopiedFits(t)'
  BY <1>1, <1>2 DEF CopiedFits
<1>3. CASE Open(t) \/ Release(t)
  <2>1. /\ pc'[t] \in {"idle", "closed"} /\ pc[t] # "r_copy"
        /\ UNCHANGED copied /\ f_pos' \in [Threads -> Nat]
    <3>1. CASE Open(t)
      BY <1>1, <3>1 DEF Open, Goto
    <3>2. CASE Release(t)
      BY <1>1, <3>2 DEF Release, Goto
    <3> QED
      BY <1>3, <3>1, <3>2
  <2> QED
    BY <1>2, <2>1 DEF ArgumentsFit, Reading
<1>4. CASE WriteRefused(t) \/ IoctlRefused(t)
  <2>1. UNCHANGED <<pc, req, copied, f_pos>> /\ pc[t] = "idle"
    BY <1>4 DEF WriteRefused, IoctlRefused, Refuse
  <2> QED
    BY <1>1, <1>2, <2>1 DEF ArgumentsFit
<1>5. CASE WriteEnter(t)
  <2>1. pc'[t] = "w_lock" /\ pc[t] = "idle" /\ UNCHANGED <<copied, f_pos>>
    BY <1>1, <1>5 DEF WriteEnter, Enter
  <2> QED
    BY <1>1, <1>2, <2>1 DEF ArgumentsFit, Reading
<1>6. CASE ReadEnter(t)
  <2>1. /\ pc'[t] = "r_lock" /\ pc[t] = "idle" /\ UNCHANGED <<copied, f_pos>>
        /\ \E count \in ReadCounts : req'[t] = [op |-> "read", count |-> count]
    BY <1>1, <1>6 DEF ReadEnter, Enter
  <2>2. req'[t].count \in Nat
    BY <2>1, DriverAssumption
  <2> QED
    BY <1>1, <1>2, <2>1, <2>2 DEF ArgumentsFit
<1>7. CASE SeekEnter(t)
  <2>1. /\ pc'[t] = "s_lock" /\ pc[t] = "idle" /\ UNCHANGED <<copied, f_pos>>
        /\ \E s \in Seeks : req'[t] = [op |-> "llseek", whence |-> s.whence,
                                      offset |-> s.offset]
    BY <1>1, <1>7 DEF SeekEnter, Enter
  <2>2. req'[t].offset \in Int
    BY <2>1, DriverAssumption
  <2> QED
    BY <1>1, <1>2, <2>1, <2>2 DEF ArgumentsFit, Reading
<1>8. CASE IoctlEnter(t)
  <2>1. /\ pc'[t] = "i_lock" /\ pc[t] = "idle" /\ UNCHANGED <<copied, f_pos>>
        /\ \E s \in SeekTos :
             req'[t] = [op               |-> "ioctl",
                        write_cmd        |-> s.write_cmd,
                        write_cmd_offset |-> s.write_cmd_offset]
    BY <1>1, <1>8 DEF IoctlEnter, Enter
  <2>2. req'[t].write_cmd \in Nat /\ req'[t].write_cmd_offset \in Nat
    BY <2>1, DriverAssumption
  <2> QED
    BY <1>1, <1>2, <2>1, <2>2 DEF ArgumentsFit, Reading
<1>9. CASE Acquire(t)
  <2>1. /\ pc[t] \in Waiting /\ pc'[t] = Locked(pc[t])
        /\ UNCHANGED <<req, copied, f_pos>>
    BY <1>1, <1>9 DEF Acquire, Goto
  <2>2. /\ pc'[t] # "r_copy" /\ pc[t] # "r_copy"
        /\ pc'[t] \in Reading => pc[t] \in Reading
        /\ pc'[t] \in {"s_lock", "s_seek"} => pc[t] = "s_lock"
        /\ pc'[t] \in {"i_lock", "i_seek"} => pc[t] = "i_lock"
    BY <2>1 DEF Waiting, Locked, Reading
  <2> QED
    BY <1>1, <1>2, <2>1, <2>2 DEF ArgumentsFit
<1>10. CASE WriteAppend(t) \/ WriteCommit(t)
  <2>1. /\ pc'[t] \in {"w_commit", "w_unlock"} /\ pc[t] # "r_copy"
        /\ UNCHANGED <<copied, f_pos>>
    BY <1>1, <1>10 DEF WriteAppend, WriteCommit, Goto
  <2> QED
    BY <1>1, <1>2, <2>1 DEF ArgumentsFit, Reading
<1>11. CASE \/ Interrupted(t) \/ AppendRefused(t) \/ ReadPastEnd(t)
            \/ ReadFaults(t) \/ SeekRefused(t)
  <2>1. UNCHANGED f_pos /\ \E value : Return(t, value)
    BY <1>11 DEF Interrupted, AppendRefused, ReadPastEnd, ReadFaults,
                 SeekRefused
  <2> QED
    BY <1>1, <2>1, ReturnFits
<1>12. CASE WriteUnlock(t)
  <2>1. /\ pc[t] \in Writing
        /\ f_pos' = [f_pos EXCEPT ![t] = @ + Len(req[t].data)]
        /\ \E value : Return(t, value)
    BY <1>12 DEF WriteUnlock, Writing
  <2>2. Len(req[t].data) \in Nat
    BY <2>1, WriterData DEF IInv
  <2>3. f_pos' \in [Threads -> Nat]
    BY <1>1, <2>1, <2>2
  <2> QED
    BY <1>1, <2>1, <2>3, ReturnFits
<1>13. CASE ReadUnlock(t)
  <2>1. /\ f_pos' = [f_pos EXCEPT ![t] = @ + Len(copied[t])]
        /\ \E value : Return(t, value)
    BY <1>13 DEF ReadUnlock
  <2>2. f_pos' \in [Threads -> Nat]
    BY <1>1, <2>1
  <2> QED
    BY <1>1, <2>1, <2>2, ReturnFits
<1>14. CASE Seek(t)
  <2> DEFINE new_pos == Clamp(LoffT(Origin(t) + req[t].offset),
                              0, Size(circular_buffer))
  <2>1. /\ pc[t] = "s_seek" /\ req[t].whence \in Whences
        /\ f_pos' = [f_pos EXCEPT ![t] = new_pos]
        /\ Return(t, new_pos)
    BY <1>14 DEF Seek
  <2>2. new_pos \in 0 .. Size(circular_buffer) /\ Size(circular_buffer) \in Nat
    BY <2>1, SeekNatural
  <2> HIDE DEF new_pos
  <2>3. f_pos' \in [Threads -> Nat]
    BY <1>1, <2>1, <2>2
  <2> QED
    BY <1>1, <2>1, <2>3, ReturnFits
<1>15. CASE IoctlSeek(t)
  <2> DEFINE offset == Offset(circular_buffer, req[t].write_cmd)
                         + req[t].write_cmd_offset
  <2>1. /\ pc[t] = "i_seek"
        /\ \/ SeekToValid(req[t]) /\ f_pos' = [f_pos EXCEPT ![t] = offset]
           \/ UNCHANGED f_pos
        /\ \E value : Return(t, value)
    BY <1>15 DEF IoctlSeek
  <2>2. SeekToValid(req[t]) => offset \in Nat
    <3>1. req[t].write_cmd \in Nat /\ req[t].write_cmd_offset \in Nat
      BY <1>1, <2>1 DEF ArgumentsFit
    <3>2. ASSUME SeekToValid(req[t])
          PROVE  Offset(circular_buffer, req[t].write_cmd) \in Nat
      <4>1. req[t].write_cmd \in 0 .. MaxOps
        BY <3>1, <3>2, MaxOpsAssumption DEF SeekToValid
      <4> QED
        BY <1>1, <4>1, OffsetStep DEF TypeOK
    <3> QED
      BY <3>1, <3>2
  <2> HIDE DEF offset
  <2>3. f_pos' \in [Threads -> Nat]
    BY <1>1, <2>1, <2>2
  <2> QED
    BY <1>1, <2>1, <2>3, ReturnFits
<1> QED
  BY <1>3, <1>4, <1>5, <1>6, <1>7, <1>8, <1>9, <1>10, <1>11, <1>12, <1>13,
     <1>14, <1>15 DEF Call

(* The steps of the loop.                                                  *)
LEMMA LoopFits ==
  ASSUME IInv, IInv', ContentInv, CallInv, [Next]_vars,
         NEW t \in Threads, ReadBegin(t) \/ ReadCopy(t)
  PROVE  /\ f_pos' \in [Threads -> Nat]
         /\ copied' \in [Threads -> Seq(Byte)]
         /\ ArgumentsFit(t)' /\ CopiedFits(t)'
<1>1. /\ TypeOK
      /\ pc \in [Threads -> Labels] /\ req \in [Threads -> Request]
      /\ f_pos \in [Threads -> Nat] /\ copied \in [Threads -> Seq(Byte)]
      /\ ArgumentsFit(t) /\ CopiedFits(t)
  BY DEF IInv, TypeOK, CallInv
<1>2. /\ pc[t] \in {"r_size", "r_copy"} /\ pc'[t] = "r_copy"
      /\ UNCHANGED <<req, f_pos>>
  BY <1>1 DEF ReadBegin, ReadCopy, Goto
<1>3. Text' = Text /\ loaded
  BY <1>2, ReaderKeepsText
<1>4. /\ Text \in Seq(Byte) /\ Len(Text) = Size(circular_buffer)
      /\ Len(Text) \in Nat
  BY <1>3, TextPlaces
<1>5. ArgumentsFit(t)' /\ req[t].count \in Nat
  BY <1>1, <1>2 DEF ArgumentsFit, Reading
<1> DEFINE text == Text
           pos  == f_pos[t]
           got  == copied[t]
<1>6. pos \in Nat /\ got \in Seq(Byte) /\ Len(got) \in Nat
  BY <1>1
<1>7. CASE ReadBegin(t)
  <2>1. pc[t] = "r_size" /\ UNCHANGED copied /\ pos < Len(text)
    BY <1>4, <1>7 DEF ReadBegin
  <2>2. got = <<>> /\ Len(got) = 0
    BY <1>1, <2>1 DEF CopiedFits
  <2> HIDE DEF text, pos
  <2>3. SubSeq(text, pos + 1, pos) = <<>>
    <3>1. pos \in pos .. Len(text) /\ text \in Seq(Byte)
      BY <1>4, <1>6, <2>1 DEF text
    <3>2. /\ SubSeq(text, pos + 1, pos) \in Seq(Byte)
          /\ Len(SubSeq(text, pos + 1, pos)) = pos - pos
      BY <1>6, <3>1, PieceOf, Zenon
    <3> DEFINE u == SubSeq(text, pos + 1, pos)
    <3> HIDE DEF u
    <3>3. u \in Seq(Byte) /\ Len(u) = 0
      BY <1>6, <3>2 DEF u
    <3>4. u = <<>>
      BY <3>3
    <3> QED
      BY <3>4 DEF u
  <2>4. pos + 0 = pos /\ 0 <= req[t].count /\ pos + 0 <= Len(text)
    BY <1>4, <1>5, <1>6, <2>1 DEF text
  <2>5. CopiedFits(t)'
    BY <1>2, <1>3, <2>1, <2>2, <2>3, <2>4 DEF CopiedFits, text, pos
  <2> QED
    BY <1>1, <1>2, <1>5, <2>1, <2>5
<1>8. CASE ReadCopy(t)
  <2> DEFINE found == NextEntry(t)
             entry == circular_buffer.entry[found.slot]
             rest == req[t].count - Len(got)
             some == Min({entry.size - found.entry_offset, rest})
             bytes == SubSeq(mem[entry.buffptr], found.entry_offset + 1,
                                                 found.entry_offset + some)
  <2>1. /\ pc[t] = "r_copy" /\ Len(got) < req[t].count /\ found # NotFound
        /\ copied' = [copied EXCEPT ![t] = got \o bytes]
    BY <1>8 DEF ReadCopy, MoreToCopy
  <2>2. /\ pos + Len(got) <= Len(text)
        /\ got = SubSeq(text, pos + 1, pos + Len(got))
    BY <1>1, <2>1 DEF CopiedFits
  <2>3. rest \in Nat /\ pos + Len(got) \in Nat
    BY <1>5, <1>6, <2>1
  <2>4. /\ some \in 0 .. rest
        /\ pos + Len(got) + some <= Len(text)
        /\ bytes = SubSeq(text, pos + Len(got) + 1, pos + Len(got) + some)
    BY <1>3, <2>1, <2>3, TurnCopies DEF NextEntry
  <2> HIDE DEF text, pos, got, found, entry, rest, some, bytes
  <2>5. got \o bytes = SubSeq(text, pos + 1, pos + Len(got) + some)
        /\ got \o bytes \in Seq(Byte)
        /\ Len(got \o bytes) = Len(got) + some
    <3> DEFINE j == pos + Len(got)
               k == j + some
    <3>1. j \in pos .. Len(text) /\ k \in j .. Len(text) /\ text \in Seq(Byte)
          /\ k \in pos .. Len(text) /\ j \in Nat /\ k - pos = Len(got) + some
      BY <1>4, <1>6, <2>2, <2>3, <2>4 DEF text
    <3> HIDE DEF j
    <3>2. got = SubSeq(text, pos + 1, j) /\ bytes = SubSeq(text, j + 1, k)
      BY <2>2, <2>4 DEF j
    <3> HIDE DEF k
    <3>3. got \o bytes = SubSeq(text, pos + 1, k)
      BY <1>6, <3>1, <3>2, PiecesJoin, Zenon
    <3>4. /\ SubSeq(text, pos + 1, k) \in Seq(Byte)
          /\ Len(SubSeq(text, pos + 1, k)) = k - pos
      BY <1>6, <3>1, PieceOf, Zenon
    <3> QED
      BY <3>1, <3>3, <3>4 DEF j, k
  <2>6. Len(got) + some <= req[t].count
        /\ pos + (Len(got) + some) = pos + Len(got) + some
    <3> DEFINE n == req[t].count
               l == Len(got)
    <3>1. /\ n \in Nat /\ l \in Nat /\ pos \in Nat
          /\ some \in 0 .. n - l /\ n - l \in Nat
      BY <1>5, <1>6, <2>3, <2>4 DEF rest
    <3> HIDE DEF n, l
    <3>2. l + some <= n /\ pos + (l + some) = pos + l + some
      BY <3>1
    <3> QED
      BY <3>2 DEF n, l
  <2>7. copied' \in [Threads -> Seq(Byte)] /\ copied'[t] = got \o bytes
    BY <1>1, <2>1, <2>5
  <2>8. CopiedFits(t)'
    <3> DEFINE new == got \o bytes
    <3>1. /\ Len(new) <= req[t].count /\ pos + Len(new) <= Len(text)
          /\ new = SubSeq(text, pos + 1, pos + Len(new))
      BY <2>4, <2>5, <2>6
    <3> HIDE DEF new
    <3>2. copied'[t] = new
      BY <2>7 DEF new
    <3> QED
      BY <1>2, <1>3, <3>1, <3>2 DEF CopiedFits, text, pos
  <2> QED
    BY <1>1, <1>2, <1>5, <2>7, <2>8
<1> QED
  BY <1>7, <1>8

(* What calls return are numbers.                                          *)
LEMMA RetType ==
  ASSUME IInv, CallInv, NEW t \in Threads,
         Call(t) \/ Acquire(t) \/ Interrupted(t) \/ Step(t)
  PROVE  ret' \in [Threads -> Int]
<1>1. ret \in [Threads -> Int] /\ ArgumentsFit(t)
      /\ copied \in [Threads -> Seq(Byte)]
  BY DEF CallInv
<1>2. ASSUME NEW value \in Int, Return(t, value)
      PROVE  ret' \in [Threads -> Int]
  BY <1>1, <1>2 DEF Return
<1>3. ASSUME NEW error \in Int, Refuse(t, error)
      PROVE  ret' \in [Threads -> Int]
  BY <1>1, <1>3 DEF Refuse
<1>4. /\ ERESTARTSYS \in Int /\ ENOMEM \in Int /\ EFAULT \in Int
      /\ EINVAL \in Int /\ ENOTTY \in Int /\ 0 \in Int
      /\ -ERESTARTSYS \in Int /\ -ENOMEM \in Int /\ -EFAULT \in Int
      /\ -EINVAL \in Int
  BY DEF ERESTARTSYS, ENOMEM, EFAULT, EINVAL, ENOTTY
<1>5. CASE WriteRefused(t) \/ IoctlRefused(t)
  BY <1>3, <1>4, <1>5 DEF WriteRefused, IoctlRefused
<1>6. CASE Open(t) \/ Acquire(t) \/ WriteAppend(t) \/ WriteCommit(t)
           \/ ReadBegin(t) \/ ReadCopy(t)
  BY <1>1, <1>6 DEF Open, Acquire, WriteAppend, WriteCommit, ReadBegin, ReadCopy
<1>7. CASE Release(t) \/ WriteEnter(t) \/ ReadEnter(t) \/ SeekEnter(t)
           \/ IoctlEnter(t)
  <2>1. ret' = [ret EXCEPT ![t] = 0]
    BY <1>7, Zenon DEF Release, WriteEnter, ReadEnter, SeekEnter, IoctlEnter, Enter
  <2> QED
    BY <1>1, <2>1
<1>8. CASE \/ Interrupted(t) \/ AppendRefused(t) \/ ReadPastEnd(t)
           \/ ReadFaults(t) \/ SeekRefused(t)
  BY <1>2, <1>4, <1>8 DEF Interrupted, AppendRefused, ReadPastEnd, ReadFaults,
                          SeekRefused
<1>9. CASE WriteUnlock(t)
  <2>1. pc[t] \in Writing /\ Return(t, Len(req[t].data))
    BY <1>9 DEF WriteUnlock, Writing
  <2>2. Len(req[t].data) \in Int
    BY <2>1, WriterData DEF IInv
  <2> QED
    BY <1>2, <2>1, <2>2
<1>10. CASE ReadUnlock(t)
  <2>1. Len(copied[t]) \in Int
    BY <1>1
  <2> QED
    BY <1>2, <1>10, <2>1 DEF ReadUnlock
<1>11. CASE Seek(t)
  <2> DEFINE new_pos == Clamp(LoffT(Origin(t) + req[t].offset),
                              0, Size(circular_buffer))
  <2>1. pc[t] = "s_seek" /\ req[t].whence \in Whences /\ Return(t, new_pos)
    BY <1>11 DEF Seek
  <2>2. new_pos \in Int
    BY <2>1, SeekNatural
  <2> HIDE DEF new_pos
  <2> QED
    BY <1>2, <2>1, <2>2
<1>12. CASE IoctlSeek(t)
  <2>1. Return(t, 0) \/ Return(t, -EINVAL)
    BY <1>12 DEF IoctlSeek
  <2> QED
    BY <1>2, <1>4, <2>1
<1> QED
  BY <1>5, <1>6, <1>7, <1>8, <1>9, <1>10, <1>11, <1>12 DEF Call, Step

LEMMA InitCalls == Init => CallInv
BY DEF Init, CallInv, ArgumentsFit, CopiedFits, Reading

LEMMA CallsNext ==
  IInv /\ IInv' /\ ContentInv /\ CallInv /\ [Next]_vars => CallInv'
<1> SUFFICES ASSUME IInv, IInv', ContentInv, CallInv, [Next]_vars
             PROVE  CallInv'
  OBVIOUS
<1>1. CASE InitModule \/ CleanupModule
  <2>1. UNCHANGED <<pc, req, copied, f_pos, ret>>
    BY <1>1 DEF InitModule, CleanupModule, caller
  <2>2. \A u \in Threads : pc[u] # "r_copy"
    BY <1>1 DEF InitModule, CleanupModule, IInv, ClosedWhenUnloaded
  <2> QED
    BY <2>1, <2>2 DEF CallInv, ArgumentsFit, CopiedFits
<1>2. ASSUME NEW t \in Threads,
             Call(t) \/ Acquire(t) \/ Interrupted(t) \/ Step(t)
      PROVE  CallInv'
  <2>1. /\ f_pos' \in [Threads -> Nat]
        /\ copied' \in [Threads -> Seq(Byte)]
        /\ ret' \in [Threads -> Int]
        /\ ArgumentsFit(t)' /\ CopiedFits(t)'
    BY <1>2, CallFits, LoopFits, RetType DEF Step
  <2>2. ASSUME NEW u \in Threads \ {t}
        PROVE  ArgumentsFit(u)' /\ CopiedFits(u)'
    <3>1. /\ pc'[u] = pc[u] /\ req'[u] = req[u]
          /\ copied'[u] = copied[u] /\ f_pos'[u] = f_pos[u]
      BY <1>2, OthersStay DEF IInv
    <3>2. ArgumentsFit(u)'
      BY <3>1 DEF CallInv, ArgumentsFit
    <3>3. pc[u] = "r_copy" => Text' = Text
      BY ReaderKeepsText
    <3>4. CopiedFits(u)'
      BY <3>1, <3>3 DEF CallInv, CopiedFits
    <3> QED
      BY <3>2, <3>4
  <2> QED
    BY <2>1, <2>2 DEF CallInv
<1>3. CASE UNCHANGED vars
  <2>1. UNCHANGED <<pc, req, copied, f_pos, ret>>
    BY <1>3 DEF vars, caller
  <2>2. \A u \in Threads : pc[u] = "r_copy" => Text' = Text
    BY ReaderKeepsText
  <2> QED
    BY <2>1, <2>2 DEF CallInv, ArgumentsFit, CopiedFits
<1> QED
  BY <1>1, <1>2, <1>3 DEF Next

LEMMA CallsInductive == Spec => [](IInv /\ ContentInv /\ CallInv)
<1>1. Init => CallInv
  BY InitCalls
<1>2. IInv /\ IInv' /\ ContentInv /\ CallInv /\ [Next]_vars => CallInv'
  BY CallsNext
<1> QED
  BY <1>1, <1>2, ContentInductive, PTL DEF Spec

-----------------------------------------------------------------------------
(* Which steps end a read, a seek and the ioctl.                           *)
LEMMA WhatReturns ==
  ASSUME IInv, CallInv, [Next]_vars, NEW t \in Threads,
         pc[t] \in {"r_size", "r_copy", "s_seek", "i_seek"}, pc'[t] = "idle"
  PROVE  /\ pc[t] \in {"r_size", "r_copy"} =>
              ReadPastEnd(t) \/ ReadFaults(t) \/ ReadUnlock(t)
         /\ pc[t] = "s_seek" => Seek(t) \/ SeekRefused(t)
         /\ pc[t] = "i_seek" => IoctlSeek(t)
<1>1. pc'[t] # pc[t]
  OBVIOUS
<1>2. ~InitModule /\ ~CleanupModule /\ ~UNCHANGED vars
  BY <1>1 DEF InitModule, CleanupModule, vars, caller
<1>3. PICK u \in Threads : Call(u) \/ Acquire(u) \/ Interrupted(u) \/ Step(u)
  BY <1>2 DEF Next
<1>4. u = t
  BY <1>1, <1>3, OthersStay DEF IInv
<1>5. ~Call(t)
  <2>1. ~Open(t) /\ ~Release(t)
    BY DEF Open, Release
  <2>2. ~WriteEnter(t) /\ ~WriteRefused(t)
    BY DEF WriteEnter, Enter, WriteRefused, Refuse
  <2>3. ~ReadEnter(t) /\ ~SeekEnter(t) /\ ~IoctlEnter(t) /\ ~IoctlRefused(t)
    BY DEF ReadEnter, SeekEnter, IoctlEnter, Enter, IoctlRefused, Refuse
  <2> QED
    BY <2>1, <2>2, <2>3 DEF Call
<1>6. ~Acquire(t) /\ ~Interrupted(t)
  BY DEF Acquire, Interrupted, Waiting
<1>7. ~WriteAppend(t) /\ ~AppendRefused(t) /\ ~WriteCommit(t) /\ ~WriteUnlock(t)
  BY DEF WriteAppend, AppendRefused, WriteCommit, WriteUnlock
<1>8. ~ReadBegin(t) /\ ~ReadCopy(t)
  BY <1>1 DEF ReadBegin, ReadCopy, Goto, IInv, TypeOK
<1>9. pc[t] \in {"r_size", "r_copy"} =>
        ~Seek(t) /\ ~SeekRefused(t) /\ ~IoctlSeek(t)
  BY DEF Seek, SeekRefused, IoctlSeek
<1>10. pc[t] \in {"s_seek", "i_seek"} =>
         ~ReadPastEnd(t) /\ ~ReadFaults(t) /\ ~ReadUnlock(t)
  BY DEF ReadPastEnd, ReadFaults, ReadUnlock
<1>11. /\ pc[t] = "s_seek" => ~IoctlSeek(t)
       /\ pc[t] = "i_seek" => ~Seek(t) /\ ~SeekRefused(t)
  BY DEF Seek, SeekRefused, IoctlSeek
<1> QED
  BY <1>3, <1>4, <1>5, <1>6, <1>7, <1>8, <1>9, <1>10, <1>11 DEF Step

LEMMA ReadReturns ==
  ASSUME IInv, ContentInv, CallInv, [Next]_vars, NEW t \in Threads,
         pc[t] \in {"r_size", "r_copy"}, pc'[t] = "idle", ret'[t] >= 0
  PROVE  LET end == Min({f_pos[t] + req[t].count, Len(Text)})
         IN  /\ copied[t] = SubSeq(Text, f_pos[t] + 1, end)
             /\ f_pos'[t] = f_pos[t] + ret'[t]
<1> DEFINE text == Text
           pos  == f_pos[t]
           got  == copied[t]
           n    == req[t].count
           end  == Min({pos + n, Len(text)})
<1>1. /\ f_pos \in [Threads -> Nat] /\ copied \in [Threads -> Seq(Byte)]
      /\ pc \in [Threads -> Labels] /\ req \in [Threads -> Request]
      /\ ret \in [Threads -> Int] /\ ArgumentsFit(t) /\ CopiedFits(t)
  BY DEF IInv, TypeOK, CallInv
<1>2. loaded /\ pc[t] \in Reading
  BY DEF IInv, ClosedWhenUnloaded, Reading
<1>3. /\ text \in Seq(Byte) /\ Len(text) \in Nat
      /\ Len(text) = Size(circular_buffer)
      /\ Len(text) = Offset(circular_buffer, Count(circular_buffer))
      /\ circular_buffer \in BufferType(Ptr) /\ WellFormed(circular_buffer)
  BY <1>2, TextPlaces
<1>4. pos \in Nat /\ got \in Seq(Byte) /\ Len(got) \in Nat /\ n \in Nat
  BY <1>1, <1>2 DEF ArgumentsFit
<1>5. end = IF pos + n <= Len(text) THEN pos + n ELSE Len(text)
  <2> HIDE DEF text, pos, n
  <2>1. pos + n \in Int /\ Len(text) \in Int
    BY <1>3, <1>4
  <2> QED
    BY <2>1, MinOfTwo
<1>6. CASE ReadPastEnd(t)
  <2>1. /\ pc[t] = "r_size" /\ pos >= Len(text)
        /\ UNCHANGED f_pos /\ ret'[t] = 0
    BY <1>1, <1>3, <1>6 DEF ReadPastEnd, Return
  <2>2. got = <<>>
    BY <1>1, <2>1 DEF CopiedFits
  <2> HIDE DEF text, pos, got, n
  <2>3. end <= pos /\ end \in Nat
    BY <1>3, <1>4, <1>5, <2>1
  <2>4. SubSeq(text, pos + 1, end) = <<>>
    <3> HIDE DEF end
    <3>1. pos + 1 \in Int /\ end < pos + 1
      BY <1>4, <2>3
    <3> QED
      BY <1>3, <2>3, <3>1
  <2>5. f_pos'[t] = pos + ret'[t]
    BY <1>4, <2>1 DEF pos
  <2> QED
    BY <2>2, <2>4, <2>5 DEF text, pos, got, n
<1>7. CASE ReadUnlock(t)
  <2>1. /\ pc[t] = "r_copy" /\ ~MoreToCopy(t)
        /\ f_pos'[t] = pos + Len(got) /\ ret'[t] = Len(got)
    BY <1>1, <1>7 DEF ReadUnlock, Return
  <2>2. /\ Len(got) <= n /\ pos + Len(got) <= Len(text)
        /\ got = SubSeq(text, pos + 1, pos + Len(got))
    BY <1>1, <2>1 DEF CopiedFits
  <2>3. Len(got) = n \/ pos + Len(got) = Len(text)
    <3>1. CASE Len(got) < n
      <4>1. FindEntry(circular_buffer, pos + Len(got)) = NotFound
        BY <2>1, <3>1 DEF MoreToCopy, NextEntry
      <4>2. ASSUME pos + Len(got) < Len(text) PROVE FALSE
        <5> DEFINE p == pos + Len(got)
        <5>1. p \in Nat
          BY <1>4
        <5>2. PICK k \in 0 .. Count(circular_buffer) - 1 :
                FindEntry(circular_buffer, p)
                  = [slot         |-> Slot(circular_buffer, k),
                     entry_offset |-> p - Offset(circular_buffer, k)]
          <6>1. p < Offset(circular_buffer, Count(circular_buffer))
            BY <1>3, <4>2
          <6> HIDE DEF p
          <6> QED
            BY <1>3, <5>1, <6>1, FindEntryFinds
        <5>3. Slot(circular_buffer, k) \in Slots
          <6>1. k \in Slots
            BY <1>3, CountRange, MaxOpsAssumption DEF Slots
          <6> QED
            BY <1>3, <6>1, SlotValue
        <5>4. Slot(circular_buffer, k) = -1
          <6>1. FindEntry(circular_buffer, pos + Len(got)).slot
                  = Slot(circular_buffer, k)
            BY <5>2
          <6> QED
            BY <4>1, <6>1 DEF NotFound
        <5> QED
          BY <5>3, <5>4 DEF Slots
      <4> DEFINE l == Len(got)
                 end_of_text == Len(text)
      <4>3. /\ pos \in Nat /\ l \in Nat /\ end_of_text \in Nat
            /\ pos + l <= end_of_text /\ ~(pos + l < end_of_text)
        BY <1>3, <1>4, <2>2, <4>2
      <4> HIDE DEF pos, l, end_of_text
      <4>4. pos + l = end_of_text
        BY <4>3
      <4> QED
        BY <4>4 DEF l, end_of_text
    <3>2. CASE ~(Len(got) < n)
      <4> DEFINE l == Len(got)
      <4>1. l \in Nat /\ n \in Nat /\ l <= n /\ ~(l < n)
        BY <1>4, <2>2, <3>2
      <4> HIDE DEF l, n
      <4>2. l = n
        BY <4>1
      <4> QED
        BY <4>2 DEF l
    <3> QED
      BY <3>1, <3>2
  <2>4. end = pos + Len(got)
    <3> HIDE DEF pos, got, text, n, end
    <3> QED
      BY <1>3, <1>4, <1>5, <2>2, <2>3
  <2> HIDE DEF end
  <2>5. got = SubSeq(text, pos + 1, end) /\ f_pos'[t] = pos + ret'[t]
    BY <2>1, <2>2, <2>4
  <2> QED
    BY <2>5 DEF end
<1>8. ~ReadFaults(t)
  <2>1. ASSUME ReadFaults(t) PROVE FALSE
    <3>1. ret'[t] = -14
      BY <1>1, <2>1 DEF ReadFaults, Return, EFAULT
    <3> QED
      BY <3>1
  <2> QED
    BY <2>1
<1> QED
  BY <1>6, <1>7, <1>8, WhatReturns

LEMMA SeekReturns ==
  ASSUME IInv, ContentInv, CallInv, [Next]_vars, NEW t \in Threads,
         pc[t] = "s_seek", pc'[t] = "idle", ret'[t] >= 0
  PROVE  f_pos'[t] \in 0 .. Len(Text)
<1>1. f_pos \in [Threads -> Nat] /\ ret \in [Threads -> Int]
  BY DEF CallInv
<1>2. loaded
  BY DEF IInv, ClosedWhenUnloaded
<1>3. ~SeekRefused(t)
  <2>1. ASSUME SeekRefused(t) PROVE FALSE
    <3>1. ret'[t] = -22
      BY <1>1, <2>1 DEF SeekRefused, Return, EINVAL
    <3> QED
      BY <3>1
  <2> QED
    BY <2>1
<1>4. Seek(t)
  BY <1>3, WhatReturns
<1> DEFINE new_pos == Clamp(LoffT(Origin(t) + req[t].offset),
                            0, Size(circular_buffer))
<1>5. req[t].whence \in Whences /\ f_pos' = [f_pos EXCEPT ![t] = new_pos]
  BY <1>4 DEF Seek
<1>6. new_pos \in 0 .. Size(circular_buffer)
  BY <1>5, SeekNatural
<1> HIDE DEF new_pos
<1> QED
  BY <1>1, <1>2, <1>5, <1>6, TextPlaces

LEMMA IoctlReturns ==
  ASSUME IInv, ContentInv, CallInv, [Next]_vars, NEW t \in Threads,
         pc[t] = "i_seek", pc'[t] = "idle", ret'[t] >= 0
  PROVE  LET cmd    == req[t].write_cmd
             offset == req[t].write_cmd_offset
         IN  /\ f_pos'[t] \in 0 .. Len(Text)
             /\ cmd < Len(Commands)
             /\ offset <= Len(Commands[cmd + 1])
             /\ f_pos'[t] =
                  Len(FlattenSeq(SubSeq(Commands, 1, cmd))) + offset
<1> DEFINE b      == circular_buffer
           n      == Count(b)
           cmd    == req[t].write_cmd
           offset == req[t].write_cmd_offset
           entry  == b.entry[Slot(b, cmd)]
<1>1. f_pos \in [Threads -> Nat] /\ ret \in [Threads -> Int]
      /\ cmd \in Nat /\ offset \in Nat
  BY DEF CallInv, ArgumentsFit
<1>2. loaded
  BY DEF IInv, ClosedWhenUnloaded
<1>3. IoctlSeek(t)
  BY WhatReturns
<1>4. SeekToValid(req[t])
  <2>1. ASSUME ~SeekToValid(req[t]) PROVE FALSE
    <3>1. Return(t, -EINVAL)
      BY <1>3, <2>1 DEF IoctlSeek
    <3>2. ret'[t] = -22
      BY <1>1, <3>1 DEF Return, EINVAL
    <3> QED
      BY <3>2
  <2> QED
    BY <2>1
<1>5. f_pos'[t] = Offset(b, cmd) + offset
  BY <1>1, <1>3, <1>4 DEF IoctlSeek
<1>6. cmd < MaxOps /\ entry.buffptr # NULL /\ offset <= entry.size
  BY <1>4 DEF SeekToValid, Reaches
<1>7. cmd \in Slots /\ cmd \in 0 .. MaxOps /\ cmd + 1 \in 0 .. MaxOps
  BY <1>1, <1>6, MaxOpsAssumption DEF Slots
<1>8. /\ b \in BufferType(Ptr) /\ WellFormed(b)
      /\ Len(Commands) = n /\ Len(Text) = Offset(b, n)
      /\ \A k \in 0 .. n : Len(FlattenSeq(SubSeq(Commands, 1, k))) = Offset(b, k)
      /\ \A k \in 0 .. n - 1 : Len(Commands[k + 1]) = b.entry[Slot(b, k)].size
  BY <1>2, TextPlaces
<1>9. n \in 0 .. MaxOps
  BY <1>8, CountRange
(* A slot that is not in use would still be zero.                          *)
<1>10. cmd < n
  <2>1. CASE b.full
    BY <1>6, <1>8, <2>1, CountRange
  <2>2. CASE ~b.full
    <3>1. n = b.in_offs /\ b.out_offs = 0
      BY <1>8, <2>2, CountRange DEF WellFormed
    <3>2. Slot(b, cmd) = cmd
      BY <1>7, <1>8, <3>1, SlotValue, MaxOpsAssumption DEF Slots
    <3>3. Used(b, cmd)
      BY <1>6, <1>7, <1>8, <3>2 DEF WellFormed, EmptyEntry
    <3> QED
      BY <2>2, <3>1, <3>3 DEF Used
  <2> QED
    BY <2>1, <2>2
<1>11. /\ cmd \in 0 .. n - 1 /\ cmd \in 0 .. n /\ n \in (cmd + 1) .. MaxOps
  BY <1>1, <1>9, <1>10, MaxOpsAssumption
<1>12. /\ Offset(b, cmd) \in Nat /\ Offset(b, n) \in Nat
       /\ Offset(b, cmd + 1) = Offset(b, cmd) + entry.size
       /\ Offset(b, cmd + 1) <= Offset(b, n)
       /\ entry.size \in Nat
  <2>1. Slot(b, cmd) \in Slots
    BY <1>7, <1>8, SlotValue
  <2>2. entry.size \in Nat
    BY <1>8, <2>1 DEF BufferType
  <2>3. Offset(b, cmd) \in Nat /\ Offset(b, n) \in Nat
    BY <1>7, <1>8, <1>9, OffsetStep
  <2>4. Offset(b, cmd + 1) = Offset(b, cmd) + entry.size
    BY <1>7, <1>8, OffsetStep
  <2>5. Offset(b, cmd + 1) <= Offset(b, n)
    BY <1>7, <1>8, <1>11, OffsetsGrow
  <2> QED
    BY <2>2, <2>3, <2>4, <2>5
<1>13. Len(Commands[cmd + 1]) = entry.size
  BY <1>8, <1>11
<1>14. Len(FlattenSeq(SubSeq(Commands, 1, cmd))) = Offset(b, cmd)
  BY <1>8, <1>11
<1>15. Offset(b, cmd) + offset \in 0 .. Len(Text)
  <2> DEFINE x == Offset(b, cmd)
             y == Offset(b, n)
             z == entry.size
  <2>1. x \in Nat /\ y \in Nat /\ z \in Nat /\ x + z <= y /\ offset <= z
        /\ offset \in Nat
    BY <1>1, <1>6, <1>12
  <2> HIDE DEF x, y, z, offset
  <2>2. x + offset \in 0 .. y
    BY <2>1
  <2> QED
    BY <1>8, <2>2 DEF x, y
<1> QED
  BY <1>5, <1>6, <1>8, <1>10, <1>13, <1>14, <1>15

(* A read that succeeds returned what one moment's contents hold from      *)
(* f_pos on, however many commands it crossed and whoever wrote meanwhile. *)
THEOREM OneMoment == Spec => ReadsOneMoment
<1> DEFINE Reads ==
      \A t \in Threads :
        pc[t] \in {"r_size", "r_copy"} /\ pc'[t] = "idle" /\ ret'[t] >= 0 =>
          LET end == Min({f_pos[t] + req[t].count, Len(Text)})
          IN  /\ copied[t] = SubSeq(Text, f_pos[t] + 1, end)
              /\ f_pos'[t] = f_pos[t] + ret'[t]
<1>1. IInv /\ ContentInv /\ CallInv /\ [Next]_vars => Reads
  BY ReadReturns
<1> HIDE DEF Reads
<1>2. Spec => [][Reads]_vars
  BY <1>1, CallsInductive, PTL DEF Spec
<1> QED
  BY <1>2 DEF ReadsOneMoment, Reads

(* A seek that succeeds lands inside the contents, and the ioctl so many   *)
(* bytes into the command it names, also when the buffer has wrapped.      *)
THEOREM LandsInside == Spec => SeeksLandInside
<1> DEFINE Lands ==
      \A t \in Threads :
        pc[t] \in {"s_seek", "i_seek"} /\ pc'[t] = "idle" /\ ret'[t] >= 0 =>
          /\ f_pos'[t] \in 0 .. Len(Text)
          /\ pc[t] = "i_seek" =>
               LET cmd    == req[t].write_cmd
                   offset == req[t].write_cmd_offset
               IN  /\ cmd < Len(Commands)
                   /\ offset <= Len(Commands[cmd + 1])
                   /\ f_pos'[t] =
                        Len(FlattenSeq(SubSeq(Commands, 1, cmd))) + offset
<1>1. IInv /\ ContentInv /\ CallInv /\ [Next]_vars => Lands
  BY SeekReturns, IoctlReturns
<1> HIDE DEF Lands
<1>2. Spec => [][Lands]_vars
  BY <1>1, CallsInductive, PTL DEF Spec
<1> QED
  BY <1>2 DEF SeeksLandInside, Lands
=============================================================================
