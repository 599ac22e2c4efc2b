--------------------------- MODULE AesdCharDriver ---------------------------
(***************************************************************************)
(* The character device driver of aesd-char-driver/main.c: one device,     *)
(* any number of threads that each hold a file open on it and call read,   *)
(* write, llseek and ioctl at the same time.  A call is split where others *)
(* may run: before the mutex, at each turn of the read loop, between       *)
(* growing the accumulator and committing it, at the unlock.               *)
(*                                                                         *)
(* The kernel heap is part of the state, since the driver's hardest duty   *)
(* is to free each block once: Ptr are the addresses kmalloc can return,   *)
(* so that memory runs out as it does in the kernel.                       *)
(***************************************************************************)
EXTENDS CircularBufferOps, SequencesExt

CONSTANTS
  Threads,     \* the callers, each with a struct file of its own
  Ptr,         \* addresses of kernel memory blocks
  Byte,        \* what files are made of
  NL,          \* the newline byte
  Payloads,    \* the buffers write may be called with
  ReadCounts,  \* the counts read may be called with
  Seeks,       \* the [whence, offset] llseek may be called with
  SeekTos,     \* the struct aesd_seekto ioctl may be called with
  MaxAlloc,    \* KMALLOC_MAX_SIZE: no block is larger
  PosLimit,    \* 2^63: a loff_t is in -PosLimit .. PosLimit - 1
  MaxPos,      \* bound on f_pos: write is not called beyond it
  Faults       \* which of "kmalloc", "efault", "signal" may happen

ASSUME DriverAssumption ==
  /\ NULL \notin Ptr
  /\ NULL \notin Threads
  /\ NL \in Byte
  /\ \A data \in Payloads : data \in Seq(Byte)
  /\ ReadCounts \subseteq Nat
  /\ \A s \in Seeks : s.offset \in Int
  /\ \A s \in SeekTos : s.write_cmd \in Nat /\ s.write_cmd_offset \in Nat
  /\ MaxAlloc \in Nat
  /\ MaxPos \in Nat
  /\ PosLimit \in Nat \ {0}

VARIABLES
  loaded,             \* module inserted
  circular_buffer,    \* aesd_device.circular_buffer
  write_accumulator,  \* aesd_device.write_accumulator
  accumulator_size,   \* aesd_device.accumulator_size
  lock,               \* the thread that holds aesd_device.lock, or NULL
  alloc,              \* blocks handed out by kmalloc and not yet freed
  mem,                \* contents of blocks
  pc,                 \* where each thread is
  req,                \* arguments of the call a thread is in
  kbuff,              \* aesd_write's local of that name
  copied,             \* bytes aesd_read has given to its caller
  f_pos,              \* file position of the thread's struct file
  ret                 \* what the last call returned

device == <<loaded, circular_buffer, write_accumulator, accumulator_size>>
heap   == <<alloc, mem>>
caller == <<pc, req, kbuff, copied, f_pos, ret>>
vars   == <<device, lock, heap, caller>>

ERESTARTSYS == 512
ENOMEM      == 12
EFAULT      == 14
EINVAL      == 22
ENOTTY      == 25

NoReq == [op |-> "none"]

Holds(s, byte) == \E i \in DOMAIN s : s[i] = byte

-----------------------------------------------------------------------------
(* Kernel memory.  Addresses are interchangeable, so which free one        *)
(* kmalloc returns does not matter.                                        *)
Exhausted       == alloc = Ptr
Fresh           == CHOOSE p \in Ptr \ alloc : TRUE
MayRefuse(size) == "kmalloc" \in Faults \/ size > MaxAlloc \/ Exhausted
MayGrant(size)  == size <= MaxAlloc /\ ~Exhausted

(* Contents after the blocks S were freed.                                 *)
Erased(S) == [p \in Ptr |-> IF p \in S THEN <<>> ELSE mem[p]]

Contents(p) == IF p = NULL THEN <<>> ELSE mem[p]

(* Where krealloc can put the grown accumulator: in place or elsewhere.    *)
Grown(size) ==
  IF size > MaxAlloc THEN {}
  ELSE ({write_accumulator} \ {NULL}) \cup (IF Exhausted THEN {} ELSE {Fresh})

-----------------------------------------------------------------------------
(* The shape of a call.                                                    *)
Enter(t, label, args) ==
  /\ pc[t] = "idle"
  /\ pc'  = [pc EXCEPT ![t] = label]
  /\ req' = [req EXCEPT ![t] = args]
  /\ ret' = [ret EXCEPT ![t] = 0]

Goto(t, label) == pc' = [pc EXCEPT ![t] = label]

Return(t, value) ==
  /\ pc'     = [pc EXCEPT ![t] = "idle"]
  /\ req'    = [req EXCEPT ![t] = NoReq]
  /\ ret'    = [ret EXCEPT ![t] = value]
  /\ copied' = [copied EXCEPT ![t] = <<>>]

(* A call that fails before it waits for the mutex.                        *)
Refuse(t, error) ==
  /\ pc[t] = "idle"
  /\ ret' = [ret EXCEPT ![t] = -error]
  /\ UNCHANGED <<device, lock, heap, pc, req, kbuff, copied, f_pos>>

(* mutex_lock_interruptible: where each function waits and goes on.        *)
Waiting == {"w_lock", "r_lock", "s_lock", "i_lock"}

Locked(label) ==
  CASE label = "w_lock" -> "w_append"
    [] label = "r_lock" -> "r_size"
    [] label = "s_lock" -> "s_seek"
    [] label = "i_lock" -> "i_seek"

Acquire(t) ==
  /\ pc[t] \in Waiting
  /\ lock = NULL
  /\ lock' = t
  /\ Goto(t, Locked(pc[t]))
  /\ UNCHANGED <<device, heap, req, kbuff, copied, f_pos, ret>>

(* Mutant: the result of mutex_lock_interruptible is not looked at.        *)
InterruptedIgnored(t) ==
  /\ "signal" \in Faults
  /\ pc[t] \in Waiting
  /\ lock # NULL
  /\ Goto(t, Locked(pc[t]))
  /\ UNCHANGED <<device, lock, heap, req, kbuff, copied, f_pos, ret>>

(* Mutant: aesd_write returns without kfree(kbuff).                        *)
InterruptedWithoutFree(t) ==
  /\ "signal" \in Faults
  /\ pc[t] \in Waiting
  /\ lock # NULL
  /\ kbuff' = [kbuff EXCEPT ![t] = NULL]
  /\ Return(t, -ERESTARTSYS)
  /\ UNCHANGED <<device, lock, heap, f_pos>>

(* A signal ends the wait for a mutex that another thread holds; aesd_write *)
(* frees its buffer, the others have nothing to undo.                       *)
Interrupted(t) ==
  /\ "signal" \in Faults
  /\ pc[t] \in Waiting
  /\ lock # NULL
  /\ alloc' = alloc \ {kbuff[t]}
  /\ mem'   = Erased({kbuff[t]})
  /\ kbuff' = [kbuff EXCEPT ![t] = NULL]
  /\ Return(t, -ERESTARTSYS)
  /\ UNCHANGED <<device, lock, f_pos>>

-----------------------------------------------------------------------------
(* aesd_init_module: the structure is zeroed before the device appears.    *)
InitModule ==
  /\ ~loaded
  /\ loaded' = TRUE
  /\ circular_buffer' = EmptyBuffer
  /\ write_accumulator' = NULL
  /\ accumulator_size' = 0
  /\ UNCHANGED <<lock, heap, caller>>

(* aesd_cleanup_module.  The kernel refuses to remove a module whose       *)
(* device is open (.owner = THIS_MODULE).                                  *)
CleanupModule ==
  LET pointers == {circular_buffer.entry[i].buffptr : i \in Slots}
  IN  /\ loaded
      /\ \A t \in Threads : pc[t] = "closed"
      /\ loaded' = FALSE
      /\ alloc' = alloc \ pointers
      /\ mem' = Erased(pointers)
      /\ circular_buffer' =
           [circular_buffer EXCEPT
              !.entry = [i \in Slots |->
                 [buffptr |-> NULL, size |-> circular_buffer.entry[i].size]]]
      /\ UNCHANGED <<write_accumulator, accumulator_size, lock, caller>>

Open(t) ==
  /\ loaded
  /\ pc[t] = "closed"
  /\ Goto(t, "idle")
  /\ UNCHANGED <<device, lock, heap, req, kbuff, copied, f_pos, ret>>

Release(t) ==
  /\ pc[t] = "idle"
  /\ Goto(t, "closed")
  /\ f_pos' = [f_pos EXCEPT ![t] = 0]
  /\ ret' = [ret EXCEPT ![t] = 0]
  /\ UNCHANGED <<device, lock, heap, req, kbuff, copied>>

-----------------------------------------------------------------------------
(* aesd_write.                                                             *)
WriteRefused(t) ==
  \/ <<>> \in Payloads /\ Refuse(t, EINVAL)
  \/ (\E data \in Payloads : MayRefuse(Len(data))) /\ Refuse(t, ENOMEM)
  \/ "efault" \in Faults /\ Payloads # {} /\ Refuse(t, EFAULT)

(* The data is in kernel memory before the mutex is asked for.             *)
WriteEnter(t) ==
  \E data \in Payloads :
    /\ data # <<>>
    /\ f_pos[t] + Len(data) <= MaxPos
    /\ MayGrant(Len(data))
    /\ Enter(t, "w_lock", [op |-> "write", data |-> data])
    /\ alloc' = alloc \cup {Fresh}
    /\ mem'   = [mem EXCEPT ![Fresh] = data]
    /\ kbuff' = [kbuff EXCEPT ![t] = Fresh]
    /\ UNCHANGED <<device, lock, copied, f_pos>>

(* krealloc fails: the accumulator stays as it was.                        *)
AppendRefused(t) ==
  /\ pc[t] = "w_append"
  /\ MayRefuse(accumulator_size + Len(req[t].data))
  /\ lock' = NULL
  /\ alloc' = alloc \ {kbuff[t]}
  /\ mem'   = Erased({kbuff[t]})
  /\ kbuff' = [kbuff EXCEPT ![t] = NULL]
  /\ Return(t, -ENOMEM)
  /\ UNCHANGED <<device, f_pos>>

(* Mutant: memchr is given one byte too few.                               *)
CommandEndedButLast(bytes) ==
  \E i \in DOMAIN bytes : i < Len(bytes) /\ bytes[i] = NL

(* newline_ptr != NULL: memchr looks at the whole accumulator.             *)
CommandEnded(bytes) == Holds(bytes, NL)

WriteAppend(t) ==
  LET size  == accumulator_size + Len(req[t].data)
      bytes == Contents(write_accumulator) \o mem[kbuff[t]]
  IN  /\ pc[t] = "w_append"
      /\ \E p \in Grown(size) :
           /\ alloc' = (alloc \ {write_accumulator}) \cup {p}
           /\ mem'   = [Erased({write_accumulator}) EXCEPT ![p] = bytes]
           /\ write_accumulator' = p
      /\ accumulator_size' = size
      /\ Goto(t, IF CommandEnded(bytes) THEN "w_commit" ELSE "w_unlock")
      /\ UNCHANGED <<loaded, circular_buffer, lock,
                     req, kbuff, copied, f_pos, ret>>

(* The accumulator becomes an entry of the circular buffer and the entry   *)
(* it displaces is freed.  aesd_circular_buffer_add_entry allocates a copy *)
(* that no pointer is left to.                                             *)
Stored ==
  LET old == Overwritten(circular_buffer)
  IN  /\ MayGrant(accumulator_size)
      /\ circular_buffer' = AddEntry(circular_buffer,
                              [buffptr |-> write_accumulator,
                               size    |-> accumulator_size])
      /\ alloc' = (alloc \cup {Fresh}) \ {old}
      /\ mem'   = Erased({old})

(* The copy is refused: nothing is stored, aesd_write is not told.         *)
NotStored ==
  /\ MayRefuse(accumulator_size)
  /\ UNCHANGED <<circular_buffer, heap>>

WriteCommit(t) ==
  /\ pc[t] = "w_commit"
  /\ Stored \/ NotStored
  /\ write_accumulator' = NULL
  /\ accumulator_size' = 0
  /\ Goto(t, "w_unlock")
  /\ UNCHANGED <<loaded, lock, req, kbuff, copied, f_pos, ret>>

WriteUnlock(t) ==
  LET count == Len(req[t].data)
  IN  /\ pc[t] = "w_unlock"
      /\ lock'  = NULL
      /\ alloc' = alloc \ {kbuff[t]}
      /\ mem'   = Erased({kbuff[t]})
      /\ kbuff' = [kbuff EXCEPT ![t] = NULL]
      /\ f_pos' = [f_pos EXCEPT ![t] = @ + count]
      /\ Return(t, count)
      /\ UNCHANGED device

-----------------------------------------------------------------------------
(* aesd_read.  The kernel hands it a copy of f_pos and stores the copy     *)
(* back when the call does not fail: *f_pos is f_pos plus what is copied.  *)
ReadEnter(t) ==
  \E count \in ReadCounts :
    /\ Enter(t, "r_lock", [op |-> "read", count |-> count])
    /\ UNCHANGED <<device, lock, heap, kbuff, copied, f_pos>>

(* Mutant: returns at the end of the contents and keeps the mutex.         *)
ReadPastEndKeepsLock(t) ==
  /\ pc[t] = "r_size"
  /\ f_pos[t] >= Size(circular_buffer)
  /\ Return(t, 0)
  /\ UNCHANGED <<device, lock, heap, kbuff, f_pos>>

ReadPastEnd(t) ==
  /\ pc[t] = "r_size"
  /\ f_pos[t] >= Size(circular_buffer)
  /\ lock' = NULL
  /\ Return(t, 0)
  /\ UNCHANGED <<device, heap, kbuff, f_pos>>

ReadBegin(t) ==
  /\ pc[t] = "r_size"
  /\ f_pos[t] < Size(circular_buffer)
  /\ Goto(t, "r_copy")
  /\ UNCHANGED <<device, lock, heap, req, kbuff, copied, f_pos, ret>>

(* Mutant: *f_pos is not advanced inside the loop.                         *)
NextEntryFromStart(t) == FindEntry(circular_buffer, f_pos[t])

NextEntry(t) == FindEntry(circular_buffer, f_pos[t] + Len(copied[t]))

MoreToCopy(t) ==
  Len(copied[t]) < req[t].count /\ NextEntry(t) # NotFound

(* One turn of the loop: what is left of one entry, or what still fits.    *)
ReadCopy(t) ==
  LET found == NextEntry(t)
      entry == circular_buffer.entry[found.slot]
      bytes_to_copy == Min({entry.size - found.entry_offset,
                            req[t].count - Len(copied[t])})
      bytes == SubSeq(mem[entry.buffptr], found.entry_offset + 1,
                                          found.entry_offset + bytes_to_copy)
  IN  /\ pc[t] = "r_copy"
      /\ MoreToCopy(t)
      /\ copied' = [copied EXCEPT ![t] = @ \o bytes]
      /\ UNCHANGED <<device, lock, heap, pc, req, kbuff, f_pos, ret>>

ReadFaults(t) ==
  /\ "efault" \in Faults
  /\ pc[t] = "r_copy"
  /\ MoreToCopy(t)
  /\ lock' = NULL
  /\ Return(t, -EFAULT)
  /\ UNCHANGED <<device, heap, kbuff, f_pos>>

ReadUnlock(t) ==
  /\ pc[t] = "r_copy"
  /\ ~MoreToCopy(t)
  /\ lock' = NULL
  /\ f_pos' = [f_pos EXCEPT ![t] = @ + Len(copied[t])]
  /\ Return(t, Len(copied[t]))
  /\ UNCHANGED <<device, heap, kbuff>>

-----------------------------------------------------------------------------
(* aesd_llseek.                                                            *)
SeekEnter(t) ==
  \E s \in Seeks :
    /\ Enter(t, "s_lock",
             [op |-> "llseek", whence |-> s.whence, offset |-> s.offset])
    /\ UNCHANGED <<device, lock, heap, kbuff, copied, f_pos>>

Whences == {"SEEK_SET", "SEEK_CUR", "SEEK_END"}

Origin(t) ==
  CASE req[t].whence = "SEEK_SET" -> 0
    [] req[t].whence = "SEEK_CUR" -> f_pos[t]
    [] req[t].whence = "SEEK_END" -> Size(circular_buffer)

(* Signed arithmetic of the width of loff_t: the kernel is built so that   *)
(* it wraps around.                                                        *)
LoffT(n) == ((n + PosLimit) % (2 * PosLimit)) - PosLimit

Clamp(n, low, high) == IF n < low THEN low ELSE IF n > high THEN high ELSE n

(* Mutant: an invalid whence returns and keeps the mutex.                  *)
SeekRefusedKeepsLock(t) ==
  /\ pc[t] = "s_seek"
  /\ req[t].whence \notin Whences
  /\ Return(t, -EINVAL)
  /\ UNCHANGED <<device, lock, heap, kbuff, f_pos>>

SeekRefused(t) ==
  /\ pc[t] = "s_seek"
  /\ req[t].whence \notin Whences
  /\ lock' = NULL
  /\ Return(t, -EINVAL)
  /\ UNCHANGED <<device, heap, kbuff, f_pos>>

Seek(t) ==
  LET new_pos == Clamp(LoffT(Origin(t) + req[t].offset),
                       0, Size(circular_buffer))
  IN  /\ pc[t] = "s_seek"
      /\ req[t].whence \in Whences
      /\ f_pos' = [f_pos EXCEPT ![t] = new_pos]
      /\ lock' = NULL
      /\ Return(t, new_pos)
      /\ UNCHANGED <<device, heap, kbuff>>

-----------------------------------------------------------------------------
(* aesd_unlocked_ioctl.                                                    *)
IoctlRefused(t) ==
  /\ SeekTos # {}
  /\ \/ Refuse(t, ENOTTY)
     \/ "efault" \in Faults /\ Refuse(t, EFAULT)

IoctlEnter(t) ==
  \E s \in SeekTos :
    /\ Enter(t, "i_lock",
             [op               |-> "ioctl",
              write_cmd        |-> s.write_cmd,
              write_cmd_offset |-> s.write_cmd_offset])
    /\ UNCHANGED <<device, lock, heap, kbuff, copied, f_pos>>

Reaches(entry, offset) == entry.buffptr # NULL /\ offset <= entry.size

(* Mutant: the entry the position is computed for is not looked at.        *)
SeekToValidBySlot(seekto) ==
  /\ seekto.write_cmd < MaxOps
  /\ Reaches(circular_buffer.entry[seekto.write_cmd],
             seekto.write_cmd_offset)

(* Two tests: of the entry in slot write_cmd, then of the entry write_cmd  *)
(* places behind out_offs, the one the position is computed for.           *)
SeekToValid(seekto) ==
  LET target == Slot(circular_buffer, seekto.write_cmd)
  IN  /\ seekto.write_cmd < MaxOps
      /\ Reaches(circular_buffer.entry[seekto.write_cmd],
                 seekto.write_cmd_offset)
      /\ Reaches(circular_buffer.entry[target], seekto.write_cmd_offset)

IoctlSeek(t) ==
  LET seekto == req[t]
      offset == Offset(circular_buffer, seekto.write_cmd)
                  + seekto.write_cmd_offset
  IN  /\ pc[t] = "i_seek"
      /\ lock' = NULL
      /\ IF SeekToValid(seekto)
         THEN f_pos' = [f_pos EXCEPT ![t] = offset] /\ Return(t, 0)
         ELSE UNCHANGED f_pos /\ Return(t, -EINVAL)
      /\ UNCHANGED <<device, heap, kbuff>>

-----------------------------------------------------------------------------
Init ==
  /\ loaded = FALSE
  /\ circular_buffer = EmptyBuffer
  /\ write_accumulator = NULL
  /\ accumulator_size = 0
  /\ lock = NULL
  /\ alloc = {}
  /\ mem    = [p \in Ptr |-> <<>>]
  /\ pc     = [t \in Threads |-> "closed"]
  /\ req    = [t \in Threads |-> NoReq]
  /\ kbuff  = [t \in Threads |-> NULL]
  /\ copied = [t \in Threads |-> <<>>]
  /\ f_pos  = [t \in Threads |-> 0]
  /\ ret    = [t \in Threads |-> 0]

(* What a program may do with its file.                                    *)
Call(t) ==
  \/ Open(t) \/ Release(t)
  \/ WriteEnter(t) \/ WriteRefused(t)
  \/ ReadEnter(t)
  \/ SeekEnter(t)
  \/ IoctlEnter(t) \/ IoctlRefused(t)

(* What the driver does once a call holds the mutex.                       *)
Step(t) ==
  \/ WriteAppend(t) \/ AppendRefused(t) \/ WriteCommit(t) \/ WriteUnlock(t)
  \/ ReadPastEnd(t) \/ ReadBegin(t) \/ ReadCopy(t) \/ ReadFaults(t)
  \/ ReadUnlock(t)
  \/ Seek(t) \/ SeekRefused(t)
  \/ IoctlSeek(t)

Next ==
  \/ InitModule \/ CleanupModule
  \/ \E t \in Threads : Call(t) \/ Acquire(t) \/ Interrupted(t) \/ Step(t)

Spec == Init /\ [][Next]_vars

(* A thread in the driver runs on, and the kernel's mutex hands itself to  *)
(* its waiters in turn; nobody has to make calls.                          *)
FairSpec ==
  /\ Spec
  /\ \A t \in Threads : WF_vars(Step(t)) /\ SF_vars(Acquire(t))

-----------------------------------------------------------------------------
Inside == {"w_append", "w_commit", "w_unlock", "r_size", "r_copy",
           "s_seek", "i_seek"}
Writing == {"w_lock", "w_append", "w_commit", "w_unlock"}
Reading == {"r_lock", "r_size", "r_copy"}
Labels  == {"closed", "idle", "s_lock", "i_lock"} \cup Inside
             \cup Writing \cup Reading

Request ==
  {NoReq}
    \cup {[op |-> "write", data |-> d] : d \in Payloads}
    \cup {[op |-> "read", count |-> n] : n \in ReadCounts}
    \cup {[op |-> "llseek", whence |-> s.whence, offset |-> s.offset] :
            s \in Seeks}
    \cup {[op |-> "ioctl", write_cmd |-> s.write_cmd,
           write_cmd_offset |-> s.write_cmd_offset] : s \in SeekTos}

(* The device, the heap and the calls have the types the code gives them   *)
(* (what copied, f_pos and ret may be is the subject of ReadsOneMoment and *)
(* SeeksLandInside).                                                       *)
TypeOK ==
  /\ loaded \in BOOLEAN
  /\ circular_buffer \in BufferType(Ptr)
  /\ write_accumulator \in Ptr \cup {NULL}
  /\ accumulator_size \in Nat
  /\ lock \in Threads \cup {NULL}
  /\ alloc \subseteq Ptr
  /\ mem \in [Ptr -> Seq(Byte)]
  /\ pc \in [Threads -> Labels]
  /\ req \in [Threads -> Request]
  /\ kbuff \in [Threads -> Ptr \cup {NULL}]

(* Every path of every function that takes the mutex gives it back before  *)
(* it returns, error returns included, and none runs without it.           *)
LockHeldInside == \A t \in Threads : pc[t] \in Inside <=> lock = t

EntryPtr(i) == circular_buffer.entry[i].buffptr

(* Each pointer the driver keeps (ten entries, the accumulator, a kbuff    *)
(* per writer) names an allocated block, and no two name the same: what    *)
(* aesd_write hands to the buffer, gets back and frees is never freed      *)
(* twice or read after it was freed.                                       *)
OwnedOnce ==
  /\ \A i \in Slots : EntryPtr(i) # NULL =>
       /\ EntryPtr(i) \in alloc
       /\ EntryPtr(i) # write_accumulator
       /\ \A j \in Slots \ {i} : EntryPtr(i) # EntryPtr(j)
  /\ write_accumulator # NULL => write_accumulator \in alloc
  /\ \A t \in Threads : kbuff[t] # NULL =>
       /\ kbuff[t] \in alloc
       /\ kbuff[t] # write_accumulator
       /\ \A i \in Slots : kbuff[t] # EntryPtr(i)
       /\ \A u \in Threads \ {t} : kbuff[t] # kbuff[u]

Known == {EntryPtr(i) : i \in Slots} \cup {write_accumulator}
           \cup {kbuff[t] : t \in Threads}

(* Blocks nobody can free any more.                                        *)
Lost == alloc \ Known

(* Only a commit and the reload of the module lose memory, and no more     *)
(* than one block (the copy add_entry makes; what was pending): no error   *)
(* path of read, write, llseek or ioctl forgets a kfree.                   *)
MemoryLossIsConfined ==
  [][\/ Lost' \subseteq Lost
     \/ /\ \/ \E t \in Threads : pc[t] = "w_commit" /\ pc'[t] = "w_unlock"
           \/ loaded' # loaded
        /\ \E p \in Ptr : Lost' \subseteq Lost \cup {p}]_vars

(* The sizes kept beside the pointers are the sizes of the blocks, so no   *)
(* copy_to_user or memcpy leaves its block; slots never used stay zero,    *)
(* which aesd_circular_buffer_size and ioctl's NULL test rely on.          *)
BlocksHoldTheirSize ==
  loaded =>
    /\ WellFormed(circular_buffer)
    /\ \A i \in Slots : circular_buffer.entry[i].size
                          = Len(Contents(EntryPtr(i)))
    /\ accumulator_size = Len(Contents(write_accumulator))

(* What was written joins the buffer with its first newline and never      *)
(* before: the accumulator holds a newline only inside the aesd_write that *)
(* brought it.  A commit takes the whole accumulator (main.c:158-171), so  *)
(* an entry holds a newline and may go on behind it.                       *)
CommandsAreEnded ==
  loaded =>
    /\ \A i \in Slots : EntryPtr(i) # NULL => Holds(mem[EntryPtr(i)], NL)
    /\ Holds(Contents(write_accumulator), NL)
         <=> \E t \in Threads : pc[t] = "w_commit"

(* The commands in the device, oldest first, and their bytes end to end.   *)
Commands ==
  IF loaded
  THEN [k \in 1 .. Count(circular_buffer) |->
          mem[EntryPtr(Slot(circular_buffer, k - 1))]]
  ELSE <<>>

Text == FlattenSeq(Commands)

(* A read that succeeds returned what one moment's contents hold from      *)
(* f_pos on, up to count bytes of it, however many entries it crossed and  *)
(* whoever wrote in the meantime.                                          *)
ReadsOneMoment ==
  [][\A t \in Threads :
       pc[t] \in {"r_size", "r_copy"} /\ pc'[t] = "idle" /\ ret'[t] >= 0 =>
         LET end == Min({f_pos[t] + req[t].count, Len(Text)})
         IN  /\ copied[t] = SubSeq(Text, f_pos[t] + 1, end)
             /\ f_pos'[t] = f_pos[t] + ret'[t]]_vars

(* A seek that succeeds leaves the position inside the contents, and the   *)
(* ioctl leaves it write_cmd_offset bytes into the write_cmd-th oldest     *)
(* command, also when the buffer has wrapped around.                       *)
SeeksLandInside ==
  [][\A t \in Threads :
       pc[t] \in {"s_seek", "i_seek"} /\ pc'[t] = "idle" /\ ret'[t] >= 0 =>
         /\ f_pos'[t] \in 0 .. Len(Text)
         /\ pc[t] = "i_seek" =>
              LET cmd    == req[t].write_cmd
                  offset == req[t].write_cmd_offset
              IN  /\ cmd < Len(Commands)
                  /\ offset <= Len(Commands[cmd + 1])
                  /\ f_pos'[t] =
                       Len(FlattenSeq(SubSeq(Commands, 1, cmd))) + offset]_vars

(* The write path implements one log of commands, filled by whole writes.  *)
Log == INSTANCE CommandLog WITH
         log     <- Commands,
         pending <- IF loaded THEN Contents(write_accumulator) ELSE <<>>

ImplementsCommandLog == Log!Spec

(* Every call returns: none waits for ever for the mutex or loops in it.   *)
EveryCallReturns ==
  \A t \in Threads :
    pc[t] \notin {"closed", "idle"} ~> pc[t] \in {"closed", "idle"}

-----------------------------------------------------------------------------
(* What a comment of the source says and the code does not do.             *)

(* aesd_ioctl.h:27, "The zero referenced write command to seek into": a    *)
(* seek to a byte of a command the device holds succeeds and goes there.   *)
SeekFindsCommand ==
  [][\A t \in Threads :
       LET cmd    == req[t].write_cmd
           offset == req[t].write_cmd_offset
       IN  (/\ pc[t] = "i_seek" /\ pc'[t] = "idle"
            /\ cmd < Len(Commands) /\ offset < Len(Commands[cmd + 1]))
           => ret'[t] = 0]_vars
=============================================================================
