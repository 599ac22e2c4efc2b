# A verification project for the AESD assignments

The repository holds a course's worth of systems programs around one idea: a
"socket server" that appends what its clients send to a store and answers with
the whole store. In its last form the store is a Linux character device,
`/dev/aesdchar`, that keeps the last ten newline-terminated commands in a
circular buffer. The specifications here follow that last form, the one the
Makefiles build, the two earlier servers that wrote to a plain file, and the
system-call exercises beside them.

All source lines below are lines of the repository's files.

## Inventory

### The circular buffer (`aesd-char-driver/aesd-circular-buffer.c`, `.h`)

* **State.** `entry[10]` (a pointer and a size each), `in_offs`, `out_offs`,
  `full`.
* **Operations.** `init`, `add_entry` (returns the pointer it overwrites),
  `find_entry_offset_for_fpos`, `size`. No locking of its own.
* **Interactions.** Called by the driver under the driver's mutex, and by a
  unit test in user space. It stores pointers; the memory is its caller's.
* **Hard.** Indices that wrap; `in_offs = out_offs` means empty or full;
  `size` adds up all ten slots and is right only because unused ones stay zero;
  `add_entry` answers "nothing overwritten" and "no memory" with the same NULL.
* **Correct when** the structure always stands for the last ten entries in
  order, a search finds the byte the concatenation has at that offset, and the
  returned pointer is exactly the one that dropped out.

### The driver (`aesd-char-driver/main.c`, `aesdchar.h`, `aesd_ioctl.h`)

* **State.** One `aesd_device`: the circular buffer, the accumulator of a
  command without newline, a mutex; the kernel heap; a file position per open
  file.
* **Operations.** Module init and cleanup, `open`, `release`, `read`, `write`,
  `llseek`, `unlocked_ioctl(AESDCHAR_IOCSEEKTO)`.
* **Interactions.** System calls of any number of threads meet at
  `aesd_device.lock`; `kmalloc`, `krealloc`, `copy_*_user` and the wait for the
  mutex may fail.
* **Hard.** Nine returns inside the mutex; a block passes from `kbuff` to the
  accumulator to an entry and back to `kfree`; a read crosses entries; the
  position is a `loff_t` that can overflow; the ioctl mixes slot numbers and
  positions behind `out_offs`.
* **Correct when** no block is freed twice or used after it was freed, no path
  keeps the mutex, a read returns what one moment's contents hold, a seek lands
  where it says, and all writers together fill one log of whole commands.

### The server (`server/aesdsocket.c`)

* **State.** `run`, the list of threads, `file_mutex`; per client a buffer and
  a file position; the sockets; the device, which outlives the process.
* **Operations.** `main` (accept loop), `handle_client`, `add_thread`,
  `remove_thread`, `join_threads`, `cleanup`, the signal handler.
* **Interactions.** A thread per connection; peers send, hang up and read; the
  device is opened, written, sought and read by one session at a time; a signal
  ends the process, the start script starts another.
* **Hard.** `file_mutex` is held across `recv`; the test for a seek compares a
  buffer that is neither cleared nor terminated between two `recv`
  (line 280), so a prefix that arrives in pieces is written as data and a piece
  that stale bytes complete is taken for a seek; nobody looks at what `send`
  returns; any failed write ends the whole process; a signal between the
  test of `run` and `accept` is lost; the list of threads has no lock and is
  changed by `main` and by every client thread.
* **Correct when** sessions exclude each other, what the test of line 280 lets
  through arrives whole and in order in the device, an ended packet is answered
  with the device's contents as far as `send` takes them, every connection is
  closed in the end, and the list holds exactly the threads that run.

### System calls (`examples/systemcalls/systemcalls.c`)

* **State.** The children of the process, the file descriptors redirects opened.
* **Operations.** `do_system`, `do_exec`, `do_exec_redirect`.
* **Hard.** `wait()` returns for whichever child of the process ended; a
  command may be killed; `fork` may fail after the file was opened.
* **Correct when** a call answers for its own command, closes its file, never
  waits for a child that somebody else took, and returns when the commands end.
  The code keeps the last two; of the first two it keeps what the properties
  say and the findings leave.

### Threads around a mutex (`examples/threading/threading.c`, `.h`)

* **State.** A `thread_data` per thread, the mutex its starter passed.
* **Operations.** `start_thread_obtaining_mutex`, `threadfunc`; callers join,
  free and use the mutex too.
* **Hard.** Who frees `thread_data` when a step fails; sleeps that end early and
  lose their milliseconds; an unlock that fails leaves the mutex locked.
* **Correct when** a `thread_data` lives exactly as long as its thread, a
  reported success means that the mutex was held for the whole seconds of its
  time (not for the milliseconds `threading.h` promises) and released, and
  every started thread ends.

### The earlier servers (`server/aesdsocket_assign3.c`, `server/aesdsocket_doesntwork.c`)

They keep what they receive in `/var/tmp/aesdsocket`, remove it when they end in
order, and are built by no Makefile.

* **State.** `run`, the listening socket, file descriptors, the data file, which
  outlives a process that did not clean up. `assign3`: one thread, the global
  `clientfd`, the open `FILE`. `doesntwork`: a thread per connection, one for
  timestamps, `file_mutex`, an unlocked list of threads.
* **Operations.** `assign3`: accept, `write_to_file`, a signal handler that calls
  `cleanup` itself. `doesntwork`: the accept loop, `handle_client`,
  `timestamp_thread`, `join_threads`, `cleanup_all`.
* **Interactions.** Each process finds the file as the last one left it;
  sessions and timestamps meet at `file_mutex`; descriptors are numbers that
  are given out again once they are closed.
* **Hard.** The handler of `assign3` closes sockets and removes the file at any
  point of a session, and `main` goes on. In `doesntwork` the mutex is not
  released when a packet has no newline, `main` serves the descriptor -1 after a
  failed `accept`, sockets are closed twice and the mutex is unlocked twice when
  the data file cannot be opened, and `join_threads` uses freed nodes. Neither
  looks at what writing and `send` return, `assign3` writes only what stands
  before a NUL, and a `remove` that fails is only reported.
* **Correct when** what a session wrote stays in one piece behind what the file
  had and is what it received unless a call fell short, the reply is the whole
  file with the same proviso, nobody closes another thread's socket, a process
  that ends in order leaves no file it could remove, and a signal ends the
  process.

### The rest

The third older server, `aesdsocket_untested.c`, cannot be built. `finder-app` and the build
scripts read and write files once and keep no state. `PROJECT.json` lists every
part.

## Modules

| module | models | kind |
|---|---|---|
| `CircularBufferOps` | the buffer's functions as operators on a record | pure operators |
| `RecentEntries` | "the last `MaxOps` things, oldest first" | abstract specification |
| `AesdCircularBuffer` | one buffer and its adds | state machine, refines `RecentEntries` |
| `DataLemmas` | induction with sets, the library's folds, pieces of sequences, the buffer's operators | lemmas |
| `AesdCircularBufferProofs` | lemmas and theorems | proofs |
| `CommandLog` | "whole writes fill one log of commands" | abstract specification |
| `AesdCharDriver` | the driver with its heap, callers and faults | state machine, refines `CommandLog` |
| `AesdCharDriverProofs` | lemmas and theorems | proofs |
| `AesdSocket` | server process, sessions, peers, device | state machine |
| `AesdSocketProofs` | lemmas and theorems | proofs |
| `AesdSocketThreads` | the list of threads | state machine |
| `AesdSocketThreadsProofs` | lemmas and theorems | proofs |
| `DataFileServer` | a process with descriptors and a data file, its peers | what both earlier servers share |
| `AesdSocketAssign3`, `AesdSocketDoesntwork` | the actions of each | parts of a state machine |
| `EarlierServers` | one after the other on the same data file | their composition, properties |
| `EarlierServersProofs` | lemmas and theorems | proofs |
| `SystemCalls` | calls, children and descriptors | state machine |
| `SystemCallsProofs` | lemmas and theorems | proofs |
| `Threading` | threads around mutexes, their callers | state machine |
| `ThreadingProofs` | lemmas and theorems | proofs |
| `MC...` | instances for TLC | model values, views, symmetry |

`AesdCharDriver` extends `CircularBufferOps`, so the buffer inside the driver
is the same definitions as the buffer on its own. `AesdSocket` uses the device
through what `CommandLog` says of it (a pending command and the last `MaxOps`
commands, a write may drop a command when memory is short), plus the positions
where the ioctl may leave a file (`Sought`, the permitted results of
`aesd_unlocked_ioctl`). `AesdSocketThreads` has the same `main` and the same
client threads as `AesdSocket`, with the sessions reduced to "it ends" and the
list in full. `EarlierServers` extends `DataFileServer` and takes each server as
an `INSTANCE` over the same process, file, descriptors and peers; a step of one
leaves the other's variables alone, and only one of the two runs at a time.

### How the models correspond to the code

* **Granularity.** A call is split where another thread can run and matter.
  In the driver: before the mutex, at each turn of the read loop, between
  growing the accumulator and committing it, and at the unlock, although the
  mutex makes the inner steps atomic: that it does is what `ReadsOneMoment` and
  `LockHeldInside` check. In the list of threads nothing is locked, so each
  turn of a loop, the read and the write of `head` in `add_thread`, unlinking
  and freeing are steps of their own.
* **Local variables** that live across a step are functions on threads
  (`kbuff`, `copied`, `prev`, `current`); others are `LET`s.
* **Memory.** `Ptr` are the addresses `kmalloc` can return, `alloc` those
  handed out, `mem` their contents; freeing erases. An address is taken by
  `CHOOSE`, since addresses are interchangeable: nothing in the code compares
  two pointers or computes with one. Exhausting `Ptr` is a refused allocation.
* **Bytes** are members of a small set with the newline among them; a command
  is a sequence. Sizes and positions are those of the sequences; `loff_t` wraps
  around at `PosLimit`.
* **Failures** are disjuncts or actions of their own, switched by the constant
  `Faults`: refused allocations, bad user pointers, signals, failed `accept`,
  `open`, `write`, `pthread_create`, `fork`, a broken pipe. In the earlier
  servers they are counted by `MaxEvents` instead (`Fault`).
* **Calls whose result nobody reads** may transfer any part, with no other
  effect: `send` (`Reply`, `Sends`), the earlier servers' writes (`Writes`,
  `WriteStamp`), and their `remove` may leave the file (`RemoveFile`). Histories
  remember it: `missing` and `session.short` say of one answer or session that
  something fell short, `kept` that the file stayed. They appear in guards
  nowhere; properties use them to say exactly what such a call costs.
* **The seek prefix** (`AesdSocket`). `Prefix` is a sequence of bytes, compared
  with `buffer` as `recv` left it: the bytes received, then whatever was there
  before, at first the junk of the stack. What `sscanf` finds behind the prefix
  is read over stale bytes and past the end of the buffer, so it may be a seek
  of `SeekTos` or nothing (`HandleSeek`, `HandleMalformed`).
* **A failing session of `aesdsocket.c`** releases `file_mutex` first and calls
  `cleanup` then (`Fail`, `Cleanup`): other sessions use the device in between.
* **Strings** (`assign3`). `IsString` cuts what `recv` got at its first NUL, for
  `fputs` and for `strchr`.
* **A signal in `syslog`** (`assign3`, `HandlerBlocks`). The handler calls
  `syslog` first; where it interrupts one of `main` it waits for a lock `main`
  holds, and the process stays there (`at = "blocked"`).
* **The kernel** is modelled from how the driver uses it: the mutex wakes one
  waiter, a signal ends only a wait for a mutex that is held, and a module with
  open files is not removed (`.owner = THIS_MODULE`).
* **Freed nodes** (`AesdSocketThreads`). Using a freed node has no defined
  outcome; the model lets the process die (`Dies`) or lets the use see the old
  contents while the block was not handed out again. A second `free` ends the
  process, as the C library's allocator makes it.
* **Descriptors** (`EarlierServers`). `fds` says which connection is behind each
  number; `accept` takes the lowest free one, `close` frees it whoever holds it
  in a variable. `recv` and `send` on a number that is free fail. The data file
  is never open across a step in `doesntwork`, so only sockets are in the table.
* **A removed file** (`assign3`). `orphan` is what the open `FILE` still holds
  after the handler removed the name; `Stream` is the file `fp` reads.
* **The list of `doesntwork`** is the sequence of its threads; what a race on it,
  or the use of a freed node, may lead to are choices: a node is lost or comes
  back (`AddThread`, `EndThread`), a join is followed by the next node, by the
  end of the list or by the end of the process (`JoinNext`, `CleanupAll`,
  `JoinKills`). `CleanupAll` and `ExitProcess` are two steps: in between a thread
  nobody waited for may run on, and lock the mutex that was destroyed
  (`Unlocked`). The steps inside the list are in `AesdSocketThreads`.
* **After a failed open** in `doesntwork` (`spoiled`) sockets are closed twice and
  the mutex is unlocked twice. The model goes on from there with whatever
  follows; the properties that such a failure breaks say so.
* **Bounds.** `MaxPos` (no write beyond that position), `MaxAlloc`
  (KMALLOC_MAX_SIZE), `MaxStarts`, `MaxStamps` (timestamps before a
  signal), `MaxEvents` (starts, connections, signals and failed calls of the
  earlier servers, together), the sizes of `Pid` and `Fd`: each is a conjunct of
  a guard. What peers send is the constant `Packet`, a sequence for each
  connection; a peer sends it in any pieces and may stop anywhere.
* **Mutants** are operators marked `Mutant:` in the modules: the form a
  plausible bug would give the definition that follows them. No specification
  uses them; each property is broken by at least one.

## Model checking

Each run is a `.cfg` of the same-named kind beside its `MC` module.

### Runs that pass

| cfg | instance | shows |
|---|---|---|
| `AesdCircularBuffer` | ten slots, two kinds of entries, failing adds | type, shape, `FindMatchesConcatenation` (a search finds the byte of the concatenation, for each offset up to one behind the end), `ReturnsWhatItDrops`, and that the buffer is `RecentEntries` |
| `DriverReadWrite` | 2 threads, 2 slots, 7 blocks, every fault | `LockHeldInside`, `OwnedOnce`, `BlocksHoldTheirSize`, `CommandsAreEnded`, `MemoryLossIsConfined`, `ReadsOneMoment`, `ImplementsCommandLog`, `EveryCallReturns` |
| `DriverSeek` | 2 threads that write lines and seek | `SeeksLandInside`, also after a wrap and for offsets that overflow |
| `AesdSocket` | 2 connections, 2 starts, a buffer of 2 bytes and a prefix of 2, every fault | `MutexSpansSession`, `PacketsDoNotMix`, `RepliesWithTheDevice`, `ConnectionsEnd` |
| `ThreadsList` | 3 connections, 3 nodes, every fault | `ListIsExact`, `FreedAfterItsThread` |
| `SystemCalls` | 2 threads, 3 processes, also the caller's own | `EveryWaitHasAChild`, `AloneAnswersItself`, `FileLeakIsConfined`, `EveryCallReturns` |
| `EarlierServers` | both servers on one file, 2 connections, 2 client threads and the timestamps, 3 events | `FileHoldsTheSession`, `RepliesWithTheFile`, `SocketsStayOpen`, `ExitRemovesTheFile`, `LockIsServed`, `SignalEnds` |
| `Threading` | 2 threads, 2 mutexes, waits of 0.999 s and 1.5 s, every fault | `DataLivesWithItsThread`, `SuccessIsEarned`, `EveryThreadEnds` |

**Why the bounds are enough.** The buffer run has the ten slots of the code and
goes round more than once, so `in_offs` and `out_offs` take every pair of
values they can. In the driver runs two slots are enough to wrap, to read
across an entry and across the seam, and to displace an entry while another is
pending; two threads are enough because the mutex admits one and everybody else
waits in the same place; seven blocks are just enough for the third commit,
the first that displaces an entry, although every commit loses one, and after
it memory is exhausted; `DriverSeek` has nine, for longer histories. Two
connections give one session and one waiter, and the second start meets a device
with leftovers. The server's packets are `a b newline` and `b newline` where
`a b` is the prefix: it can arrive in one piece and be a seek, in two and be
data, and a piece of it can be completed by stale bytes, of the stack or of the
receive before. Three connections on the list let two
removals and an add overlap. Three events of the earlier servers are a start
and two connections, or a start, a connection and a signal or a failed call, or
two starts and a connection, so that a process meets the file of another: the
hazards listed for them need no more. With four the run is twenty times as
large. The second packet is a NUL and a newline: received in one piece
`assign3` sees neither, received in two the newline ends the packet. What holds
for more is proved where this document says so.

**Views and symmetry.** `UpToAddresses` (driver) maps a state to one in which
addresses are replaced by what they hold; it counts the lost blocks, so that
running out of memory stays distinguished. States it identifies differ by a
renaming of addresses, which changes neither what is enabled nor where a thread
is, so it is sound for `EveryCallReturns` as well. `Relevant` (socket) drops
values that nothing reads again before they are written: the first byte of a
buffer that the next `recv` overwrites, what a session that closes received and
answered, what the peer of a closed connection sent. The states it identifies
have the same steps enabled, into states it identifies again, and no property
tells them apart, so it is sound for `ConnectionsEnd` too. So does the
`Relevant` of the system calls: answers, what a call remembers outside of it, the
outcomes of processes that nobody waits for. Symmetry is used only in runs
without liveness, over sets whose members no definition tells apart.

**Fairness.** In the driver: weak fairness for what a thread does inside the
driver (the scheduler runs it) and strong fairness for taking the mutex, whose
waiters the kernel queues in order. Nobody has to make a call. In the server:
weak fairness of `main` and of each client thread, and peers that hang up in
the end; the code has no timeout, so without the last a silent peer would keep
`file_mutex` for ever, and that is listed as a hazard. In `Threading`: time
passes, started threads run, callers release the mutexes they took, and a mutex
that becomes free again and again is not withheld from one waiter for ever;
nobody has to start or join a thread. In `SystemCalls`: the commands end, and a
call that can go on does; nobody has to call. Weak fairness is enough, since a
call that loses a child to another one keeps another child (`EveryWaitHasAChild`)
and processes are used once. In `EarlierServers`: weak fairness of `main`, strong
fairness of the threads of `doesntwork`, whose mutex is released and taken again
while they wait, both only for what they do when no call fails, and peers that
hang up in the end, for the same reason as in the server. The list of threads is
checked for safety only. A run that stops has
`CHECK_DEADLOCK FALSE`: a server process that ended and may not start again, a
process pool that is used up.

### Runs that find a disagreement

Each states what a comment or a record of the repository says, and TLC shows an
execution of the code that does otherwise. They are the `findings` of
`PROJECT.json`.

| cfg | says | happens |
|---|---|---|
| `DriverSeekFindsCommand` | `aesd_ioctl.h:27` "The zero referenced write command to seek into" | after a wrap the entry in *slot* `write_cmd` is tested too: a valid seek is refused |
| `SocketSignal` | `aesdsocket.c:202` "Caught signal, exiting" | a signal before `accept`, or taken by a client thread, leaves `main` in `accept` |
| `ThreadingMilliseconds` | `threading.h:28-30` "holds for ... milliseconds" | a thread asked for 999 ms sleeps 0 s with its mutex and reports success |
| `ThreadsUse` | `valgrind-out.txt:168` "ERROR SUMMARY: 0 errors" | `join_threads` reads and frees a node its thread freed |

Two findings are of a passing run, `SystemCalls`, whose properties state what the
code does where a comment says otherwise:

* `systemcalls.c:12-15` says that `do_system` returns false for a command that
  returned a non-zero value; the code tests only the -1 of `system()`.
  `AloneAnswersItself` says that its answer is true whatever the command did.
* `systemcalls.c:102` says that the redirect's file "will be closed at completion
  of the function call"; when `fork` fails (line 136) it is not.
  `FileLeakIsConfined` says that each such return leaves its file open.

`ListIsExact` is the other side of `ThreadsUse`: the list is exact as long as
no two operations on it overlap, so the missing lock is all that is wrong with
adding and removing.

### Damage that is bounded

Other places where the code leaves something behind, or answers for somebody
else, have no run that shows them; a property of a passing run says how far
they go, or the hazard in `PROJECT.json` says why none does.

* `add_entry` stores a copy and then the structure over it
  (`aesd-circular-buffer.c:114`), so every commit loses a block; `cleanup`
  leaves the block of a pending command (`main.c:349`).
  `MemoryLossIsConfined`: nothing else loses memory, and each loses one block
  at most.
* When `add_entry` cannot copy the structure it stores nothing, and `aesd_write`
  takes its NULL for "nothing overwritten": the command is gone and `write`
  returns its full count (`main.c:175`). `ImplementsCommandLog`: that is the
  only way to lose one, and what the log holds stays whole and in order.
* `handle_client` of `aesdsocket_doesntwork.c` leaves without unlocking when its
  packet had no newline, or its descriptor was -1 after a failed `accept`
  (line 434). Nobody releases it after that (`AbandonedForGood`, proved).
  `LockIsServed`: nothing but such an abandoned mutex, or a failed open of the
  data file, keeps a thread waiting for ever; `SignalEnds`: nothing
  but the two, and a signal just before `accept`, keeps the process from ending.
* A killed or failing `aesdsocket_assign3.c` leaves its file to the next one, and
  so does a `remove` that fails (`aesdsocket_assign3.c:125`,
  `aesdsocket_doesntwork.c:190`). `ExitRemovesTheFile` says that after an orderly
  exit nothing else does (in `doesntwork`, a thread that was not waited for),
  `RepliesWithTheFile` that the next one's replies begin with it.
* In all three servers short or failed sends go unnoticed, and in the earlier two
  short or failed writes as well. `FileHoldsTheSession`, `RepliesWithTheFile` and
  `RepliesWithTheDevice`: they cost the bytes of that very call, never the order
  of the others, and never a byte of another session. In `assign3` a NUL does the
  same to what follows it in one `recv`.
* A seek prefix that TCP splits is written as data, and a piece that stale bytes
  complete is lost. `PacketsDoNotMix`: whatever the test takes for data arrives
  whole, and a receive is either written altogether or not at all.
* The handler of `assign3` can block in `syslog` (`HandlerBlocks`). `SignalEnds`:
  apart from that a signal ends the process.
* A thread that ends before `add_thread` stays in the list, and a completed
  thread is never joined (`aesdsocket.c:145` says it is). A node linked behind a
  freed one whose memory is handed out again can close a cycle, which
  `remove_thread` then searches for ever. `ListIsExact` and
  `FreedAfterItsThread` say what remains true.
* `threadfunc` sleeps whole seconds where `threading.h:28-30` speaks of
  milliseconds (`HeldAsLongAsAsked`, refuted above). `SuccessIsEarned`: what
  remains true is that the whole seconds are slept.
* `wait()` takes whichever child ended (`systemcalls.c:87`).
  `EveryWaitHasAChild`: no call is left without one; `AloneAnswersItself`: a
  call that no other child disturbs reaps its own, and then `do_exec` and
  `do_exec_redirect` answer false exactly for a non-zero exit status (a killed
  command counts as a success), `do_system` never;
  `EveryCallReturns`: `system()` too, when another call took its child.
* When `fork` fails the redirect's file stays open (`systemcalls.c:136`).
  `FileLeakIsConfined`: exactly that file, and no other path leaves one open.

## Proofs

TLAPS checks these for every value of the constants that satisfies the named
assumptions: `MaxOpsAssumption` (at least one slot), `EntriesAssumption` (an
entry has a pointer and at least one byte), `DriverAssumption` (NULL is no
address and no thread, payloads are sequences of bytes, and so on),
`SocketAssumption` (NULL is no connection, the prefix is not empty, has no
newline and fits in the buffer, as the literal of the code does, the bounds are
numbers), `PacketAssumption` (packets are sequences of bytes), `ThreadsAssumption`
(NULL is no node, there are finitely many blocks), `CallsAssumption`,
`ThreadingAssumption`, `DataFileAssumption` (finitely many connections, so that
there are descriptors for all of them; a buffer of one byte at least),
`EarlierAssumption` (packets are sequences of bytes, "no file" is no file and "no
thread" no thread, the thread of the timestamps serves nobody). Where the run's
instance has bounds of its own
(`MaxPos`, `MaxStarts`, ...) the theorem holds for every bound.

| theorem | states |
|---|---|
| `AesdCircularBufferProofs!TypeCorrect`, `!ShapeKept` | `TypeOK`, `ShapeOK` |
| `AesdCircularBufferProofs!Refinement` | `ImplementsRecentEntries` |
| `AesdCircularBufferProofs!FindMatchesWhatIsKept` | `FindMatchesConcatenation` |
| `AesdCircularBufferProofs!ReturnsTheDropped` | `ReturnsWhatItDrops`, with two slots or more |
| `AesdCharDriverProofs!TypeCorrect`, `!MutualExclusion`, `!SoleOwner` | `TypeOK`, `LockHeldInside`, `OwnedOnce` |
| `AesdCharDriverProofs!LossConfined` | `MemoryLossIsConfined` |
| `AesdCharDriverProofs!SizesKept`, `!CommandsEnd` | `BlocksHoldTheirSize`, `CommandsAreEnded` |
| `AesdCharDriverProofs!Refinement` | `ImplementsCommandLog` |
| `AesdCharDriverProofs!OneMoment`, `!LandsInside` | `ReadsOneMoment`, `SeeksLandInside` |
| `AesdSocketProofs!TypeCorrect`, `!MutualExclusion` | `TypeOK`, `MutexSpansSession` |
| `AesdSocketProofs!PacketsKept` | `PacketsDoNotMix` |
| `AesdSocketProofs!DeviceAnswers` | `RepliesWithTheDevice` |
| `AesdSocketThreadsProofs!TypeCorrect`, `!FreedByItsOwn` | `TypeOK`, `FreedAfterItsThread` |
| `AesdSocketThreadsProofs!ListKept` | `ListIsExact` |
| `EarlierServersProofs!TypesCorrect`, `!SessionsAreWhole` | `TypeOK`, `FileHoldsTheSession` |
| `EarlierServersProofs!DescriptorsAreOwned` | `SocketsStayOpen` |
| `EarlierServersProofs!RepliesAreWhole`, `!FileIsRemoved` | `RepliesWithTheFile`, `ExitRemovesTheFile` |
| `EarlierServersProofs!HoldersServeOrLeft`, `!AbandonedIsForGood` | `HolderServes`, `AbandonedForGood`: what an abandoned mutex is |
| `SystemCallsProofs!TypeCorrect`, `!WaitsHaveChildren` | `TypeOK`, `EveryWaitHasAChild` |
| `SystemCallsProofs!AloneIsAnswered`, `!LeakConfined` | `AloneAnswersItself`, `FileLeakIsConfined` |
| `ThreadingProofs!TypeCorrect`, `!DataIsKept`, `!SuccessIsTrue` | `TypeOK`, `DataLivesWithItsThread`, `SuccessIsEarned` |

So every safety property that a passing run checks is a theorem.

### What the arguments rest on

**Induction.** The library's induction theorem takes a predicate as a
parameter; `DataLemmas` has it for sets instead. `LeastNatural`: a set of
naturals that is not empty has a least member, because the intervals `1 .. n`
are ordered by inclusion, which is well-founded on finite sets. `SetInduction`:
a set that has 0 and with each number the next has them all. With it the module
proves what the library's folds compute: `FlattenSeq` (its type, what `Append`
adds to it, which byte stands where: `FlattenPlace`) and the sum over a set in
whatever order `CHOOSE` takes its members (`SumsAnyOrder`). The last section is
about pieces of sequences (`PiecesJoin`). The servers' proofs take the lemmas on
sequences from an `INSTANCE` of the module, with any one value for the number of
slots, which has no part in them.

**The buffer.** The type and the shape its operations keep (`WellFormed`):
`in_offs = out_offs` when full, `out_offs = 0` until then, used slots have a
pointer, unused ones are zero. The two together are the inductive invariant.
`AddEntryOrderNotFull` and `AddEntryOrderFull` say what an add does to the order
of slots; from them an add appends to `Live(buffer)` and drops its head exactly
when the buffer was full. For the search, `Offset(b, k)` is the length of the
first `k` entries' concatenation (`OffsetIsLength`), grows with `k`
(`OffsetsGrow`), and is `Size` for all of them although `Size` adds up unused
slots too (`SizeIsOffset`, from "unused ones are zero"); `FindEntryFinds` is the
search. One slot is excluded from `ReturnsTheDropped` because there an add of the
entry that is already stored returns its pointer and changes nothing.

**The driver.** `IInv` adds four conjuncts to `TypeOK`, `LockHeldInside` and
`OwnedOnce`:

* `WriterHasBuffer`: a thread has a `kbuff` exactly while it is in
  `aesd_write`. Without it a return could free a block a second time.
* `CommitHasCommand`: the accumulator is not NULL when it is committed; it
  holds between the two steps because the other threads wait for the mutex
  (`LockHeldInside`).
* `BufferShape`: the shape above, while the module is loaded. It makes the
  pointer `add_entry` returns the one in the slot it fills, which is why
  freeing it leaves no entry behind that names it.
* `ClosedWhenUnloaded`: no call is under way while the module is absent, so a
  commit finds a loaded, well-formed buffer.

`TypeNext`, `LockNext`, `WriterNext`, `ClosedNext`, `ShapeNext`, `CommitNext` and
`OwnedNext` prove one conjunct each for a step. Most actions change neither the
device nor the heap: `Quiet` gathers them, and `QuietKeeps` says so once.

`LossConfined` needs one more fact, that a device not loaded points nowhere
(`UnloadedIsEmpty`). What blocks hold is a second invariant, `ContentInv`, on
top of the first: sizes are those of the blocks, entries hold a newline, the
accumulator has one only in the middle of a commit, and a `kbuff` holds its
writer's data (`KbuffHoldsData`), which `OwnedOnce` keeps from being changed by
another thread. `Refinement` follows: the commands are the blocks that the slots
lead to, so a commit appends to them as an add does to the buffer
(`CommandsAreBlocks`), and every other step leaves `CommandLog`'s variables
alone or appends to the pending command.

For reads and seeks `CallInv` says where calls are: what was copied so far is
the piece of the contents from `f_pos` on and as long as `copied` (`CopiedFits`),
which stays true only because nobody else commits in the meantime
(`LockHeldInside` again), and a call's arguments are what its system call
accepts (`ArgumentsFit`).

**The server.** `IInv` adds to `MutexSpansSession` that a connection not accepted
yet has no thread (`NoThreadYet`) and that `main` creates a thread only for an
accepted connection without one (`CreatesOnce`): otherwise `Create` could throw
a session out of its critical section. `PacketsDoNotMix` speaks of some labels
only; `Follows` also says what is in the buffer at the others, and that the
device's pending command is what the session found and what it took; both
sides test the same buffer, stale bytes included, so nothing is assumed of how a
prefix arrives. `NoneWhole`: a pending command has no newline. `Answers`: unless
a send of this answer was short, what was sent since the last seek is the device
up to `f_pos`. `Follows` and `Answers` speak of the session that holds
`file_mutex`, and every other thread leaves the device alone. The theorems hold
under every fault: the history `missing` says which answers a fault touched,
`"bytes"` for a short send and `"command"` for a driver that dropped the command
for want of memory (`ImplementsCommandLog` says that nothing else drops one).

**The list of threads.** Whatever overlaps: pointers lead to nodes that
`add_thread` once filled in (`PointersGiven`), a thread unlinks and frees a node
that names it (`OwnNode`), and as long as `main` adds nodes a freed one names a
thread that is over (`FreedIsOver`), so that no new node takes the place of one
that is about to be freed. `JoinKnows` is the same for `main`. These hold with
every race of the code and give `FreedAfterItsThread`.

Without a race there is a sequence of nodes `s[1]` to `s[n]` that is the list
(`IsTheList`): linked from `head` to NULL, with one node for each thread that
must be in it and every block but the one that is being added or freed, and a
search has not passed its own node (`Reached`). `LInv` says that there is such a
sequence and that operations take turns (`InTurn`); adding puts a node in front
of it (`LinkKeepsList`), unlinking leaves one out (`UnlinkKeepsList`), and
everything else keeps it (`SameList`). `NoJoin`: `main` never gets past a join
without a race, since a thread leaves the list before it is over. `AtFollows`
ties the sequence to the recursive `At` of the property, by `SetInduction`, and
`ListFits` bounds its length by the number of blocks.

**System calls.** `EveryWaitHasAChild` is not inductive, because `system()` waits
for its own child and may find it taken. `EnoughChildren` counts the calls that
still want one (`Claimants`): a fork adds a claimant and a child, a wait that
reaps a child ends a claim as well. `AloneIsAlone` says what the
history `alone` means. `FilesAreOwned`: while `do_exec_redirect` runs its
descriptor is open and no other call has it, so a close takes no other's file
and a return without one leaks exactly its own.

**Threads around a mutex.** The invariant adds that a thread owns a mutex only
while it holds the one it was given (`OwnerHolds`), and that the seconds slept
and the seconds left add up to what was asked for (`HeldSoFar`);
`ThreadingAssumption` says that times are not negative and that the history
`held` is not capped below them.

**The earlier servers.** `EarlierServers` runs two programs on the same process,
file, descriptors and peers; each program is an `INSTANCE` with operators of its
own for the same things (`SameClose`, `SameChunk` and the like say that they are
the same). `OneProcess` is what lets them be taken one at a time: a program that
does not run has nothing left of its last process, so a step of one leaves the
other's invariant as it is at the start (`ThreadsRest`, `MainRests`).

* `Numbers`: no connection has two numbers, or waits and has one. There are as
  many numbers as connections, so while one waits a number is free
  (`FreeNumber`, by counting), which `accept` needs to give it one nobody has.
* `MainKeeps`, `MainReplies` (`assign3`): while a session is on, the file `fp` has
  open is what the session found and wrote; once the handler removed it,
  `clientfd` is closed and nothing more is received, and until then the reply is
  the file up to `pos`, unless a send fell short. After the handler ran there is
  no file until `main` opens one, or its `remove` failed, which is why a failing
  `accept` or `fopen` leaves none behind otherwise.
* `WritesAll`: what a session wrote is what it received unless a call fell short.
* `MutexHeld`, `SessionHeld` (`doesntwork`): who receives or sends holds
  `file_mutex`; the file is what that session found and wrote, and what was
  read back of it was sent, unless a send fell short. Timestamps are appended
  only while the mutex is free.
* `Quiet` (`doesntwork`): between `cleanup_all` and `exit` every thread is over,
  unless one was not waited for, so nothing makes the file again.
* `SocketsOwned`: a number that `main` or a thread has not closed yet leads to a
  connection and nobody else has it; so `close` of one takes no other's.

`MutexHeld`, `SessionHeld` and `SocketsOwned` hold only until an open of the data
file fails or `main` destroys the mutex under a running thread (`spoiled`): after the first the
code closes a socket twice and unlocks twice, after the second the mutex keeps
nobody out, and they are false.

`Abandoned` is the state in which a thread left with `file_mutex`.
`HolderServes` says that this and a session are the only places the mutex can
be, `AbandonedForGood` that nobody leaves `pthread_mutex_lock` after it until the
process ends: the safety part of `LockIsServed`. The two are proved; no run of
the list checks them.

### Only model-checked

Liveness, which needs fairness and `ENABLED`: `EveryCallReturns`,
`ConnectionsEnd`, `EveryThreadEnds`, `LockIsServed`, `SignalEnds`. The properties of
the runs that find a disagreement are false and refuted by TLC.

## Not modelled

Registration failures of `aesd_init_module` (no device appears, no state is
left); the kernel's own lock around file positions (each thread has a file of
its own); the format of log messages and of the address that is logged; the
timestamp thread and the data file, which `aesdsocket.c:26` compiles out of
every build (those of `aesdsocket_doesntwork.c` are in `EarlierServers`); `PORT`,
`BACKLOG` and the socket options; the polling of the start script; two threads on
one open file of the device, which no program of the repository has.

The `syslog` of a signal handler that interrupts `syslog` in the same thread and
waits for itself (`aesdsocket.c:202`, `aesdsocket_doesntwork.c:165`); it is in the
model of `assign3` only, whose other handler effects depend on it. What a peer
sends or does after the server closed its connection.

Of the earlier servers: `handle_client_IO` of `aesdsocket_doesntwork.c`, which
nobody calls; a `malloc` of thread arguments that fails; signals before the
loop of `main`; descriptors of the data file in the table of descriptors; the
steps inside their list of threads. `aesdsocket_untested.c` is no program: it
uses `append_timestamp` (line 103) before it declares it and calls
`remove_thread` (line 223), which it does not define.

## Plan

*Done:* the buffer, the driver, the sessions, the list of threads, the system
calls, the threads around a mutex and the two earlier servers, with their runs;
every safety property of a passing run proved.

*Left:* the hazards without a property (`PROJECT.json` gives the reason of each).
In the device: what a reader misses when a command is evicted between two of its
reads, for which no document says what a position means, and an accumulator at
its limit, after which no write succeeds. In the server: a silent peer that keeps
`file_mutex`, which `ConnectionsEnd` assumes away, a list that a race made
cyclic, and the threads `main` never joins. In the threads around a mutex: one
whose unlock failed keeps the others waiting. In `doesntwork`: what a socket
closed twice does to another session. Each can be read off the model as a state
that nothing leaves; a property for it would restate the line it is about.
