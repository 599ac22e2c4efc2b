------------------------ MODULE AesdSocketDoesntwork ------------------------
(***************************************************************************)
(* server/aesdsocket_doesntwork.c: a thread per connection and one that    *)
(* appends timestamps, the mutex between them, a list of threads that they *)
(* change without a lock, and a shutdown that joins the list.              *)
(***************************************************************************)
EXTENDS DataFileServer, SequencesExt

CONSTANTS
  Workers,   \* threads that client_thread can run in
  Stamper,   \* the thread of timestamp_thread
  Stamp,     \* a timestamp
  MaxStamps  \* bound on the timestamps before a signal

VARIABLES
  main,     \* where main is
  accepted, \* main's client_socket
  current,  \* the thread main creates, or waits for, or NULL
  list,     \* the threads behind head, newest first
  mutex,    \* the thread that holds file_mutex, or NULL
  pc,       \* where each thread is
  socket,   \* client_socket of each thread
  offset,   \* how much of the file each thread read back
  stamps,   \* how many timestamps were written
  spoiled   \* history: an open of the data file failed, after which
            \* sockets are closed and mutexes released twice, or the
            \* mutex was destroyed while threads ran

Threads == Workers \cup {Stamper}

mainVars   == <<main, accepted, current>>
pool       == <<socket, offset>>
threadVars == <<mutex, pc, pool>>
rest       == <<list, stamps, spoiled>>
dwVars     == <<mainVars, threadVars, rest>>

UpAt(label) == process = "doesntwork" /\ main = label
At(t, label) == process = "doesntwork" /\ pc[t] = label
Goto(t, label) == pc' = [pc EXCEPT ![t] = label]

ThreadsInit ==
  /\ main = "accept"
  /\ accepted = NoFd
  /\ current = NULL
  /\ list = <<>>
  /\ mutex = NULL
  /\ pc = [t \in Threads |-> "over"]
  /\ socket = [w \in Workers |-> NoFd]
  /\ offset = [w \in Workers |-> 0]
  /\ stamps = 0
  /\ spoiled = FALSE

(* The end of the process is the end of every thread.                      *)
ThreadsEnd(status) ==
  /\ Exit(status)
  /\ main' = "accept"
  /\ accepted' = NoFd
  /\ current' = NULL
  /\ list' = <<>>
  /\ mutex' = NULL
  /\ pc' = [t \in Threads |-> "over"]
  /\ socket' = [w \in Workers |-> NoFd]
  /\ offset' = [w \in Workers |-> 0]
  /\ stamps' = 0
  /\ spoiled' = FALSE

-----------------------------------------------------------------------------
(* main up to its loop: timestamp_thread joins the list even when it could *)
(* not be created.                                                         *)
StartDoesntwork ==
  /\ Starts("doesntwork")
  /\ list' = <<Stamper>>
  /\ Goto(Stamper, "lock") \/ UNCHANGED pc
  /\ UNCHANGED <<mainVars, pool, mutex, stamps, spoiled>>

(* fork, setsid, chdir, sigaction, socket, bind or listen failed.          *)
StartDoesntworkFails == StartFails({file}) /\ UNCHANGED dwVars

(* while (run).                                                            *)
NextRound == main' = IF run THEN "accept" ELSE "join_threads"

Accept(c) ==
  /\ UpAt("accept")
  /\ \E fd \in Fd : Accepts(c, fd) /\ accepted' = fd
  /\ main' = "create"
  /\ UNCHANGED <<threadVars, rest, life, data, peers, events, inbox, current>>

(* main goes on with the descriptor -1.                                    *)
AcceptFails ==
  /\ UpAt("accept")
  /\ \/ listening = "closed" /\ UNCHANGED events
     \/ Fault
  /\ AcceptReturns(backlog)
  /\ main' = "create"
  /\ UNCHANGED <<threadVars, rest, life, data, peers, fds, inbox, accepted,
                 current>>

(* A thread of the pool nothing refers to any more.                        *)
Unused(w) ==
  pc[w] = "over" /\ mutex # w /\ \A i \in DOMAIN list : list[i] # w

Create(w) ==
  /\ UpAt("create")
  /\ Unused(w)
  /\ w = CHOOSE v \in Workers : Unused(v)
  /\ Goto(w, "lock")
  /\ socket' = [socket EXCEPT ![w] = accepted]
  /\ offset' = [offset EXCEPT ![w] = 0]
  /\ current' = w
  /\ accepted' = NoFd
  /\ main' = "add"
  /\ UNCHANGED <<serverVars, rest, mutex>>

(* pthread_create fails, at the latest when there are too many threads.    *)
CreateFails ==
  /\ UpAt("create")
  /\ \/ (\A w \in Workers : ~Unused(w)) /\ UNCHANGED events
     \/ Fault
  /\ Close(accepted)
  /\ accepted' = NoFd
  /\ NextRound
  /\ UNCHANGED <<threadVars, rest, life, data, peers, port, current>>

(* The thread is about to call remove_thread, or is in it.                 *)
Removing(t) == pc[t] \in {"close", "end"}

(* add_thread; when it runs into a remove_thread the new node may be lost. *)
AddThread ==
  /\ UpAt("add")
  /\ \/ list' = <<current>> \o list
     \/ (\E t \in Threads : Removing(t)) /\ UNCHANGED list
  /\ current' = NULL
  /\ NextRound
  /\ UNCHANGED <<serverVars, threadVars, accepted, stamps, spoiled>>

AddThreadFails ==
  /\ UpAt("add")
  /\ Fault
  /\ ThreadsEnd("failure")
  /\ UNCHANGED <<file, kept>>

-----------------------------------------------------------------------------
(* join_threads takes the head of the list,                                *)
ReadHead ==
  /\ UpAt("join_threads")
  /\ list # <<>>
  /\ current' = Head(list)
  /\ main' = "join"
  /\ UNCHANGED <<serverVars, threadVars, rest, accepted>>

Joined == UpAt("join") /\ pc[current] = "over"

(* and waits for it.  The thread freed its node before it ended, so what   *)
(* main reads there and frees again is anything: the next of the list,     *)
JoinNext ==
  /\ Joined
  /\ list' = RemoveFirst(list, current)
  /\ list' # <<>>
  /\ current' = Head(list')
  /\ UNCHANGED <<serverVars, threadVars, main, accepted, stamps, spoiled>>

(* its end, whatever else is on it: cleanup_all closes the listening       *)
(* socket, destroys the mutex, which fails while it is held, and removes   *)
(* the file under the threads that it did not wait for.                    *)
CleanupAll ==
  LET ThreadsLeft == \E t \in Threads : pc[t] # "over"
  IN  /\ \/ Joined
         \/ UpAt("join_threads") /\ list = <<>>
      /\ listening' = "closed"
      /\ backlog' = {}
      /\ main' = IF mutex = NULL THEN "destroyed" ELSE "exit"
      /\ spoiled' = (spoiled \/ ThreadsLeft)
      /\ file' \in {NULL, file}
      /\ kept' = (file' # NULL \/ ThreadsLeft)
      /\ UNCHANGED <<peers, process, run, session, events, fds, inbox,
                     accepted, current, threadVars, list, stamps>>

(* The exit that follows.                                                  *)
ExitProcess ==
  /\ UpAt("exit") \/ UpAt("destroyed")
  /\ ThreadsEnd("success")
  /\ UNCHANGED <<events, file, kept>>

(* or the end of the process.                                              *)
JoinKills ==
  /\ Joined
  /\ ThreadsEnd("killed")
  /\ UNCHANGED <<events, file, kept>>

(* The kernel gives the signal to main: an accept that waits fails with    *)
(* EINTR; everywhere else, before the call too, only the flag changes.     *)
Signal ==
  /\ process = "doesntwork"
  /\ Event
  /\ run' = FALSE
  /\ \/ main = "accept" /\ main' = "create" /\ AcceptReturns(backlog)
     \/ UNCHANGED <<port, main>>
  /\ UNCHANGED <<threadVars, rest, data, peers, process, kept, fds, inbox,
                 accepted, current>>

-----------------------------------------------------------------------------
(* pthread_mutex_lock returns; on a destroyed mutex it does at once.       *)
Unlocked == mutex = NULL \/ main = "destroyed"

(* handle_client.                                                          *)
Lock(w) ==
  /\ At(w, "lock")
  /\ Unlocked
  /\ mutex' = w
  /\ session' = [NoSession EXCEPT !.left = Content]
  /\ Goto(w, "recv")
  /\ UNCHANGED <<mainVars, rest, network, life, pool, events, file>>

(* recv, then open, write and close; a newline ends the loop.  A failed    *)
(* open closes the socket, and the write to nowhere fails.                 *)
Recv(w) ==
  LET c == Conn(socket[w])
      got == Chunk(inbox[c], 0)
  IN  /\ At(w, "recv")
      /\ c # NULL
      /\ inbox[c] # <<>>
      /\ \/ /\ Writes(got, got)
            /\ inbox' = [inbox EXCEPT ![c] = SubSeq(@, Len(got) + 1, Len(@))]
            /\ UNCHANGED <<fds, spoiled>>
         \/ /\ Fault
            /\ Close(socket[w])
            /\ spoiled' = TRUE
            /\ session' = [session EXCEPT !.taken = @ \o got,
                                          !.short = @ \cup {"write"}]
            /\ UNCHANGED file
      /\ Goto(w, IF Holds(got, NL) THEN "send" ELSE "recv")
      /\ UNCHANGED <<mainVars, life, peers, port, pool, list, mutex, stamps>>

(* The end of the stream, or an error, on the descriptor -1 too: out of    *)
(* the loop, and past the unlock that is only inside it.                   *)
RecvEnds(w) ==
  LET c == Conn(socket[w])
  IN  /\ At(w, "recv")
      /\ \/ c = NULL /\ UNCHANGED events
         \/ c # NULL /\ inbox[c] = <<>> /\ peer[c] = "gone" /\ UNCHANGED events
         \/ Fault
      /\ Goto(w, "close")
      /\ session' = NoSession
      /\ UNCHANGED <<mainVars, rest, network, life, pool, file, mutex>>

(* open fails, for want of the file too: the socket is closed a first      *)
(* time, nothing is read, and the mutex is free.                           *)
OpenToReadFails(w) ==
  /\ At(w, "send")
  /\ offset[w] = 0
  /\ \/ file = NULL /\ UNCHANGED events
     \/ Fault
  /\ Close(socket[w])
  /\ spoiled' = TRUE
  /\ mutex' = NULL
  /\ Goto(w, "close")
  /\ UNCHANGED <<mainVars, life, data, peers, port, pool, list, stamps>>

SendChunk(w) ==
  LET got == Chunk(Content, offset[w])
  IN  /\ At(w, "send")
      /\ got # <<>>
      /\ offset' = [offset EXCEPT ![w] = @ + Len(got)]
      /\ Sends(got, socket[w])
      /\ UNCHANGED <<mainVars, rest, network, life, file, mutex, pc, socket>>

BrokenPipe(w) ==
  LET c == Conn(socket[w])
  IN  /\ At(w, "send")
      /\ Chunk(Content, offset[w]) # <<>>
      /\ c # NULL
      /\ peer[c] = "gone"
      /\ ThreadsEnd("killed")
      /\ UNCHANGED <<events, file, kept>>

(* Mutant: the mutex is not released after the reply either.               *)
SendEndsLocked(w) ==
  /\ At(w, "send")
  /\ Chunk(Content, offset[w]) = <<>>
  /\ Goto(w, "close")
  /\ UNCHANGED <<serverVars, mainVars, rest, pool, mutex>>

(* Mutant: the socket is closed with the reply, and then once more.        *)
SendEndsClosed(w) ==
  /\ At(w, "send")
  /\ Chunk(Content, offset[w]) = <<>>
  /\ mutex' = NULL
  /\ Close(socket[w])
  /\ Goto(w, "close")
  /\ UNCHANGED <<mainVars, rest, life, data, peers, port, pool, events>>

(* The end of the file: unlock.                                            *)
SendEnds(w) ==
  /\ At(w, "send")
  /\ file # NULL
  /\ Chunk(Content, offset[w]) = <<>>
  /\ mutex' = NULL
  /\ session' = NoSession
  /\ Goto(w, "close")
  /\ UNCHANGED <<mainVars, rest, network, life, pool, events, file>>

(* remove_thread without a lock, and the end of the thread; when it runs   *)
(* into add_thread or another remove_thread the node may come back, freed  *)
(* as it is.                                                               *)
EndThread(t) ==
  /\ \/ list' = RemoveFirst(list, t)
     \/ main = "add" /\ UNCHANGED list
     \/ (\E u \in Threads \ {t} : Removing(u)) /\ UNCHANGED list
  /\ Goto(t, "over")

(* The end of handle_client and client_thread.                             *)
CloseClient(w) ==
  /\ At(w, "close")
  /\ Close(socket[w])
  /\ socket' = [socket EXCEPT ![w] = NoFd]
  /\ offset' = [offset EXCEPT ![w] = 0]
  /\ EndThread(w)
  /\ UNCHANGED <<mainVars, life, data, peers, port, events, mutex, stamps,
                 spoiled>>

-----------------------------------------------------------------------------
(* timestamp_thread.                                                       *)
(* The write of a timestamp: Stamp stands for one, or for the part of it   *)
(* that a short write left; a failed one leaves nothing.                   *)
WriteStamp ==
  \/ file' = Append(Content, Stamp) /\ UNCHANGED events
  \/ file' = Content /\ Fault

(* Mutant: the timestamp is appended without the mutex.                    *)
AppendUnlocked ==
  /\ At(Stamper, "lock")
  /\ WriteStamp
  /\ stamps' = stamps + 1
  /\ Goto(Stamper, "sleep")
  /\ UNCHANGED <<mainVars, network, life, pool, session, list, mutex, spoiled>>

(* Mutant: the mutex is kept while the thread sleeps.                      *)
AppendLocked ==
  /\ At(Stamper, "lock")
  /\ Unlocked
  /\ mutex' = Stamper
  /\ WriteStamp
  /\ stamps' = stamps + 1
  /\ Goto(Stamper, "sleep")
  /\ UNCHANGED <<mainVars, network, life, pool, session, list, spoiled>>

(* lock, open, write, close and unlock: nobody reads the file meanwhile.   *)
AppendTimestamp ==
  /\ At(Stamper, "lock")
  /\ Unlocked
  /\ WriteStamp
  /\ stamps' = stamps + 1
  /\ Goto(Stamper, "sleep")
  /\ UNCHANGED <<mainVars, network, life, pool, session, list, mutex, spoiled>>

(* A failed open unlocks, closes the listening socket,                     *)
StampOpenFails ==
  /\ At(Stamper, "lock")
  /\ Unlocked
  /\ Fault
  /\ spoiled' = TRUE
  /\ \/ listening' = "closed" /\ backlog' = {}
     \/ main = "accept" /\ listening' = "last" /\ UNCHANGED backlog
  /\ Goto(Stamper, "unlock")
  /\ UNCHANGED <<mainVars, life, data, peers, pool, fds, inbox, list, mutex,
                 stamps>>

(* and unlocks again, whoever holds the mutex by then.                     *)
UnlockAgain ==
  /\ At(Stamper, "unlock")
  /\ mutex' = NULL
  /\ Goto(Stamper, "sleep")
  /\ UNCHANGED <<serverVars, mainVars, rest, pool>>

(* The sleep ends: MaxStamps times, and after a signal.                    *)
WakeStamper ==
  /\ At(Stamper, "sleep")
  /\ stamps < MaxStamps \/ ~run
  /\ Goto(Stamper, IF run THEN "lock" ELSE "end")
  /\ UNCHANGED <<serverVars, mainVars, rest, pool, mutex>>

EndStamper ==
  /\ At(Stamper, "end")
  /\ EndThread(Stamper)
  /\ UNCHANGED <<serverVars, mainVars, pool, mutex, stamps, spoiled>>

-----------------------------------------------------------------------------
MainStep ==
  \/ AcceptFails \/ CreateFails \/ AddThread
  \/ ReadHead \/ JoinNext \/ CleanupAll \/ ExitProcess
  \/ \E c \in Conns : Accept(c)
  \/ \E w \in Workers : Create(w)

WorkerStep(w) ==
  \/ Lock(w) \/ Recv(w) \/ RecvEnds(w) \/ OpenToReadFails(w)
  \/ SendChunk(w) \/ SendEnds(w) \/ CloseClient(w)

StamperStep ==
  \/ AppendTimestamp \/ UnlockAgain \/ WakeStamper \/ EndStamper

Next ==
  \/ StartDoesntwork \/ StartDoesntworkFails
  \/ MainStep \/ AddThreadFails \/ JoinKills \/ Signal
  \/ StamperStep \/ StampOpenFails
  \/ \E w \in Workers : WorkerStep(w) \/ BrokenPipe(w)

(* What threads do when no call fails.                                     *)
MainRuns == MainStep /\ UNCHANGED events
WorkerRuns(w) == WorkerStep(w) /\ UNCHANGED events
StamperRuns == StamperStep /\ UNCHANGED events
=============================================================================
