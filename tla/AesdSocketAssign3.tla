------------------------- MODULE AesdSocketAssign3 -------------------------
(***************************************************************************)
(* server/aesdsocket_assign3.c: one thread that serves one connection      *)
(* after the other, and a signal handler that does the whole cleanup at    *)
(* any point of it, after which main goes on with what is left.            *)
(***************************************************************************)
EXTENDS DataFileServer

CONSTANT NUL  \* the byte that ends a string

VARIABLES
  at,         \* where main is
  returned,   \* what accept returned and clientfd does not hold yet
  clientfd,   \* the global of that name
  orphan,     \* content of the file fp still has open after it was removed
  pos         \* how much of the file was read back

mainVars == <<at, returned, clientfd, orphan, pos>>

UpAt(label) == process = "assign3" /\ at = label

(* The file behind fp.                                                     *)
Stream == IF orphan = NULL THEN Content ELSE orphan

MainInit ==
  /\ at = "accept"
  /\ returned = NoFd
  /\ clientfd = NoFd
  /\ orphan = NULL
  /\ pos = 0

MainEnds(status) ==
  /\ Exit(status)
  /\ at' = "accept"
  /\ returned' = NoFd
  /\ clientfd' = NoFd
  /\ orphan' = NULL
  /\ pos' = 0

StartAssign3 == Starts("assign3") /\ UNCHANGED mainVars

(* fork, socket, setsockopt and listen fail into cleanup, which removes    *)
(* the file an earlier process left; bind fails without it.                *)
StartAssign3Fails == StartFails({NULL, file}) /\ UNCHANGED mainVars

Accept(c) ==
  /\ UpAt("accept")
  /\ \E fd \in Fd : Accepts(c, fd) /\ returned' = fd
  /\ at' = "accepted"
  /\ UNCHANGED <<life, data, peers, events, inbox, clientfd, orphan, pos>>

(* The handler closed serverfd, or another error: exit without cleanup.    *)
AcceptFails ==
  /\ UpAt("accept")
  /\ \/ listening = "closed" /\ UNCHANGED events
     \/ Fault
  /\ MainEnds("failure")
  /\ UNCHANGED <<file, kept>>

StoreClientfd ==
  /\ UpAt("accepted")
  /\ clientfd' = returned
  /\ returned' = NoFd
  /\ at' = "open"
  /\ UNCHANGED <<serverVars, orphan, pos>>

(* fopen with "a+" creates the file where there is none.                   *)
Open ==
  /\ UpAt("open")
  /\ file' = Content
  /\ session' = [NoSession EXCEPT !.left = Content]
  /\ at' = "recv"
  /\ UNCHANGED <<network, life, events, returned, clientfd, orphan, pos>>

OpenFails ==
  /\ UpAt("open")
  /\ Fault
  /\ MainEnds("failure")
  /\ UNCHANGED <<file, kept>>

(* The first n bytes of what was received are the string in buffer: they   *)
(* end at the first NUL.                                                   *)
IsString(got, n) ==
  /\ \A i \in 1 .. n : got[i] # NUL
  /\ n < Len(got) => got[n + 1] = NUL

(* recv, fputs and fflush, and strchr on the same string.  Once the handler *)
(* ran clientfd is closed, or fp is a new file: what is received is never   *)
(* written to a removed one.                                                *)
Recv ==
  LET c == Conn(clientfd)
      got == Chunk(inbox[c], 0)
  IN  /\ UpAt("recv")
      /\ c # NULL
      /\ inbox[c] # <<>>
      /\ inbox' = [inbox EXCEPT ![c] = SubSeq(@, Len(got) + 1, Len(@))]
      /\ \E n \in 0 .. Len(got) :
           /\ IsString(got, n)
           /\ Writes(got, SubSeq(got, 1, n))
           /\ at' = IF Holds(SubSeq(got, 1, n), NL) THEN "reply" ELSE "recv"
      /\ UNCHANGED <<life, peers, port, fds, returned, clientfd, orphan, pos>>

(* The end of the stream, an error, or the handler closed clientfd.        *)
RecvEnds ==
  LET c == Conn(clientfd)
  IN  /\ UpAt("recv")
      /\ \/ c = NULL /\ UNCHANGED events
         \/ c # NULL /\ inbox[c] = <<>> /\ peer[c] = "gone" /\ UNCHANGED events
         \/ Fault
      /\ at' = "reply"
      /\ UNCHANGED <<network, life, data, returned, clientfd, orphan, pos>>

(* One fread and one send.                                                 *)
Reply ==
  LET got == Chunk(Stream, pos)
  IN  /\ UpAt("reply")
      /\ got # <<>>
      /\ pos' = pos + Len(got)
      /\ Sends(got, clientfd)
      /\ UNCHANGED <<network, life, file, at, returned, clientfd, orphan>>

(* SIGPIPE, which nobody handles.                                          *)
BrokenPipe ==
  LET c == Conn(clientfd)
  IN  /\ UpAt("reply")
      /\ Chunk(Stream, pos) # <<>>
      /\ c # NULL
      /\ peer[c] = "gone"
      /\ MainEnds("killed")
      /\ UNCHANGED <<events, file, kept>>

(* Mutant: only one buffer of the file is sent back.                       *)
ReplyOnce ==
  /\ UpAt("reply")
  /\ pos > 0 \/ Stream = <<>>
  /\ Close(clientfd)
  /\ at' = IF run THEN "accept" ELSE "cleanup"
  /\ clientfd' = NoFd
  /\ orphan' = NULL
  /\ pos' = 0
  /\ session' = NoSession
  /\ UNCHANGED <<life, peers, port, events, file, returned>>

(* The end of the file: fclose, close(clientfd), clientfd = -1, and the    *)
(* test of run.                                                            *)
ReplyEnds ==
  /\ UpAt("reply")
  /\ Chunk(Stream, pos) = <<>>
  /\ Close(clientfd)
  /\ at' = IF run THEN "accept" ELSE "cleanup"
  /\ clientfd' = NoFd
  /\ orphan' = NULL
  /\ pos' = 0
  /\ session' = NoSession
  /\ UNCHANGED <<life, peers, port, events, file, returned>>

Cleanup ==
  /\ UpAt("cleanup")
  /\ MainEnds("success")
  /\ RemoveFile
  /\ UNCHANGED events

(* Mutant: the handler leaves serverfd open, and main waits in accept.     *)
SignalFlagOnly ==
  /\ process = "assign3"
  /\ at # "blocked"
  /\ Event
  /\ run' = FALSE
  /\ UNCHANGED <<mainVars, network, data, process, kept>>

(* Mutant: the handler closes the descriptors and leaves the file.         *)
SignalKeepsTheFile ==
  /\ process = "assign3"
  /\ at # "blocked"
  /\ Event
  /\ run' = FALSE
  /\ listening' = "closed"
  /\ backlog' = {}
  /\ Close(clientfd)
  /\ UNCHANGED <<peers, process, session, file, kept, at, returned, clientfd,
                 orphan, pos>>

(* signal_handler runs between any two steps of main and calls cleanup;    *)
(* accept and recv, restarted after it, find their descriptor closed.      *)
Signal ==
  /\ process = "assign3"
  /\ at # "blocked"
  /\ Event
  /\ run' = FALSE
  /\ listening' = "closed"
  /\ backlog' = {}
  /\ Close(clientfd)
  /\ RemoveFile
  /\ orphan' = IF at \in {"recv", "reply"} /\ file' = NULL
               THEN Stream ELSE NULL
  /\ UNCHANGED <<peers, process, session, at, returned, clientfd, pos>>

(* It interrupts main in syslog, and its own syslog, the first thing it    *)
(* does, waits for the lock main holds.                                    *)
HandlerBlocks ==
  /\ process = "assign3"
  /\ \/ at \in {"open", "cleanup"}
     \/ at = "reply" /\ Chunk(Stream, pos) = <<>>
     \/ at = "accept" /\ listening = "closed"
  /\ Event
  /\ at' = "blocked"
  /\ UNCHANGED <<network, life, data, returned, clientfd, orphan, pos>>

MainStep ==
  \/ StoreClientfd \/ Open \/ Recv \/ RecvEnds
  \/ Reply \/ ReplyEnds \/ AcceptFails \/ Cleanup
  \/ \E c \in Conns : Accept(c)

Next ==
  StartAssign3 \/ StartAssign3Fails \/ MainStep
  \/ OpenFails \/ BrokenPipe \/ Signal \/ HandlerBlocks

(* What main does when no call fails.                                      *)
MainRuns == MainStep /\ UNCHANGED events
=============================================================================
