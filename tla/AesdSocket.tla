----------------------------- MODULE AesdSocket -----------------------------
(***************************************************************************)
(* The server of server/aesdsocket.c, as it is built (with the character   *)
(* device): the accept loop, one thread per connection, the file_mutex     *)
(* that a session holds from open to close, the peers, signals, and        *)
(* process ends and restarts that the device outlives.                     *)
(*                                                                         *)
(* Only the thread that holds file_mutex uses the device, so the device is *)
(* its log of commands and the pending one, as in CommandLog, which        *)
(* AesdCharDriver implements.  The list of threads is in AesdSocketThreads. *)
(***************************************************************************)
EXTENDS Integers, Sequences, SequencesExt

CONSTANTS
  Conns,       \* connections, each with the thread that serves it
  NULL,        \* no connection, nobody
  Byte,        \* bytes of packets
  NL,          \* the newline byte
  Prefix,      \* the bytes of IOCTL_PREFIX
  SeekTos,     \* what sscanf may read behind them
  BufferSize,  \* BUFFER_SIZE
  MaxOps,      \* commands the device keeps
  Packet,      \* the bytes the peer of each connection has to send
  MaxStarts,   \* bound on the starts of the server
  Faults       \* which of "start", "accept", "create", "open", "write",
               \* "drop", "send", "signal", "pipe" may happen

ASSUME SocketAssumption ==
  /\ NULL \notin Conns
  /\ NL \in Byte
  /\ Prefix \in Seq(Byte \ {NL})
  /\ Len(Prefix) \in 1 .. BufferSize
  /\ \A s \in SeekTos : s.write_cmd \in Nat /\ s.write_cmd_offset \in Nat
  /\ BufferSize \in Nat
  /\ MaxOps \in Nat \ {0}
  /\ MaxStarts \in Nat

ASSUME PacketAssumption == Packet \in [Conns -> Seq(Byte)]

VARIABLES
  starts,      \* how often the server was started
  up,          \* whether the process exists
  run,         \* the flag signal_handler clears
  main,        \* where main is
  accepted,    \* main's client_socket
  file_mutex,  \* the thread that holds it, or NULL
  pc,          \* where each client thread is
  buffer,      \* handle_client's buffer, stale bytes included
  received,    \* bytes_received
  f_pos,       \* file position of data_fd
  conn,        \* "none", "backlog", "open" or "closed"
  inbox,       \* sent by the peer, not yet received
  sent,        \* how many bytes the peer sent
  hungup,      \* whether the peer closed its end
  reply,       \* what the server sent to the peer
  log,         \* the commands in the device
  pending,     \* the bytes in the device that are no command yet
  left,        \* history: pending when file_mutex was last taken
  taken,       \* history: what the session received and did not take
               \* for a seek
  missing      \* history: what the session's answer lacks, "bytes" of a
               \* short send or the "command" the device had no memory for

process == <<starts, up, run, main, accepted>>
threads == <<file_mutex, pc, buffer, received, f_pos>>
network == <<conn, inbox, sent, hungup, reply>>
device  == <<log, pending>>
history == <<left, taken, missing>>
vars    == <<process, threads, network, device, history>>

Holds(s, byte) == \E i \in DOMAIN s : s[i] = byte

Text == FlattenSeq(log)

-----------------------------------------------------------------------------
(* The process ends: its threads are gone, its sockets are closed.         *)
End ==
  /\ up' = FALSE
  /\ run' = TRUE
  /\ main' = "test"
  /\ accepted' = NULL
  /\ file_mutex' = NULL
  /\ pc' = [c \in Conns |-> IF pc[c] = "none" THEN "none" ELSE "over"]
  /\ conn' = [c \in Conns |-> IF conn[c] = "none" THEN "none" ELSE "closed"]
  /\ UNCHANGED <<starts, buffer, received, f_pos,
                 inbox, sent, hungup, reply, device, history>>

(* From the start of main to its loop; with -d the parent exits and the    *)
(* child of create_daemon goes on with the same socket.                    *)
Start ==
  /\ ~up
  /\ starts < MaxStarts
  /\ starts' = starts + 1
  /\ up' = TRUE
  /\ UNCHANGED <<run, main, accepted, threads, network, device, history>>

(* sigaction, socket, setsockopt, bind, listen, fork or setsid failed: the *)
(* process exits before it accepts anything.                               *)
StartFails ==
  /\ "start" \in Faults
  /\ ~up
  /\ starts < MaxStarts
  /\ starts' = starts + 1
  /\ UNCHANGED <<up, run, main, accepted, threads, network, device, history>>

-----------------------------------------------------------------------------
(* main.                                                                   *)
MainAt(label) == up /\ main = label

TestRun ==
  /\ MainAt("test")
  /\ main' = IF run THEN "accept" ELSE "join"
  /\ UNCHANGED <<starts, up, run, accepted, threads, network, device, history>>

Accept(c) ==
  /\ MainAt("accept")
  /\ conn[c] = "backlog"
  /\ conn' = [conn EXCEPT ![c] = "open"]
  /\ accepted' = c
  /\ main' = "create"
  /\ UNCHANGED <<starts, up, run, threads, inbox, sent, hungup, reply,
                 device, history>>

(* accept fails for another reason than a signal: cleanup ends the server. *)
AcceptFails ==
  /\ "accept" \in Faults
  /\ MainAt("accept")
  /\ End

(* handle_client's buffer starts as whatever the stack holds.              *)
Create ==
  /\ MainAt("create")
  /\ main' = "test"
  /\ accepted' = NULL
  /\ pc' = [pc EXCEPT ![accepted] = "lock"]
  /\ \E junk \in [1 .. BufferSize -> Byte] :
       buffer' = [buffer EXCEPT ![accepted] = junk]
  /\ UNCHANGED <<starts, up, run, file_mutex, received, f_pos,
                 network, device, history>>

CreateFails ==
  /\ "create" \in Faults
  /\ MainAt("create")
  /\ main' = "test"
  /\ accepted' = NULL
  /\ conn' = [conn EXCEPT ![accepted] = "closed"]
  /\ UNCHANGED <<starts, up, run, threads, inbox, sent, hungup, reply,
                 device, history>>

(* join_threads returns when the threads are done; then cleanup.           *)
Join ==
  /\ MainAt("join")
  /\ \A c \in Conns : pc[c] \in {"none", "over"}
  /\ End

(* SIGINT or SIGTERM, handled by main: an accept that waits gives up and   *)
(* cleanup ends the server without join_threads; before the call of accept *)
(* and elsewhere only the flag changes.                                    *)
SignalMain ==
  /\ "signal" \in Faults
  /\ up
  /\ \/ MainAt("accept") /\ End
     \/ /\ run' = FALSE
        /\ UNCHANGED <<starts, up, main, accepted,
                       threads, network, device, history>>

-----------------------------------------------------------------------------
(* handle_client.                                                          *)
Lock(c) ==
  /\ up
  /\ pc[c] = "lock"
  /\ file_mutex = NULL
  /\ file_mutex' = c
  /\ pc' = [pc EXCEPT ![c] = "open"]
  /\ left' = pending
  /\ UNCHANGED <<process, buffer, received, f_pos, network, device,
                 taken, missing>>

OpenDevice(c) ==
  /\ pc[c] = "open"
  /\ pc' = [pc EXCEPT ![c] = "recv"]
  /\ f_pos' = [f_pos EXCEPT ![c] = 0]
  /\ UNCHANGED <<process, file_mutex, buffer, received,
                 network, device, history>>

(* A session that fails releases file_mutex and ends the whole server;     *)
(* until it does, other sessions go on.                                    *)
Fail(c) ==
  /\ pc' = [pc EXCEPT ![c] = "cleanup"]
  /\ file_mutex' = NULL
  /\ UNCHANGED <<process, buffer, received, f_pos, network, device, history>>

OpenFails(c) ==
  /\ "open" \in Faults
  /\ pc[c] = "open"
  /\ Fail(c)

Cleanup(c) ==
  /\ pc[c] = "cleanup"
  /\ End

(* The buffer is compared with IOCTL_PREFIX whatever recv put there: a     *)
(* prefix that came in pieces is none, and a piece that stale bytes        *)
(* complete is one.                                                        *)
IsSeek(c) == IsPrefix(Prefix, buffer[c])

(* recv returns any part of what came; the rest of buffer stays stale.     *)
Recv(c) ==
  /\ pc[c] = "recv"
  /\ \E n \in 1 .. BufferSize :
       /\ n <= Len(inbox[c])
       /\ received' = [received EXCEPT ![c] = n]
       /\ buffer' = [buffer EXCEPT ![c] =
                       [i \in 1 .. BufferSize |->
                          IF i <= n THEN inbox[c][i] ELSE @[i]]]
       /\ inbox' = [inbox EXCEPT ![c] = SubSeq(@, n + 1, Len(@))]
       /\ taken' = [taken EXCEPT ![c] =
                      IF IsSeek(c)' THEN @ ELSE @ \o SubSeq(inbox[c], 1, n)]
  /\ pc' = [pc EXCEPT ![c] = "handle"]
  /\ UNCHANGED <<process, file_mutex, f_pos, conn, sent, hungup, reply,
                 device, left, missing>>

(* recv returns 0 at the end of the stream.                                *)
RecvEnds(c) ==
  /\ pc[c] = "recv"
  /\ inbox[c] = <<>>
  /\ hungup[c]
  /\ pc' = [pc EXCEPT ![c] = "close"]
  /\ UNCHANGED <<process, file_mutex, buffer, received, f_pos,
                 network, device, history>>

(* A signal handled by a client thread: a recv that waits fails with EINTR *)
(* and the session is over.  A send that waits it cuts short (Reply, with  *)
(* the fault "send"); elsewhere only the flag changes.                     *)
SignalClient(c) ==
  /\ "signal" \in Faults
  /\ pc[c] \notin {"none", "over"}
  /\ run' = FALSE
  /\ pc' = IF pc[c] = "recv" /\ inbox[c] = <<>> /\ ~hungup[c]
           THEN [pc EXCEPT ![c] = "close"]
           ELSE pc
  /\ UNCHANGED <<starts, up, main, accepted, file_mutex, buffer, received,
                 f_pos, network, device, history>>

(* Mutant: the newest command goes instead of the oldest.                  *)
KeepOldest(s) == IF Len(s) > MaxOps THEN Front(s) ELSE s

(* Mutant: nothing is overwritten in the device.                           *)
KeepAll(s) == s

(* aesd_write of the device: a newline makes what is pending a command.    *)
Keep(s) == IF Len(s) > MaxOps THEN Tail(s) ELSE s

DeviceWrite(data, stored) ==
  LET bytes == pending \o data
  IN  IF Holds(bytes, NL)
      THEN /\ pending' = <<>>
           /\ log' = IF stored THEN Keep(Append(log, bytes)) ELSE log
      ELSE pending' = bytes /\ UNCHANGED log

(* Mutant: the whole buffer is written, stale bytes included.              *)
DataWithStale(c) == SubSeq(buffer[c], 1, BufferSize)

Data(c) == SubSeq(buffer[c], 1, received[c])

HandleData(c) ==
  LET ends == Holds(Data(c), NL)
  IN  /\ pc[c] = "handle"
      /\ ~IsSeek(c)
      /\ \E stored \in BOOLEAN :
           /\ ~stored => ends /\ "drop" \in Faults
           /\ DeviceWrite(Data(c), stored)
           /\ missing' = [missing EXCEPT ![c] =
                             IF stored THEN {} ELSE {"command"}]
      /\ f_pos' = [f_pos EXCEPT ![c] = IF ends THEN 0 ELSE @ + received[c]]
      /\ pc' = [pc EXCEPT ![c] = IF ends THEN "reply" ELSE "recv"]
      /\ UNCHANGED <<process, file_mutex, buffer, received, network,
                     left, taken>>

WriteFails(c) ==
  /\ "write" \in Faults
  /\ pc[c] = "handle"
  /\ ~IsSeek(c)
  /\ Fail(c)

(* Where AESDCHAR_IOCSEEKTO can leave the file position; once the device   *)
(* has wrapped around it also refuses seeks to commands it holds.          *)
Sought(s, from) ==
  LET there == Len(FlattenSeq(SubSeq(log, 1, s.write_cmd)))
                 + s.write_cmd_offset
      valid == /\ s.write_cmd < Len(log)
               /\ s.write_cmd_offset <= Len(log[s.write_cmd + 1])
  IN  {p \in {from, there} :
         \/ p = there /\ valid
         \/ p = from /\ (~valid \/ Len(log) = MaxOps)}

(* sscanf reads on behind the prefix, over stale bytes and past the end of *)
(* an unterminated buffer: whether it finds two numbers, and which, is     *)
(* open.  lseek(data_fd, 0, SEEK_CUR) clamps what the ioctl left.          *)
HandleSeek(c) ==
  /\ pc[c] = "handle"
  /\ IsSeek(c)
  /\ \E s \in SeekTos : \E p \in Sought(s, f_pos[c]) :
       f_pos' = [f_pos EXCEPT ![c] = IF p > Len(Text) THEN Len(Text) ELSE p]
  /\ pc' = [pc EXCEPT ![c] = "seek_reply"]
  /\ UNCHANGED <<process, file_mutex, buffer, received,
                 network, device, history>>

HandleMalformed(c) ==
  /\ pc[c] = "handle"
  /\ IsSeek(c)
  /\ pc' = [pc EXCEPT ![c] = "recv"]
  /\ UNCHANGED <<process, file_mutex, buffer, received, f_pos,
                 network, device, history>>

Replying(c) == pc[c] \in {"reply", "seek_reply"}

(* What read(data_fd, read_buf, sizeof(read_buf)) returns.                 *)
ReadBuf(c) ==
  LET last == IF f_pos[c] + BufferSize > Len(Text)
              THEN Len(Text) ELSE f_pos[c] + BufferSize
  IN  SubSeq(Text, f_pos[c] + 1, last)

(* One turn of the loop.  send may fail, or return short when a signal     *)
(* interrupts it; its result is not looked at, and what it did not take is *)
(* missing from the answer.                                                *)
Reply(c) ==
  /\ Replying(c)
  /\ ReadBuf(c) # <<>>
  /\ f_pos' = [f_pos EXCEPT ![c] = @ + Len(ReadBuf(c))]
  /\ \E n \in 0 .. Len(ReadBuf(c)) :
       /\ n < Len(ReadBuf(c)) => "send" \in Faults
       /\ reply' = [reply EXCEPT ![c] = @ \o SubSeq(ReadBuf(c), 1, n)]
       /\ missing' = [missing EXCEPT ![c] =
                         IF n < Len(ReadBuf(c)) THEN @ \cup {"bytes"} ELSE @]
  /\ UNCHANGED <<process, file_mutex, pc, buffer, received,
                 conn, inbox, sent, hungup, device, left, taken>>

(* send to a peer that is gone raises SIGPIPE, which nobody handles.       *)
BrokenPipe(c) ==
  /\ "pipe" \in Faults
  /\ Replying(c)
  /\ ReadBuf(c) # <<>>
  /\ hungup[c]
  /\ End

(* After the whole device the session ends, after a seek it goes on.       *)
ReplyEnds(c) ==
  /\ Replying(c)
  /\ ReadBuf(c) = <<>>
  /\ pc' = [pc EXCEPT ![c] = IF @ = "reply" THEN "close" ELSE "recv"]
  /\ UNCHANGED <<process, file_mutex, buffer, received, f_pos,
                 network, device, history>>

(* Mutant: the session returns with file_mutex, as a client that closes    *)
(* without a newline makes it do in aesdsocket_doesntwork.c.               *)
UnlockMissing(c) ==
  /\ pc[c] = "close"
  /\ pc' = [pc EXCEPT ![c] = "closing"]
  /\ UNCHANGED <<process, file_mutex, buffer, received, f_pos,
                 network, device, history>>

Unlock(c) ==
  /\ pc[c] = "close"
  /\ file_mutex' = NULL
  /\ pc' = [pc EXCEPT ![c] = "closing"]
  /\ UNCHANGED <<process, buffer, received, f_pos, network, device, history>>

CloseClient(c) ==
  /\ pc[c] = "closing"
  /\ pc' = [pc EXCEPT ![c] = "over"]
  /\ conn' = [conn EXCEPT ![c] = "closed"]
  /\ UNCHANGED <<process, file_mutex, buffer, received, f_pos,
                 inbox, sent, hungup, reply, device, history>>

-----------------------------------------------------------------------------
(* The peers: each sends its Packet, or a part, in any pieces.             *)
Connect(c) ==
  /\ up
  /\ conn[c] = "none"
  /\ conn' = [conn EXCEPT ![c] = "backlog"]
  /\ UNCHANGED <<process, threads, inbox, sent, hungup, reply,
                 device, history>>

Connected(c) == conn[c] \in {"backlog", "open"} /\ ~hungup[c]

Send(c) ==
  /\ Connected(c)
  /\ sent[c] < Len(Packet[c])
  /\ inbox' = [inbox EXCEPT ![c] = Append(@, Packet[c][sent[c] + 1])]
  /\ sent' = [sent EXCEPT ![c] = @ + 1]
  /\ UNCHANGED <<process, threads, conn, hungup, reply, device, history>>

HangUp(c) ==
  /\ Connected(c)
  /\ hungup' = [hungup EXCEPT ![c] = TRUE]
  /\ UNCHANGED <<process, threads, conn, inbox, sent, reply, device, history>>

-----------------------------------------------------------------------------
Init ==
  /\ starts = 0
  /\ up = FALSE
  /\ run = TRUE
  /\ main = "test"
  /\ accepted = NULL
  /\ file_mutex = NULL
  /\ pc       = [c \in Conns |-> "none"]
  /\ buffer   = [c \in Conns |-> [i \in 1 .. BufferSize |-> NL]]
  /\ received = [c \in Conns |-> 0]
  /\ f_pos    = [c \in Conns |-> 0]
  /\ conn     = [c \in Conns |-> "none"]
  /\ inbox    = [c \in Conns |-> <<>>]
  /\ sent     = [c \in Conns |-> 0]
  /\ hungup   = [c \in Conns |-> FALSE]
  /\ reply    = [c \in Conns |-> <<>>]
  /\ log = <<>>
  /\ pending = <<>>
  /\ left = <<>>
  /\ taken    = [c \in Conns |-> <<>>]
  /\ missing  = [c \in Conns |-> {}]

MainStep == TestRun \/ Create \/ Join \/ \E c \in Conns : Accept(c)

MainFails == AcceptFails \/ CreateFails \/ SignalMain

ClientStep(c) ==
  \/ Lock(c) \/ OpenDevice(c)
  \/ Recv(c) \/ RecvEnds(c)
  \/ HandleData(c) \/ HandleSeek(c) \/ HandleMalformed(c)
  \/ Reply(c) \/ ReplyEnds(c)
  \/ Unlock(c) \/ CloseClient(c) \/ Cleanup(c)

ClientFails(c) ==
  OpenFails(c) \/ WriteFails(c) \/ BrokenPipe(c) \/ SignalClient(c)

Peer(c) == Connect(c) \/ Send(c) \/ HangUp(c)

Next ==
  \/ Start \/ StartFails \/ MainStep \/ MainFails
  \/ \E c \in Conns : ClientStep(c) \/ ClientFails(c) \/ Peer(c)

Spec == Init /\ [][Next]_vars

(* The scheduler runs every thread that can run, and no peer keeps its     *)
(* connection open for ever.                                               *)
FairSpec ==
  /\ Spec
  /\ WF_vars(MainStep)
  /\ \A c \in Conns : WF_vars(ClientStep(c)) /\ WF_vars(HangUp(c))

-----------------------------------------------------------------------------
InSession == {"open", "recv", "handle", "reply", "seek_reply", "close"}

(* The variables of the server have the types the code gives them.         *)
TypeOK ==
  /\ starts \in 0 .. MaxStarts
  /\ up \in BOOLEAN
  /\ run \in BOOLEAN
  /\ main \in {"test", "accept", "create", "join"}
  /\ accepted \in Conns \cup {NULL}
  /\ file_mutex \in Conns \cup {NULL}
  /\ pc \in [Conns -> InSession
                       \cup {"none", "lock", "closing", "cleanup", "over"}]
  /\ buffer \in [Conns -> [1 .. BufferSize -> Byte]]
  /\ received \in [Conns -> 0 .. BufferSize]
  /\ f_pos \in [Conns -> Nat]
  /\ conn \in [Conns -> {"none", "backlog", "open", "closed"}]
  /\ inbox \in [Conns -> Seq(Byte)]
  /\ sent \in [Conns -> Nat]
  /\ hungup \in [Conns -> BOOLEAN]
  /\ reply \in [Conns -> Seq(Byte)]
  /\ log \in Seq(Seq(Byte))
  /\ Len(log) <= MaxOps
  /\ pending \in Seq(Byte)
  /\ left \in Seq(Byte)
  /\ taken \in [Conns -> Seq(Byte)]
  /\ missing \in [Conns -> SUBSET {"bytes", "command"}]

(* A thread holds file_mutex from open to close, whichever way its session *)
(* ends, and the end of the process leaves nobody with it.                 *)
MutexSpansSession == \A c \in Conns : pc[c] \in InSession <=> file_mutex = c

(* Every receive that the test for a seek lets through (it looks at stale  *)
(* bytes too) is written whole and in order: in the device they follow     *)
(* what was pending when the session took file_mutex, nothing is lost      *)
(* between two recv, and no other byte of the buffer, of another client or *)
(* of a receive taken for a seek gets in between.                          *)
PacketsDoNotMix ==
  \A c \in Conns :
    pc[c] \in {"open", "recv", "seek_reply"} => pending = left \o taken[c]

(* A client whose packet ended is answered with every command of the       *)
(* device as it is then, its own the last, before its connection closes:   *)
(* without its own only if the driver had no memory for it, and in one     *)
(* piece unless a send of this very answer failed or was short.            *)
RepliesWithTheDevice ==
  [][\A c \in Conns :
       pc[c] = "reply" /\ pc'[c] = "close" =>
         /\ "bytes" \notin missing[c] => IsSuffix(Text, reply[c])
         /\ "command" \notin missing[c] =>
              log # <<>> /\ Last(log) = left \o taken[c]]_vars

(* Every connection the kernel took is closed in the end: no session keeps *)
(* file_mutex from the ones behind it, whatever fails.                     *)
ConnectionsEnd ==
  \A c \in Conns : conn[c] \in {"backlog", "open"} ~> conn[c] = "closed"

(* aesdsocket.c:202, "Caught signal, exiting": a server that caught SIGINT *)
(* or SIGTERM ends.                                                        *)
SignalEndsServer == (up /\ ~run) ~> ~up
=============================================================================
