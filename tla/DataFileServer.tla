--------------------------- MODULE DataFileServer ---------------------------
(***************************************************************************)
(* What server/aesdsocket_assign3.c and server/aesdsocket_doesntwork.c     *)
(* have in common: a process that listens on one port and ends, the file   *)
(* /var/tmp/aesdsocket that outlives it, file descriptors, and the peers.  *)
(***************************************************************************)
EXTENDS Integers, Sequences, FiniteSetsExt

CONSTANTS
  Conns,       \* connections, each used once
  NULL,        \* no connection, no file, nobody
  Packet,      \* what the peer of each connection has to send
  NL,          \* the newline byte
  BufferSize,  \* how much one recv, one read and one send take
  MaxEvents    \* bound on starts, connections, signals and failed calls, together

ASSUME DataFileAssumption ==
  /\ IsFiniteSet(Conns)
  /\ NULL \notin Conns
  /\ BufferSize \in Nat \ {0}
  /\ MaxEvents \in Nat

VARIABLES
  process,    \* the program that runs, or how the last one ended
  events,     \* how many starts, connections, signals and failed calls there were
  run,        \* the flag the signal handler clears
  listening,  \* the listening socket: "open", "closed", or "last" when it
              \* was closed under an accept that still waits on it
  fds,        \* the connection behind each file descriptor
  file,       \* the data file, or NULL where there is none
  peer,       \* "new", "connected" or "gone"
  backlog,    \* connections the kernel took and nobody accepted
  inbox,      \* sent by the peer, not yet received
  sent,       \* how much the peer sent
  session,    \* history: the file as the session found it, what it has
              \* taken from recv, written and replied, and which of its
              \* calls fell short
  kept        \* history: the process's remove of the file left it there, or
              \* left threads that may make it again

serverVars == <<process, events, run, listening, fds, file,
                peer, backlog, inbox, sent, session, kept>>
life    == <<process, run, kept>>
data    == <<file, session>>
peers   == <<peer, sent>>
port    == <<listening, backlog>>
network == <<port, fds, inbox, peers>>

Programs == {"assign3", "doesntwork"}
Up == process \in Programs

Fd == 1 .. Cardinality(Conns)
NoFd == 0  \* what a failed call returns

NoSession == [left |-> <<>>, taken |-> <<>>, written |-> <<>>,
              replied |-> <<>>, short |-> {}]

Holds(s, byte) == \E i \in DOMAIN s : s[i] = byte

(* What the next call for at most BufferSize bytes after the first pos     *)
(* ones gets.                                                              *)
Chunk(s, pos) ==
  SubSeq(s, pos + 1, IF pos + BufferSize > Len(s) THEN Len(s)
                     ELSE pos + BufferSize)

Content == IF file = NULL THEN <<>> ELSE file

Event ==
  /\ events < MaxEvents
  /\ events' = events + 1

(* A call that fails.                                                      *)
Fault == Event

Conn(fd) == IF fd = NoFd THEN NULL ELSE fds[fd]

(* close: the number is free again and what was not received is lost.      *)
Close(fd) ==
  /\ fds' = [n \in Fd |-> IF n = fd THEN NULL ELSE fds[n]]
  /\ inbox' = [c \in Conns |-> IF c = Conn(fd) THEN <<>> ELSE inbox[c]]

(* The bytes of what recv got go to the end of the file, all of them or,   *)
(* since nobody looks at the result, those before the call fell short.     *)
Writes(got, bytes) ==
  \E n \in 0 .. Len(bytes) :
    /\ IF n = Len(bytes) THEN UNCHANGED events ELSE Fault
    /\ file' = Content \o SubSeq(bytes, 1, n)
    /\ session' = [session EXCEPT
         !.taken = @ \o got,
         !.written = @ \o SubSeq(bytes, 1, n),
         !.short = IF n < Len(got) THEN @ \cup {"write"} ELSE @]

(* send gives got to the connection behind fd, or a part of it, with the   *)
(* same result; there is nobody behind a closed descriptor.                *)
Sends(got, fd) ==
  \/ Conn(fd) = NULL /\ UNCHANGED <<session, events>>
  \/ /\ Conn(fd) # NULL
     /\ \E n \in 0 .. Len(got) :
          /\ IF n = Len(got) THEN UNCHANGED events ELSE Fault
          /\ session' = [session EXCEPT
               !.replied = @ \o SubSeq(got, 1, n),
               !.short = IF n < Len(got) THEN @ \cup {"send"} ELSE @]

(* remove, whose failure is only reported.                                 *)
RemoveFile ==
  /\ file' \in {NULL, file}
  /\ kept' = (kept \/ file' # NULL)

(* A call of accept is over.                                               *)
AcceptReturns(waiting) ==
  IF listening = "last"
  THEN listening' = "closed" /\ backlog' = {}
  ELSE UNCHANGED listening /\ backlog' = waiting

(* accept gives the lowest free number to a connection that waits.         *)
Accepts(c, fd) ==
  /\ c \in backlog
  /\ fd = Min({n \in Fd : fds[n] = NULL})
  /\ fds' = [fds EXCEPT ![fd] = c]
  /\ AcceptReturns(backlog \ {c})

(* The process is over: the kernel closes what it had open.  What it did   *)
(* to the file is said where it ends.                                      *)
Exit(status) ==
  /\ process' = status
  /\ listening' = "closed"
  /\ fds' = [n \in Fd |-> NULL]
  /\ backlog' = {}
  /\ inbox' = [c \in Conns |-> <<>>]
  /\ session' = NoSession
  /\ UNCHANGED <<peers, run>>

(* From the start of main to its loop.                                     *)
Starts(program) ==
  /\ ~Up
  /\ Event
  /\ process' = program
  /\ run' = TRUE
  /\ kept' = FALSE
  /\ listening' = "open"
  /\ UNCHANGED <<data, peers, fds, backlog, inbox>>

StartFails(left) ==
  /\ ~Up
  /\ Fault
  /\ process' = "failure"
  /\ run' = TRUE
  /\ kept' = FALSE
  /\ file' \in left
  /\ UNCHANGED <<network, session>>

-----------------------------------------------------------------------------
(* The peers: each sends its Packet, or a part, in any pieces.  What they *)
(* do after their connection was closed is left out.                        *)
Served(c) == c \in backlog \/ \E n \in Fd : fds[n] = c

Connect(c) ==
  /\ listening # "closed"
  /\ peer[c] = "new"
  /\ c = CHOOSE d \in Conns : peer[d] = "new"
  /\ Event
  /\ peer' = [peer EXCEPT ![c] = "connected"]
  /\ backlog' = backlog \cup {c}
  /\ UNCHANGED <<life, data, listening, fds, inbox, sent>>

Send(c) ==
  /\ peer[c] = "connected"
  /\ Served(c)
  /\ sent[c] < Len(Packet[c])
  /\ inbox' = [inbox EXCEPT ![c] = Append(@, Packet[c][sent[c] + 1])]
  /\ sent' = [sent EXCEPT ![c] = @ + 1]
  /\ UNCHANGED <<life, data, port, events, fds, peer>>

HangUp(c) ==
  /\ peer[c] = "connected"
  /\ Served(c)
  /\ peer' = [peer EXCEPT ![c] = "gone"]
  /\ UNCHANGED <<life, data, port, events, fds, inbox, sent>>

Peer(c) == Connect(c) \/ Send(c) \/ HangUp(c)

ServerInit ==
  /\ process = "none"
  /\ events = 0
  /\ run = TRUE
  /\ listening = "closed"
  /\ fds = [n \in Fd |-> NULL]
  /\ file = NULL
  /\ peer = [c \in Conns |-> "new"]
  /\ backlog = {}
  /\ inbox = [c \in Conns |-> <<>>]
  /\ sent = [c \in Conns |-> 0]
  /\ session = NoSession
  /\ kept = FALSE
=============================================================================
