--------------------------- MODULE EarlierServers ---------------------------
(***************************************************************************)
(* The two earlier servers, one process at a time: each finds the data     *)
(* file as the last one, of either program, left it.                       *)
(***************************************************************************)
EXTENDS DataFileServer, Functions

CONSTANTS NUL, Workers, Stamper, Stamp, MaxStamps

Threads == Workers \cup {Stamper}
Byte == UNION {Range(Packet[c]) : c \in Conns}
Bytes == Byte \cup {Stamp}

ASSUME EarlierAssumption ==
  /\ \A c \in Conns : Packet[c] \in Seq(Byte)
  /\ NULL \notin Seq(Bytes)
  /\ NULL \notin Threads
  /\ Stamper \notin Workers
  /\ MaxStamps \in Nat \ {0}

VARIABLES
  at, returned, clientfd, orphan, pos,
  main, accepted, current, list, mutex, pc, socket, offset, stamps, spoiled

Assign3 == INSTANCE AesdSocketAssign3
Doesntwork == INSTANCE AesdSocketDoesntwork

assign3Vars == <<at, returned, clientfd, orphan, pos>>
doesntworkVars == <<main, accepted, current, list, mutex, pc, socket, offset,
                    stamps, spoiled>>
vars == <<serverVars, assign3Vars, doesntworkVars>>

Init ==
  /\ ServerInit
  /\ Assign3!MainInit
  /\ Doesntwork!ThreadsInit

Next ==
  \/ Assign3!Next /\ UNCHANGED doesntworkVars
  \/ Doesntwork!Next /\ UNCHANGED assign3Vars
  \/ \E c \in Conns :
       Peer(c) /\ UNCHANGED <<assign3Vars, doesntworkVars>>

Spec == Init /\ [][Next]_vars

(* The scheduler runs every thread that can run, a mutex that is released  *)
(* again and again comes to who waits for it, and peers hang up in the end.*)
FairSpec ==
  /\ Spec
  /\ WF_vars(Assign3!MainRuns /\ UNCHANGED doesntworkVars)
  /\ WF_vars(Doesntwork!MainRuns /\ UNCHANGED assign3Vars)
  /\ SF_vars(Doesntwork!StamperRuns /\ UNCHANGED assign3Vars)
  /\ \A w \in Workers :
       SF_vars(Doesntwork!WorkerRuns(w) /\ UNCHANGED assign3Vars)
  /\ \A c \in Conns :
       WF_vars(HangUp(c) /\ UNCHANGED <<assign3Vars, doesntworkVars>>)

-----------------------------------------------------------------------------
(* The variables have the types the code gives them.                       *)
TypeOK ==
  /\ process \in Programs \cup {"none", "success", "failure", "killed"}
  /\ events \in 0 .. MaxEvents
  /\ run \in BOOLEAN
  /\ listening \in {"open", "last", "closed"}
  /\ fds \in [Fd -> Conns \cup {NULL}]
  /\ file = NULL \/ file \in Seq(Bytes)
  /\ peer \in [Conns -> {"new", "connected", "gone"}]
  /\ backlog \in SUBSET Conns
  /\ inbox \in [Conns -> Seq(Byte)]
  /\ sent \in [Conns -> Nat]
  /\ \A c \in Conns : sent[c] <= Len(Packet[c])
  /\ session \in [left : Seq(Bytes), taken : Seq(Byte), written : Seq(Byte),
                  replied : Seq(Bytes), short : SUBSET {"write", "send"}]
  /\ kept \in BOOLEAN
  /\ at \in {"accept", "accepted", "open", "recv", "reply", "cleanup",
             "blocked"}
  /\ returned \in Fd \cup {NoFd}
  /\ clientfd \in Fd \cup {NoFd}
  /\ orphan = NULL \/ orphan \in Seq(Bytes)
  /\ pos \in Nat
  /\ main \in {"accept", "create", "add", "join_threads", "join",
               "destroyed", "exit"}
  /\ accepted \in Fd \cup {NoFd}
  /\ current \in Threads \cup {NULL}
  /\ list \in Seq(Threads)
  /\ mutex \in Workers \cup {NULL}
  /\ pc \in [Threads -> {"lock", "recv", "send", "close", "over",
                         "sleep", "unlock", "end"}]
  /\ socket \in [Workers -> Fd \cup {NoFd}]
  /\ offset \in [Workers -> Nat]
  /\ stamps \in 0 .. MaxStamps
  /\ spoiled \in BOOLEAN

Whole == session.left \o session.written

(* While a session is on, the file is what the session found and what it   *)
(* wrote, in one piece: no timestamp and no other session's bytes get in   *)
(* between (file_mutex); in assign3 that is the file fp has open, which    *)
(* the handler may have removed.  What it wrote is all that recv gave it   *)
(* unless a write fell short, in assign3 at a NUL too.                     *)
FileHoldsTheSession ==
  /\ process = "assign3" /\ at \in {"recv", "reply"} => Assign3!Stream = Whole
  /\ process = "doesntwork" /\ ~spoiled
       => \A w \in Workers :
            pc[w] \in {"recv", "send"} => Content = Whole
  /\ "write" \notin session.short => session.written = session.taken

(* Before it closes the connection a session has sent back the whole file, *)
(* those bytes included that earlier processes left, unless a send fell    *)
(* short; in assign3 unless the handler closed the connection, in          *)
(* doesntwork for a packet that ended.                                     *)
RepliesWithTheFile ==
  [][/\ at = "reply" /\ at' = "accept" /\ process' = "assign3"
          => "send" \in session.short \/ session.replied = Whole
     /\ \A w \in Workers :
          pc[w] = "send" /\ pc'[w] = "close" /\ ~spoiled' =>
            /\ "send" \in session.short \/ session.replied = Whole
            /\ Holds(session.taken, NL)]_vars

(* No thread closes the socket of another: close takes a number that is    *)
(* still the thread's own (unless a failed open closed it before).         *)
SocketsStayOpen ==
  ~spoiled =>
    \A w \in Workers :
      pc[w] \in {"lock", "recv", "send"} /\ socket[w] # NoFd =>
        /\ Conn(socket[w]) # NULL
        /\ \A v \in Workers \ {w} :
             pc[v] \in {"lock", "recv", "send", "close"}
               => socket[v] # socket[w]

(* A process that ends with success leaves no file, and neither does       *)
(* assign3 when it exits after it caught a signal, by whatever exit: only  *)
(* a remove that failed, or a thread of doesntwork that was lost from the  *)
(* list and ran on after it, is excused.                                   *)
ExitRemovesTheFile ==
  [][/\ Up /\ process' = "success" => file' = NULL \/ kept'
     /\ process = "assign3" /\ ~run /\ process' = "failure"
          => file' = NULL \/ kept']_vars

(* The holder of file_mutex left without releasing it, as it does when its *)
(* packet had no newline or its descriptor was -1.                         *)
Abandoned ==
  /\ mutex # NULL
  /\ pc[mutex] \in {"close", "over"}
  /\ ~Holds(session.taken, NL)

(* Whoever holds file_mutex serves its session, or has left with it.       *)
HolderServes ==
  mutex # NULL /\ ~spoiled => pc[mutex] \in {"recv", "send"} \/ Abandoned

(* An abandoned mutex stays where it is, and who waits for it waits, until *)
(* the process ends.                                                       *)
AbandonedForGood ==
  [][Abandoned /\ process' = "doesntwork" /\ ~spoiled'
       => /\ Abandoned' /\ mutex' = mutex
          /\ \A t \in Threads : pc[t] = "lock" => pc'[t] = "lock"]_vars

(* Only an abandoned mutex keeps a thread waiting for ever.                *)
LockIsServed ==
  \A t \in Threads :
    pc[t] = "lock" ~> pc[t] # "lock" \/ Abandoned \/ spoiled

(* Once it caught a signal assign3 ends, unless a further one interrupts   *)
(* syslog, and doesntwork does unless main had tested run but was not in   *)
(* accept yet, or a thread waits for an abandoned mutex.                   *)
SignalEnds ==
  /\ process = "assign3" /\ ~run ~> process # "assign3" \/ at = "blocked"
  /\ process = "doesntwork" /\ ~run ~>
       \/ process # "doesntwork"
       \/ main = "accept"
       \/ Abandoned /\ \E t \in Threads : pc[t] = "lock"
       \/ spoiled
=============================================================================
