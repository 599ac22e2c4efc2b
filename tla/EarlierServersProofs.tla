------------------------ MODULE EarlierServersProofs ------------------------
(***************************************************************************)
(* The two earlier servers: what each promises of the data file, of its    *)
(* replies and of its sockets, for every number of connections, workers    *)
(* and starts.                                                             *)
(***************************************************************************)
EXTENDS EarlierServers, FiniteSetTheorems, SequenceTheorems, TLAPS

(* The lemmas about sequences, which no number of slots has a part in.     *)
Lemmas == INSTANCE DataLemmas WITH MaxOps <- 1, NULL <- 0

-----------------------------------------------------------------------------
(* Types.                                                                  *)
File == Seq(Bytes)
Input == Seq(Byte)
Sessions == [left : File, taken : Input, written : Input, replied : File,
             short : SUBSET {"write", "send"}]

ServerTypes ==
  /\ process \in Programs \cup {"none", "success", "failure", "killed"}
  /\ events \in 0 .. MaxEvents
  /\ run \in BOOLEAN
  /\ listening \in {"open", "last", "closed"}
  /\ fds \in [Fd -> Conns \cup {NULL}]
  /\ file \in File \cup {NULL}
  /\ peer \in [Conns -> {"new", "connected", "gone"}]
  /\ backlog \in SUBSET Conns
  /\ inbox \in [Conns -> Input]
  /\ sent \in [Conns -> Nat]
  /\ \A c \in Conns : sent[c] <= Len(Packet[c])
  /\ session \in Sessions
  /\ kept \in BOOLEAN

Number == Fd \cup {NoFd}

MainTypes ==
  /\ at \in {"accept", "accepted", "open", "recv", "reply", "cleanup",
             "blocked"}
  /\ returned \in Number
  /\ clientfd \in Number
  /\ orphan \in File \cup {NULL}
  /\ pos \in Nat

ThreadTypes ==
  /\ main \in {"accept", "create", "add", "join_threads", "join",
               "destroyed", "exit"}
  /\ accepted \in Number
  /\ current \in Threads \cup {NULL}
  /\ list \in Seq(Threads)
  /\ mutex \in Workers \cup {NULL}
  /\ pc \in [Threads -> {"lock", "recv", "send", "close", "over",
                         "sleep", "unlock", "end"}]
  /\ socket \in [Workers -> Number]
  /\ offset \in [Workers -> Nat]
  /\ stamps \in 0 .. MaxStamps
  /\ spoiled \in BOOLEAN

(* Where main comes to a thread, current names one, and a timestamp is     *)
(* written only when there is one left.                                    *)
Follows ==
  /\ main = "add" => current \in Workers
  /\ main = "join" => current \in Threads
  /\ pc[Stamper] = "lock" => stamps < MaxStamps

LEMMA TypeParts == TypeOK <=> ServerTypes /\ MainTypes /\ ThreadTypes
BY DEF TypeOK, ServerTypes, MainTypes, ThreadTypes, File, Input, Sessions, Number

(* What one call gets of a sequence.                                       *)
LEMMA ChunkIs ==
  ASSUME NEW S, NEW s \in Seq(S), NEW p \in Nat
  PROVE  /\ Chunk(s, p) \in Seq(S)
         /\ Len(Chunk(s, p)) \in Nat
         /\ Chunk(s, p) = <<>> => Len(s) <= p
         /\ p <= Len(s) =>
              /\ p + Len(Chunk(s, p)) <= Len(s)
              /\ SubSeq(s, 1, p) \o Chunk(s, p)
                   = SubSeq(s, 1, p + Len(Chunk(s, p)))
<1> DEFINE e == IF p + BufferSize > Len(s) THEN Len(s) ELSE p + BufferSize
<1>1. e \in Nat /\ e <= Len(s) /\ Len(s) \in Nat /\ (e <= p => Len(s) <= p)
  BY DataFileAssumption
<1>2. Chunk(s, p) = SubSeq(s, p + 1, e)
  BY DEF Chunk
<1> HIDE DEF e
<1>3. SubSeq(s, p + 1, e) \in Seq(S)
      /\ Len(SubSeq(s, p + 1, e)) = IF p + 1 <= e THEN e - p ELSE 0
  BY <1>1
<1>4. ASSUME p <= Len(s), p + 1 <= e
      PROVE  SubSeq(s, 1, p) \o SubSeq(s, p + 1, e) = SubSeq(s, 1, e)
  <2>1. 0 \in Nat /\ p \in 0 .. Len(s) /\ e \in p .. Len(s) /\ 0 + 1 = 1
    BY <1>1, <1>4
  <2>2. SubSeq(s, 0 + 1, p) \o SubSeq(s, p + 1, e) = SubSeq(s, 0 + 1, e)
    BY <2>1, Lemmas!PiecesJoin
  <2> QED
    BY <2>1, <2>2
<1>5. ASSUME p <= Len(s), e < p + 1
      PROVE  SubSeq(s, 1, p) \o SubSeq(s, p + 1, e) = SubSeq(s, 1, p)
  <2>1. SubSeq(s, p + 1, e) = <<>>
    BY <1>1, <1>3, <1>5
  <2>2. SubSeq(s, 1, p) \in Seq(S)
    BY <1>1, <1>5
  <2> QED
    BY <2>1, <2>2, ConcatEmptySeq, Zenon
<1> DEFINE u == SubSeq(s, p + 1, e)
<1>6. CASE p + 1 <= e
  <2>1. u \in Seq(S) /\ Len(u) = e - p /\ p + Len(u) = e /\ u # <<>>
    BY <1>1, <1>3, <1>6
  <2>2. p <= Len(s) => SubSeq(s, 1, p) \o u = SubSeq(s, 1, p + Len(u))
    BY <1>4, <1>6, <2>1, Zenon
  <2> HIDE DEF u
  <2>3. Len(u) \in Nat /\ p + Len(u) <= Len(s)
    BY <1>1, <1>6, <2>1
  <2> QED
    BY <1>2, <2>1, <2>2, <2>3, Zenon DEF u
<1>7. CASE e < p + 1
  <2>1. u \in Seq(S) /\ Len(u) = 0 /\ p + Len(u) = p /\ Len(s) <= p
    BY <1>1, <1>3, <1>7
  <2>2. p <= Len(s) => SubSeq(s, 1, p) \o u = SubSeq(s, 1, p + Len(u))
    BY <1>5, <1>7, <2>1, Zenon
  <2> HIDE DEF u
  <2>3. Len(u) \in Nat /\ (p <= Len(s) => p + Len(u) <= Len(s))
    BY <2>1
  <2> QED
    BY <1>2, <2>1, <2>2, <2>3, Zenon DEF u
<1>8. p + 1 <= e \/ e < p + 1
  BY <1>1
<1> QED
  BY <1>6, <1>7, <1>8, Zenon

LEMMA InputIsFile == Input \subseteq File
BY DEF Input, File, Bytes

LEMMA NullIsNoFile == NULL \notin File
BY EarlierAssumption DEF File

LEMMA JoinFiles ==
  ASSUME NEW s \in File, NEW t \in File, NEW u \in File
  PROVE  s \o (t \o u) = (s \o t) \o u
BY ConcatAssociative DEF File

LEMMA ContentType ==
  ASSUME ServerTypes
  PROVE  Content \in File
BY DEF ServerTypes, Content, File

LEMMA StreamType ==
  ASSUME ServerTypes, MainTypes
  PROVE  Assign3!Stream \in File
BY ContentType DEF MainTypes, Assign3!Stream, Assign3!Content, Content

-----------------------------------------------------------------------------
(* The operators of DataFileServer are the same in both servers.           *)
LEMMA SameChunk ==
  \A s, p : Assign3!Chunk(s, p) = Chunk(s, p) /\ Doesntwork!Chunk(s, p) = Chunk(s, p)
BY DEF Chunk, Assign3!Chunk, Doesntwork!Chunk

LEMMA SameContent == Assign3!Content = Content /\ Doesntwork!Content = Content
BY DEF Content, Assign3!Content, Doesntwork!Content

LEMMA SameConn ==
  \A fd : Assign3!Conn(fd) = Conn(fd) /\ Doesntwork!Conn(fd) = Conn(fd)
BY DEF Conn, Assign3!Conn, Doesntwork!Conn, NoFd, Assign3!NoFd, Doesntwork!NoFd

LEMMA SameNoSession ==
  Assign3!NoSession = NoSession /\ Doesntwork!NoSession = NoSession
BY DEF NoSession, Assign3!NoSession, Doesntwork!NoSession

LEMMA SameFault == (Assign3!Fault <=> Fault) /\ (Doesntwork!Fault <=> Fault)
BY DEF Fault, Assign3!Fault, Doesntwork!Fault, Event, Assign3!Event,
   Doesntwork!Event

LEMMA SameWrites ==
  \A got, bytes : (Assign3!Writes(got, bytes) <=> Writes(got, bytes))
                   /\ (Doesntwork!Writes(got, bytes) <=> Writes(got, bytes))
BY SameFault, SameContent, Zenon
   DEF Writes, Assign3!Writes, Doesntwork!Writes

LEMMA SameSends ==
  \A got, fd : (Assign3!Sends(got, fd) <=> Sends(got, fd))
                /\ (Doesntwork!Sends(got, fd) <=> Sends(got, fd))
BY SameFault, SameConn, Zenon DEF Sends, Assign3!Sends, Doesntwork!Sends

LEMMA SameFd == Assign3!Fd = Fd /\ Doesntwork!Fd = Fd
BY Zenon DEF Fd, Assign3!Fd, Doesntwork!Fd, Cardinality,
   Assign3!Cardinality, Doesntwork!Cardinality

LEMMA SameClose ==
  \A fd : (Assign3!Close(fd) <=> Close(fd)) /\ (Doesntwork!Close(fd) <=> Close(fd))
BY SameFd DEF Close, Assign3!Close, Doesntwork!Close, Conn, Assign3!Conn,
   Doesntwork!Conn, NoFd, Assign3!NoFd, Doesntwork!NoFd

LEMMA SameExit ==
  \A status : (Assign3!Exit(status) <=> Exit(status))
               /\ (Doesntwork!Exit(status) <=> Exit(status))
BY SameFd DEF Exit, Assign3!Exit, Doesntwork!Exit, peers, Assign3!peers,
   Doesntwork!peers, NoSession, Assign3!NoSession, Doesntwork!NoSession

LEMMA SameAccepts ==
  \A c, fd : (Assign3!Accepts(c, fd) <=> Accepts(c, fd))
              /\ (Doesntwork!Accepts(c, fd) <=> Accepts(c, fd))
BY SameFd DEF Accepts, Assign3!Accepts, Doesntwork!Accepts, AcceptReturns,
   Assign3!AcceptReturns, Doesntwork!AcceptReturns,
   Min, Assign3!Min, Doesntwork!Min

LEMMA CloseTypes ==
  ASSUME ServerTypes, NEW fd, Close(fd)
  PROVE  fds' \in [Fd -> Conns \cup {NULL}] /\ inbox' \in [Conns -> Input]
<1>1. <<>> \in Input
  BY DEF Input
<1>2. fds' \in [Fd -> Conns \cup {NULL}]
  BY DEF ServerTypes, Close
<1>3. inbox' \in [Conns -> Input]
  BY <1>1 DEF ServerTypes, Close
<1> QED
  BY <1>2, <1>3

LEMMA ExitTypes ==
  ASSUME ServerTypes, NEW status \in {"success", "failure", "killed"},
         Exit(status), file' \in {file, NULL}, events' \in 0 .. MaxEvents,
         kept' \in BOOLEAN
  PROVE  ServerTypes'
<1>1. <<>> \in Input /\ <<>> \in File
  BY DEF Input, File
<1>2. fds' \in [Fd -> Conns \cup {NULL}] /\ inbox' \in [Conns -> Input]
  BY <1>1 DEF Exit
<1>3. session' \in Sessions
  BY <1>1 DEF Exit, Sessions, NoSession
<1> QED
  BY <1>2, <1>3 DEF ServerTypes, Exit, peers, Programs

LEMMA AcceptsTypes ==
  ASSUME ServerTypes, NEW c \in Conns, NEW fd \in Fd, Accepts(c, fd)
  PROVE  /\ fds' \in [Fd -> Conns \cup {NULL}]
         /\ listening' \in {"open", "last", "closed"}
         /\ backlog' \in SUBSET Conns
BY DEF ServerTypes, Accepts, AcceptReturns

(* What a session receives, writes and reads back.                         *)
LEMMA InboxTypes ==
  ASSUME ServerTypes, NEW c \in Conns
  PROVE  LET got == Chunk(inbox[c], 0)
         IN  /\ got \in Input
             /\ SubSeq(inbox[c], Len(got) + 1, Len(inbox[c])) \in Input
<1> DEFINE got == Chunk(inbox[c], 0)
<1>1. inbox[c] \in Input
  BY DEF ServerTypes
<1>2. got \in Input /\ Len(got) \in Nat
  BY <1>1, ChunkIs DEF Input
<1> HIDE DEF got
<1>3. SubSeq(inbox[c], Len(got) + 1, Len(inbox[c])) \in Input
  BY <1>1, <1>2 DEF Input
<1> QED
  BY <1>2, <1>3 DEF got

LEMMA WritesAre ==
  ASSUME ServerTypes, NEW got \in Input, NEW m \in 0 .. Len(got), NEW bytes,
         bytes = SubSeq(got, 1, m), Writes(got, bytes)
  PROVE  /\ events' \in 0 .. MaxEvents
         /\ file' \in File
         /\ session' \in Sessions
         /\ session'.left = session.left
         /\ session'.replied = session.replied
         /\ session'.taken = session.taken \o got
         /\ \E t \in Input :
              /\ file' = Content \o t
              /\ session'.written = session.written \o t
              /\ "write" \notin session'.short
                   => "write" \notin session.short /\ t = got
<1>1. bytes \in Input /\ Len(bytes) = m /\ Len(got) \in Nat
  BY DEF Input
<1>2. PICK n \in 0 .. Len(bytes) :
        /\ IF n = Len(bytes) THEN UNCHANGED events ELSE Fault
        /\ file' = Content \o SubSeq(bytes, 1, n)
        /\ session' = [session EXCEPT
             !.taken = @ \o got,
             !.written = @ \o SubSeq(bytes, 1, n),
             !.short = IF n < Len(got) THEN @ \cup {"write"} ELSE @]
  BY Zenon DEF Writes
<1> DEFINE t == SubSeq(bytes, 1, n)
<1>3. t \in Input /\ (n >= Len(got) => t = got)
  BY <1>1 DEF Input
<1>4. events' \in 0 .. MaxEvents
  BY <1>2, DataFileAssumption DEF ServerTypes, Fault, Event
<1> HIDE DEF t
<1>5. file' = Content \o t /\ file' \in File
  BY <1>2, <1>3, ContentType, InputIsFile DEF File, t
<1>6. session.taken \o got \in Input /\ session.written \o t \in Input
  BY <1>3 DEF ServerTypes, Sessions, Input
<1>7. session' = [session EXCEPT
        !.taken = @ \o got,
        !.written = @ \o t,
        !.short = IF n < Len(got) THEN @ \cup {"write"} ELSE @]
  BY <1>2 DEF t
<1>8. /\ session' \in Sessions
      /\ session'.left = session.left
      /\ session'.replied = session.replied
      /\ session'.taken = session.taken \o got
      /\ session'.written = session.written \o t
      /\ session'.short = IF n < Len(got) THEN session.short \cup {"write"}
                          ELSE session.short
  BY <1>6, <1>7 DEF ServerTypes, Sessions
<1>9. "write" \notin session'.short
        => "write" \notin session.short /\ t = got
  BY <1>1, <1>3, <1>8
<1> QED
  BY <1>3, <1>4, <1>5, <1>8, <1>9

LEMMA SendsAre ==
  ASSUME ServerTypes, NEW got \in File, NEW fd, Sends(got, fd)
  PROVE  /\ events' \in 0 .. MaxEvents
         /\ session' \in Sessions
         /\ session'.left = session.left
         /\ session'.taken = session.taken
         /\ session'.written = session.written
         /\ "write" \in session'.short <=> "write" \in session.short
         /\ Conn(fd) # NULL /\ "send" \notin session'.short
              => /\ "send" \notin session.short
                 /\ session'.replied = session.replied \o got
<1>1. CASE Conn(fd) = NULL /\ UNCHANGED <<session, events>>
  BY <1>1 DEF ServerTypes
<1>2. ASSUME NEW n \in 0 .. Len(got),
             IF n = Len(got) THEN UNCHANGED events ELSE Fault,
             session' = [session EXCEPT
               !.replied = @ \o SubSeq(got, 1, n),
               !.short = IF n < Len(got) THEN @ \cup {"send"} ELSE @]
      PROVE  /\ events' \in 0 .. MaxEvents
             /\ session' \in Sessions
             /\ session'.left = session.left
             /\ session'.taken = session.taken
             /\ session'.written = session.written
             /\ "write" \in session'.short <=> "write" \in session.short
             /\ "send" \notin session'.short
                  => /\ "send" \notin session.short
                     /\ session'.replied = session.replied \o got
  <2> DEFINE t == SubSeq(got, 1, n)
  <2>1. t \in File /\ (n >= Len(got) => t = got) /\ Len(got) \in Nat
    BY DEF File
  <2>2. events' \in 0 .. MaxEvents
    BY <1>2, DataFileAssumption DEF ServerTypes, Fault, Event
  <2> HIDE DEF t
  <2>3. session.replied \o t \in File
    BY <2>1 DEF ServerTypes, Sessions, File
  <2>4. session' = [session EXCEPT
          !.replied = @ \o t,
          !.short = IF n < Len(got) THEN @ \cup {"send"} ELSE @]
    BY <1>2 DEF t
  <2>5. /\ session' \in Sessions
        /\ session'.left = session.left
        /\ session'.taken = session.taken
        /\ session'.written = session.written
        /\ session'.replied = session.replied \o t
        /\ session'.short = IF n < Len(got) THEN session.short \cup {"send"}
                            ELSE session.short
    BY <2>3, <2>4 DEF ServerTypes, Sessions
  <2>6. "send" \notin session'.short
          => "send" \notin session.short /\ t = got
    BY <2>1, <2>5
  <2>7. "write" \in session'.short <=> "write" \in session.short
    BY <2>5
  <2>8. "send" \notin session'.short
          => /\ "send" \notin session.short
             /\ session'.replied = session.replied \o got
    BY <2>5, <2>6
  <2> QED
    BY <2>2, <2>5, <2>7, <2>8, Zenon
<1>3. \/ Conn(fd) = NULL /\ UNCHANGED <<session, events>>
      \/ \E n \in 0 .. Len(got) :
           /\ IF n = Len(got) THEN UNCHANGED events ELSE Fault
           /\ session' = [session EXCEPT
                !.replied = @ \o SubSeq(got, 1, n),
                !.short = IF n < Len(got) THEN @ \cup {"send"} ELSE @]
  BY Zenon DEF Sends
<1> QED
  BY <1>1, <1>2, <1>3, Zenon

LEMMA LeftTypes ==
  ASSUME ServerTypes
  PROVE  NoSession \in Sessions /\ [NoSession EXCEPT !.left = Content] \in Sessions
<1>1. <<>> \in Input /\ <<>> \in File
  BY DEF Input, File
<1> QED
  BY <1>1, ContentType DEF Sessions, NoSession

-----------------------------------------------------------------------------
(* The steps of the one server keep the types.                             *)
LEMMA MainTypeStep ==
  ASSUME ServerTypes, MainTypes, Assign3!Next
  PROVE  ServerTypes' /\ MainTypes'
<1> USE DataFileAssumption, SameFd
    DEF ServerTypes, MainTypes, Number, Programs, NoFd,
        Assign3!life, Assign3!data, Assign3!peers, Assign3!port,
        Assign3!network, Assign3!serverVars, Assign3!mainVars,
        Assign3!Programs, Assign3!Up, Assign3!NoFd,
        Assign3!Event, Assign3!Fault, Assign3!UpAt
<1>0. Assign3!NoSession = NoSession
  BY SameNoSession
<1>e. ASSUME NEW status \in {"success", "failure", "killed"},
             Assign3!MainEnds(status), file' \in {file, NULL},
             events' \in 0 .. MaxEvents, kept' \in BOOLEAN
      PROVE  ServerTypes' /\ MainTypes'
  <2>1. Exit(status)
    BY <1>e, SameExit DEF Assign3!MainEnds
  <2>2. ServerTypes'
    BY <1>e, <2>1, ExitTypes
  <2> QED
    BY <1>e, <2>2 DEF Assign3!MainEnds
<1>1. CASE Assign3!StartAssign3
  <2>1. /\ process' = "assign3" /\ run' = TRUE /\ kept' = FALSE
        /\ listening' = "open"
        /\ UNCHANGED <<file, session, peer, sent, fds, backlog, inbox>>
        /\ UNCHANGED <<at, returned, clientfd, orphan, pos>>
    BY <1>1 DEF Assign3!StartAssign3, Assign3!Starts
  <2>2. events' \in 0 .. MaxEvents
    BY <1>1 DEF Assign3!StartAssign3, Assign3!Starts
  <2> QED
    BY <2>1, <2>2
<1>2. CASE Assign3!StartAssign3Fails
  <2>1. /\ process' = "failure" /\ run' = TRUE /\ kept' = FALSE
        /\ file' \in {NULL, file}
        /\ UNCHANGED <<listening, session, peer, sent, fds, backlog, inbox>>
        /\ UNCHANGED <<at, returned, clientfd, orphan, pos>>
    BY <1>2 DEF Assign3!StartAssign3Fails, Assign3!StartFails
  <2>2. events' \in 0 .. MaxEvents
    BY <1>2 DEF Assign3!StartAssign3Fails, Assign3!StartFails
  <2> QED
    BY <2>1, <2>2
<1>3. CASE Assign3!StoreClientfd
  BY <1>3 DEF Assign3!StoreClientfd
<1>4. CASE Assign3!Open
  BY <1>0, <1>4, ContentType, LeftTypes, SameContent DEF Assign3!Open
<1>5. CASE Assign3!Recv
  <2> DEFINE c == Conn(clientfd)
             got == Chunk(inbox[c], 0)
  <2>1. c \in Conns
    BY <1>5, SameConn DEF Assign3!Recv, Conn
  <2>2. got \in Input /\ SubSeq(inbox[c], Len(got) + 1, Len(inbox[c])) \in Input
    BY <2>1, InboxTypes
  <2>3. PICK m \in 0 .. Len(got) : Writes(got, SubSeq(got, 1, m))
    BY <1>5, SameConn, SameChunk, SameWrites DEF Assign3!Recv
  <2>4. inbox' = [inbox EXCEPT ![c] = SubSeq(@, Len(got) + 1, Len(@))]
    BY <1>5, SameConn, SameChunk DEF Assign3!Recv
  <2>5. events' \in 0 .. MaxEvents /\ file' \in File /\ session' \in Sessions
    BY <2>2, <2>3, WritesAre
  <2> HIDE DEF got, c
  <2>6. inbox' \in [Conns -> Input]
    BY <2>1, <2>2, <2>4
  <2>7. at' \in {"recv", "reply"}
    BY <1>5 DEF Assign3!Recv
  <2> QED
    BY <1>5, <2>5, <2>6, <2>7 DEF Assign3!Recv
<1>6. CASE Assign3!Reply
  <2> DEFINE got == Chunk(Assign3!Stream, pos)
  <2>1. got \in File /\ Len(got) \in Nat
    BY StreamType, ChunkIs DEF File
  <2>2. Sends(got, clientfd) /\ pos' = pos + Len(got)
    BY <1>6, SameChunk, SameSends DEF Assign3!Reply
  <2>3. events' \in 0 .. MaxEvents /\ session' \in Sessions
    BY <2>1, <2>2, SendsAre
  <2> HIDE DEF got
  <2> QED
    BY <1>6, <2>1, <2>2, <2>3 DEF Assign3!Reply
<1>7. CASE Assign3!RecvEnds
  BY <1>7 DEF Assign3!RecvEnds
<1>8. CASE Assign3!ReplyEnds
  BY <1>0, <1>8, SameClose, CloseTypes, LeftTypes DEF Assign3!ReplyEnds
<1>9. CASE Assign3!AcceptFails
  BY <1>9, <1>e DEF Assign3!AcceptFails
<1>10. CASE Assign3!Cleanup
  BY <1>10, <1>e DEF Assign3!Cleanup, Assign3!RemoveFile
<1>11. CASE Assign3!OpenFails
  BY <1>11, <1>e DEF Assign3!OpenFails
<1>12. CASE Assign3!BrokenPipe
  BY <1>12, <1>e DEF Assign3!BrokenPipe
<1>13. CASE Assign3!Signal
  <2>1. fds' \in [Fd -> Conns \cup {NULL}] /\ inbox' \in [Conns -> Input]
    BY <1>13, SameClose, CloseTypes DEF Assign3!Signal
  <2>2. orphan' \in File \cup {NULL}
    BY <1>13, StreamType DEF Assign3!Signal
  <2>3. MainTypes'
    BY <1>13, <2>2 DEF Assign3!Signal
  <2>4. events' \in 0 .. MaxEvents
    BY <1>13 DEF Assign3!Signal
  <2>10. run' \in BOOLEAN
    BY <1>13 DEF Assign3!Signal
  <2>5. listening' \in {"open", "last", "closed"}
    BY <1>13 DEF Assign3!Signal
  <2>6. file' \in File \cup {NULL} /\ kept' \in BOOLEAN
    BY <1>13 DEF Assign3!Signal, Assign3!RemoveFile
  <2>7. backlog' \in SUBSET Conns
    BY <1>13 DEF Assign3!Signal
  <2>8. UNCHANGED <<process, peer, sent, session>>
    BY <1>13 DEF Assign3!Signal
  <2>9. ServerTypes'
    BY <2>1, <2>4, <2>10, <2>5, <2>6, <2>7, <2>8
  <2> QED
    BY <2>3, <2>9
<1>14. ASSUME NEW c \in Conns, Assign3!Accept(c)
       PROVE  ServerTypes' /\ MainTypes'
  BY <1>14, SameAccepts, AcceptsTypes DEF Assign3!Accept
<1>15. CASE Assign3!HandlerBlocks
  BY <1>15 DEF Assign3!HandlerBlocks
<1> QED
  BY <1>1, <1>2, <1>3, <1>4, <1>5, <1>6, <1>7, <1>8, <1>9, <1>10, <1>11,
     <1>12, <1>13, <1>14, <1>15
     DEF Assign3!Next, Assign3!MainStep

LEMMA RemoveTypes ==
  ASSUME NEW S, NEW s \in Seq(S), NEW t
  PROVE  Doesntwork!RemoveFirst(s, t) \in Seq(S)
<1>1. ASSUME NEW i \in 1 .. Len(s)
      PROVE  Doesntwork!RemoveAt(s, i) \in Seq(S)
  BY <1>1 DEF Doesntwork!RemoveAt
<1> DEFINE I == {i \in 1 .. Len(s) : s[i] = t}
<1>2. ASSUME I # {}
      PROVE  Doesntwork!Min(I) \in 1 .. Len(s)
  <2>1. I \in SUBSET Nat
    OBVIOUS
  <2>2. \E m \in I : \A n \in I : m <= n
    <3> HIDE DEF I
    <3> QED
      BY <1>2, <2>1, Lemmas!LeastNatural
  <2> QED
    BY <2>2 DEF Doesntwork!Min
<1>3. CASE I # {}
  BY <1>1, <1>2, <1>3 DEF Doesntwork!RemoveFirst, Doesntwork!SelectInSeq
<1>4. CASE I = {}
  BY <1>4 DEF Doesntwork!RemoveFirst
<1> QED
  BY <1>3, <1>4

LEMMA ThreadTypeStep ==
  ASSUME ServerTypes, ThreadTypes, Follows, Doesntwork!Next
  PROVE  ServerTypes' /\ ThreadTypes'
<1> USE DataFileAssumption, EarlierAssumption, SameFd
    DEF ServerTypes, ThreadTypes, Number, Programs, NoFd, Threads,
        Doesntwork!life, Doesntwork!data, Doesntwork!peers, Doesntwork!port,
        Doesntwork!network, Doesntwork!serverVars, Doesntwork!mainVars,
        Doesntwork!pool, Doesntwork!threadVars, Doesntwork!rest,
        Doesntwork!dwVars, Doesntwork!Threads,
        Doesntwork!Programs, Doesntwork!Up, Doesntwork!NoFd,
        Doesntwork!Event, Doesntwork!Fault, Doesntwork!UpAt, Doesntwork!At,
        Doesntwork!Goto, Doesntwork!NextRound
<1>0. Doesntwork!NoSession = NoSession
  BY SameNoSession
<1>e. ASSUME NEW status \in {"success", "failure", "killed"},
             Doesntwork!ThreadsEnd(status), file' \in {file, NULL},
             events' \in 0 .. MaxEvents, kept' \in BOOLEAN
      PROVE  ServerTypes' /\ ThreadTypes'
  <2>1. Exit(status)
    BY <1>e, SameExit DEF Doesntwork!ThreadsEnd
  <2>2. ServerTypes'
    BY <1>e, <2>1, ExitTypes
  <2>3. list' \in Seq(Threads)
    BY <1>e DEF Doesntwork!ThreadsEnd
  <2>4. pc' \in [Threads -> {"over"}]
    BY <1>e DEF Doesntwork!ThreadsEnd
  <2>5. socket' \in [Workers -> Number] /\ offset' \in [Workers -> Nat]
    BY <1>e DEF Doesntwork!ThreadsEnd
  <2>6. /\ main' = "accept" /\ accepted' = NoFd /\ current' = NULL
        /\ mutex' = NULL /\ stamps' = 0 /\ spoiled' = FALSE
    BY <1>e DEF Doesntwork!ThreadsEnd
  <2>7. /\ accepted' \in Number
        /\ pc' \in [Threads -> {"lock", "recv", "send", "close", "over",
                                 "sleep", "unlock", "end"}]
        /\ stamps' \in 0 .. MaxStamps
    BY <2>4, <2>6
  <2>8. ThreadTypes'
    BY <2>3, <2>5, <2>6, <2>7
  <2> QED
    BY <2>2, <2>8
<1>1. CASE Doesntwork!StartDoesntwork
  <2>1. /\ process' = "doesntwork" /\ run' = TRUE /\ kept' = FALSE
        /\ listening' = "open"
        /\ UNCHANGED <<file, session, peer, sent, fds, backlog, inbox>>
        /\ UNCHANGED <<main, accepted, current, mutex, socket, offset,
                       stamps, spoiled>>
    BY <1>1 DEF Doesntwork!StartDoesntwork, Doesntwork!Starts
  <2>2. events' \in 0 .. MaxEvents
    BY <1>1 DEF Doesntwork!StartDoesntwork, Doesntwork!Starts
  <2>3. list' = <<Stamper>> /\ list' \in Seq(Threads)
    BY <1>1 DEF Doesntwork!StartDoesntwork
  <2>4. pc' \in [Threads -> {"lock", "recv", "send", "close", "over",
                              "sleep", "unlock", "end"}]
    BY <1>1 DEF Doesntwork!StartDoesntwork
  <2>5. ServerTypes'
    BY <2>1, <2>2
  <2>6. ThreadTypes'
    BY <2>1, <2>3, <2>4
  <2> QED
    BY <2>5, <2>6
<1>2. CASE Doesntwork!StartDoesntworkFails
  <2>1. /\ process' = "failure" /\ run' = TRUE /\ kept' = FALSE
        /\ file' = file
        /\ UNCHANGED <<listening, session, peer, sent, fds, backlog, inbox>>
        /\ UNCHANGED <<main, accepted, current, list, mutex, pc, socket,
                       offset, stamps, spoiled>>
    BY <1>2 DEF Doesntwork!StartDoesntworkFails, Doesntwork!StartFails
  <2>2. events' \in 0 .. MaxEvents
    BY <1>2 DEF Doesntwork!StartDoesntworkFails, Doesntwork!StartFails
  <2>3. ServerTypes'
    BY <2>1, <2>2
  <2>4. ThreadTypes'
    BY <2>1
  <2> QED
    BY <2>3, <2>4
<1>3. CASE Doesntwork!AcceptFails
  BY <1>3 DEF Doesntwork!AcceptFails, Doesntwork!AcceptReturns
<1>4. CASE Doesntwork!CreateFails
  BY <1>4, SameClose, CloseTypes DEF Doesntwork!CreateFails
<1>5. CASE Doesntwork!AddThread
  <2>1. current \in Threads
    BY <1>5 DEF Doesntwork!AddThread, Follows
  <2>2. <<current>> \o list \in Seq(Threads)
    BY <2>1
  <2> QED
    BY <1>5, <2>2 DEF Doesntwork!AddThread
<1>6. CASE Doesntwork!ReadHead
  BY <1>6 DEF Doesntwork!ReadHead
<1>7. CASE Doesntwork!JoinNext
  BY <1>7, RemoveTypes DEF Doesntwork!JoinNext, Doesntwork!Joined
<1>8. CASE Doesntwork!CleanupAll
  <2>1. /\ listening' = "closed" /\ backlog' = {}
        /\ main' \in {"destroyed", "exit"}
        /\ file' \in {NULL, file}
    BY <1>8 DEF Doesntwork!CleanupAll
  <2>3. spoiled' \in BOOLEAN /\ kept' \in BOOLEAN
    <3> DEFINE L == \E t \in Threads : pc[t] # "over"
    <3>1. spoiled' = (spoiled \/ L) /\ kept' = (file' # NULL \/ L)
      BY <1>8 DEF Doesntwork!CleanupAll
    <3> HIDE DEF L
    <3> QED
      BY <3>1
  <2>2. UNCHANGED <<peer, sent, process, run, session, events, fds, inbox,
                    accepted, current, mutex, pc, socket, offset, list, stamps>>
    BY <1>8 DEF Doesntwork!CleanupAll
  <2> QED
    BY <2>1, <2>2, <2>3
<1>27. CASE Doesntwork!ExitProcess
  BY <1>27, <1>e DEF Doesntwork!ExitProcess
<1>9. ASSUME NEW c \in Conns, Doesntwork!Accept(c)
      PROVE  ServerTypes' /\ ThreadTypes'
  BY <1>9, SameAccepts, AcceptsTypes DEF Doesntwork!Accept
<1>10. ASSUME NEW w \in Workers, Doesntwork!Create(w)
       PROVE  ServerTypes' /\ ThreadTypes'
  BY <1>10 DEF Doesntwork!Create
<1>11. CASE Doesntwork!AddThreadFails
  BY <1>11, <1>e DEF Doesntwork!AddThreadFails
<1>12. CASE Doesntwork!JoinKills
  BY <1>12, <1>e DEF Doesntwork!JoinKills
<1>13. CASE Doesntwork!Signal
  <2>1. /\ listening' \in {"open", "last", "closed"}
        /\ backlog' \in SUBSET Conns
        /\ main' \in {main, "create"}
    BY <1>13 DEF Doesntwork!Signal, Doesntwork!AcceptReturns
  <2>2. ThreadTypes'
    BY <1>13, <2>1 DEF Doesntwork!Signal
  <2>3. events' \in 0 .. MaxEvents
    BY <1>13 DEF Doesntwork!Signal
  <2>6. run' \in BOOLEAN
    BY <1>13 DEF Doesntwork!Signal
  <2>4. UNCHANGED <<process, fds, file, inbox, session, peer, sent, kept>>
    BY <1>13 DEF Doesntwork!Signal
  <2>5. ServerTypes'
    BY <2>1, <2>3, <2>6, <2>4
  <2> QED
    BY <2>2, <2>5
<1>14. CASE Doesntwork!AppendTimestamp
  <2>1. file' \in {Append(Content, Stamp), Content}
    BY <1>14, SameContent DEF Doesntwork!AppendTimestamp, Doesntwork!WriteStamp
  <2>5. Content \in Seq(Bytes) /\ Append(Content, Stamp) \in Seq(Bytes)
    <3>1. Content \in Seq(Bytes)
      BY ContentType DEF File
    <3>2. Stamp \in Bytes
      BY DEF Bytes
    <3> QED
      BY <3>1, <3>2
  <2>2. file' \in File
    BY <2>1, <2>5 DEF File
  <2>4. events' \in 0 .. MaxEvents
    BY <1>14 DEF Doesntwork!AppendTimestamp, Doesntwork!WriteStamp
  <2>3. stamps' \in 0 .. MaxStamps
    BY <1>14 DEF Doesntwork!AppendTimestamp, Follows
  <2> QED
    BY <1>14, <2>2, <2>3, <2>4 DEF Doesntwork!AppendTimestamp
<1>15. CASE Doesntwork!StampOpenFails
  BY <1>15 DEF Doesntwork!StampOpenFails
<1>16. CASE Doesntwork!UnlockAgain
  BY <1>16 DEF Doesntwork!UnlockAgain
<1>17. CASE Doesntwork!WakeStamper
  BY <1>17 DEF Doesntwork!WakeStamper
<1>18. CASE Doesntwork!EndStamper
  BY <1>18, RemoveTypes DEF Doesntwork!EndStamper, Doesntwork!EndThread
<1>19. ASSUME NEW w \in Workers, Doesntwork!Lock(w)
       PROVE  ServerTypes' /\ ThreadTypes'
  BY <1>19, <1>0, LeftTypes, SameContent DEF Doesntwork!Lock
<1>20. ASSUME NEW w \in Workers, Doesntwork!Recv(w)
       PROVE  ServerTypes' /\ ThreadTypes'
  <2> DEFINE c == Conn(socket[w])
             got == Chunk(inbox[c], 0)
  <2>1. c \in Conns
    BY <1>20, SameConn DEF Doesntwork!Recv, Conn
  <2>2. got \in Input /\ SubSeq(inbox[c], Len(got) + 1, Len(inbox[c])) \in Input
    BY <2>1, InboxTypes
  <2>3. /\ file' \in File \cup {NULL}
        /\ fds' \in [Fd -> Conns \cup {NULL}]
        /\ inbox' \in [Conns -> Input]
        /\ events' \in 0 .. MaxEvents
        /\ spoiled' \in BOOLEAN
        /\ session' \in Sessions
    <3>1. CASE /\ Doesntwork!Fault
               /\ Doesntwork!Close(socket[w])
               /\ spoiled' = TRUE
               /\ session' = [session EXCEPT !.taken = @ \o got,
                                             !.short = @ \cup {"write"}]
               /\ UNCHANGED file
      <4>1. /\ fds' \in [Fd -> Conns \cup {NULL}]
            /\ inbox' \in [Conns -> Input]
        BY <3>1, SameClose, CloseTypes
      <4>2. events' \in 0 .. MaxEvents
        BY <3>1
      <4>3. session.taken \o got \in Input
        BY <2>2 DEF Sessions, Input
      <4> HIDE DEF got
      <4>4. session' \in Sessions
        BY <3>1, <4>3 DEF Sessions
      <4> QED
        BY <3>1, <4>1, <4>2, <4>4
    <3>2. CASE /\ Writes(got, got)
               /\ inbox' = [inbox EXCEPT ![c] = SubSeq(@, Len(got) + 1, Len(@))]
               /\ UNCHANGED <<fds, spoiled>>
      <4>1. got = SubSeq(got, 1, Len(got)) /\ Len(got) \in 0 .. Len(got)
        BY <2>2 DEF Input
      <4>2. /\ events' \in 0 .. MaxEvents /\ file' \in File
            /\ session' \in Sessions
        BY <2>2, <3>2, <4>1, WritesAre
      <4> HIDE DEF c, got
      <4> QED
        BY <2>1, <2>2, <3>2, <4>2
    <3> QED
      BY <1>20, <3>1, <3>2, SameConn, SameChunk, SameWrites
         DEF Doesntwork!Recv
  <2> HIDE DEF c, got
  <2>5. pc' \in [Threads -> {"lock", "recv", "send", "close", "over",
                              "sleep", "unlock", "end"}]
    BY <1>20 DEF Doesntwork!Recv
  <2> QED
    BY <1>20, <2>3, <2>5 DEF Doesntwork!Recv
<1>21. ASSUME NEW w \in Workers, Doesntwork!RecvEnds(w)
       PROVE  ServerTypes' /\ ThreadTypes'
  BY <1>21, <1>0, LeftTypes DEF Doesntwork!RecvEnds
<1>22. ASSUME NEW w \in Workers, Doesntwork!OpenToReadFails(w)
       PROVE  ServerTypes' /\ ThreadTypes'
  BY <1>22, SameClose, CloseTypes DEF Doesntwork!OpenToReadFails
<1>23. ASSUME NEW w \in Workers, Doesntwork!SendChunk(w)
       PROVE  ServerTypes' /\ ThreadTypes'
  <2> DEFINE got == Chunk(Content, offset[w])
  <2>1. got \in File /\ Len(got) \in Nat
    BY ContentType, ChunkIs DEF File
  <2>2. Sends(got, socket[w]) /\ offset' = [offset EXCEPT ![w] = @ + Len(got)]
    BY <1>23, SameChunk, SameContent, SameSends DEF Doesntwork!SendChunk
  <2>3. events' \in 0 .. MaxEvents /\ session' \in Sessions
    BY <2>1, <2>2, SendsAre
  <2> HIDE DEF got
  <2> QED
    BY <1>23, <2>1, <2>2, <2>3 DEF Doesntwork!SendChunk
<1>24. ASSUME NEW w \in Workers, Doesntwork!SendEnds(w)
       PROVE  ServerTypes' /\ ThreadTypes'
  BY <1>24, <1>0, LeftTypes DEF Doesntwork!SendEnds
<1>25. ASSUME NEW w \in Workers, Doesntwork!CloseClient(w)
       PROVE  ServerTypes' /\ ThreadTypes'
  BY <1>25, SameClose, CloseTypes, RemoveTypes
     DEF Doesntwork!CloseClient, Doesntwork!EndThread
<1>26. ASSUME NEW w \in Workers, Doesntwork!BrokenPipe(w)
       PROVE  ServerTypes' /\ ThreadTypes'
  BY <1>26, <1>e DEF Doesntwork!BrokenPipe
<1> QED
  BY <1>1, <1>2, <1>3, <1>4, <1>5, <1>6, <1>7, <1>8, <1>9, <1>10, <1>11,
     <1>12, <1>13, <1>14, <1>15, <1>16, <1>17, <1>18, <1>19, <1>20, <1>21,
     <1>22, <1>23, <1>24, <1>25, <1>26, <1>27
     DEF Doesntwork!Next, Doesntwork!MainStep, Doesntwork!WorkerStep,
         Doesntwork!StamperStep

(* A peer adds a byte of its packet to what waits to be received.          *)
LEMMA PeerTypeStep ==
  ASSUME ServerTypes, NEW c \in Conns, Peer(c)
  PROVE  ServerTypes'
<1> USE DataFileAssumption
    DEF ServerTypes, life, data, peers, port, network, Event
<1>1. CASE Connect(c)
  BY <1>1 DEF Connect
<1>2. CASE Send(c)
  <2>1. Packet[c] \in Input /\ Len(Packet[c]) \in Nat
    BY EarlierAssumption DEF Input
  <2>2. sent[c] + 1 \in 1 .. Len(Packet[c])
    BY <1>2, <2>1 DEF Send
  <2>3. Packet[c][sent[c] + 1] \in Byte
    BY <2>1, <2>2 DEF Input
  <2>4. Append(inbox[c], Packet[c][sent[c] + 1]) \in Input
    BY <2>3 DEF Input
  <2>5. inbox' \in [Conns -> Input]
    BY <1>2, <2>4 DEF Send
  <2>6. sent' \in [Conns -> Nat] /\ \A d \in Conns : sent'[d] <= Len(Packet[d])
    BY <1>2, <2>1, <2>2 DEF Send
  <2> QED
    BY <1>2, <2>5, <2>6 DEF Send
<1>3. CASE HangUp(c)
  BY <1>3 DEF HangUp
<1> QED
  BY <1>1, <1>2, <1>3 DEF Peer

-----------------------------------------------------------------------------
(* The invariant.                                                          *)

(* Of a program that does not run nothing is left.                         *)
OneProcess ==
  /\ process # "assign3" => Assign3!MainInit
  /\ process # "doesntwork" => Doesntwork!ThreadsInit

(* A connection that waits or has a number is no new one, and no           *)
(* connection has two numbers, or waits and has one.                       *)
Numbers ==
  /\ \A c \in backlog : peer[c] # "new"
  /\ \A n \in Fd : fds[n] # NULL => fds[n] \notin backlog /\ peer[fds[n]] # "new"
  /\ \A m, n \in Fd : fds[m] # NULL /\ fds[m] = fds[n] => m = n

(* assign3: the file fp has open is what the session found and wrote;      *)
(* after the handler removed it nothing more is received.  A process whose *)
(* handler ran has no file until main opens one again, or its remove       *)
(* failed.                                                                 *)
MainKeeps ==
  /\ at \notin {"recv", "reply", "blocked"} => orphan = NULL
  /\ orphan # NULL => Conn(clientfd) = NULL /\ file = NULL
  /\ at \notin {"reply", "blocked"} => pos = 0
  /\ at \in {"recv", "reply"} => Assign3!Stream = Whole
  /\ process = "assign3" /\ ~run /\ at \in {"accept", "accepted", "open"}
       => file = NULL \/ kept

(* Until its handler runs assign3 has the connection it serves, and has    *)
(* replied what it read back.                                              *)
MainReplies ==
  run =>
    /\ at = "accepted" => Conn(returned) # NULL
    /\ at \in {"open", "recv", "reply"} => Conn(clientfd) # NULL
    /\ at = "recv" => session.replied = <<>>
    /\ at = "reply" =>
         /\ pos <= Len(Whole)
         /\ "send" \notin session.short
              => session.replied = SubSeq(Whole, 1, pos)

(* doesntwork: who receives or sends holds file_mutex.                     *)
MutexHeld ==
  ~spoiled =>
    /\ \A w \in Workers : pc[w] \in {"recv", "send"} => mutex = w
    /\ pc[Stamper] # "unlock"

(* A number main or a thread has not closed yet is its own.                *)
Serving(w) == pc[w] \in {"lock", "recv", "send", "close"}

SocketsOwned ==
  /\ main # "create" => accepted = NoFd
  /\ ~spoiled =>
       /\ accepted # NoFd =>
            /\ Conn(accepted) # NULL
            /\ \A w \in Workers : Serving(w) => socket[w] # accepted
       /\ \A w \in Workers :
            Serving(w) /\ socket[w] # NoFd => Conn(socket[w]) # NULL
       /\ \A v, w \in Workers :
            v # w /\ Serving(v) /\ Serving(w) /\ socket[w] # NoFd
              => socket[v] # socket[w]

(* The file is the session's, and what was read back of it was sent.       *)
SessionHeld ==
  ~spoiled =>
    \A w \in Workers :
      /\ pc[w] \in {"lock", "recv"} => offset[w] = 0
      /\ pc[w] \in {"recv", "send"} => Content = Whole
      /\ pc[w] = "recv" => session.replied = <<>>
      /\ pc[w] = "send" =>
           /\ socket[w] # NoFd
           /\ Holds(session.taken, NL)
           /\ offset[w] <= Len(Whole)
           /\ "send" \notin session.short
                => session.replied = SubSeq(Whole, 1, offset[w])

(* What a session took it wrote, unless a call fell short.                 *)
WritesAll == "write" \notin session.short => session.written = session.taken

(* When main of doesntwork has removed the file, nothing runs that it did  *)
(* not know of.                                                            *)
Leaving == main \in {"destroyed", "exit"}

Quiet ==
  Leaving =>
    /\ ~spoiled => \A t \in Threads : pc[t] = "over"
    /\ ~kept => file = NULL /\ \A t \in Threads : pc[t] = "over"

IInv ==
  /\ TypeOK /\ OneProcess /\ Numbers /\ MainKeeps /\ MainReplies
  /\ WritesAll /\ Quiet
  /\ Follows /\ MutexHeld /\ SocketsOwned /\ SessionHeld

-----------------------------------------------------------------------------
(* Numbers.  A connection that waits has none yet, so one number is free.  *)
LEMMA FreeNumber ==
  ASSUME ServerTypes, Numbers, NEW c \in Conns, NEW fd, Accepts(c, fd)
  PROVE  fd \in Fd /\ fds[fd] = NULL
<1> DEFINE Free == {n \in Fd : fds[n] = NULL}
           N == Cardinality(Conns)
<1>1. N \in Nat /\ Fd = 1 .. N
  BY DataFileAssumption, FS_CardinalityType DEF Fd
<1>2. Free # {}
  <2> SUFFICES ASSUME Free = {} PROVE FALSE
    OBVIOUS
  <2>1. \A n \in Fd : fds[n] \in Conns \ {c} /\ fds[n] # NULL
    <3>1. c \in backlog
      BY DEF Accepts
    <3> QED
      BY <3>1 DEF ServerTypes, Numbers
  <2>2. fds \in [Fd -> Conns \ {c}] /\ DOMAIN fds = Fd
    BY <2>1 DEF ServerTypes
  <2>3. IsInjective(fds)
    BY <2>1, <2>2 DEF Numbers, IsInjective
  <2>4. fds \in Injection(Fd, Conns \ {c})
    BY <2>2, <2>3, Zenon DEF Injection
  <2>5. IsFiniteSet(Conns \ {c}) /\ Cardinality(Conns \ {c}) = N - 1
    BY DataFileAssumption, FS_RemoveElement
  <2>6. Cardinality(Fd) <= Cardinality(Conns \ {c})
    BY <2>4, <2>5, FS_Injection
  <2>7. Cardinality(Fd) = N
    BY <1>1, FS_Interval
  <2> HIDE DEF N
  <2> QED
    BY <1>1, <2>5, <2>6, <2>7
<1>3. Min(Free) \in Free
  <2>1. Free \in SUBSET Nat
    BY <1>1
  <2>2. \E m \in Free : \A n \in Free : m <= n
    <3> HIDE DEF Free
    <3> QED
      BY <1>2, <2>1, Lemmas!LeastNatural
  <2> QED
    BY <2>2 DEF Min
<1>4. fd = Min(Free)
  BY DEF Accepts
<1> QED
  BY <1>3, <1>4

LEMMA NumbersAfterAccept ==
  ASSUME ServerTypes, Numbers, NEW c \in Conns, NEW fd, Accepts(c, fd),
         UNCHANGED peer
  PROVE  Numbers'
<1>1. fd \in Fd
  BY FreeNumber
<1>2. c \in backlog /\ backlog' \subseteq backlog \ {c}
  BY DEF Accepts, AcceptReturns
<1>3. \A n \in Fd : fds'[n] = IF n = fd THEN c ELSE fds[n]
  BY <1>1 DEF Accepts, ServerTypes
<1> QED
  BY <1>2, <1>3 DEF Numbers

LEMMA NumbersAfterClose ==
  ASSUME Numbers, \A n \in Fd : fds'[n] \in {fds[n], NULL},
         backlog' \subseteq backlog, UNCHANGED peer
  PROVE  Numbers'
BY DEF Numbers

LEMMA Closed ==
  ASSUME NEW fd, Close(fd)
  PROVE  /\ \A n \in Fd : fds'[n] \in {fds[n], NULL}
         /\ \A n \in Fd : n # fd => fds'[n] = fds[n]
BY DEF Close

LEMMA Exited ==
  ASSUME NEW status, Exit(status)
  PROVE  /\ \A n \in Fd : fds'[n] \in {fds[n], NULL}
         /\ backlog' \subseteq backlog
         /\ UNCHANGED peer
         /\ process' = status
BY DEF Exit, peers

LEMMA MainNumbers ==
  ASSUME ServerTypes, Numbers, Assign3!Next
  PROVE  Numbers'
<1> USE DEF Assign3!life, Assign3!data, Assign3!peers, Assign3!port,
            Assign3!network, Assign3!serverVars, Assign3!mainVars
<1>1. ASSUME NEW c \in Conns, Assign3!Accept(c) PROVE Numbers'
  BY <1>1, SameAccepts, NumbersAfterAccept DEF Assign3!Accept
<1>2. ASSUME NEW status, Assign3!MainEnds(status) PROVE Numbers'
  BY <1>2, SameExit, Exited, NumbersAfterClose DEF Assign3!MainEnds
<1>3. CASE Assign3!ReplyEnds
  BY <1>3, SameClose, Closed, NumbersAfterClose DEF Assign3!ReplyEnds
<1>4. CASE Assign3!Signal
  BY <1>4, SameClose, Closed, NumbersAfterClose DEF Assign3!Signal
<1>5. CASE UNCHANGED <<fds, backlog, peer>>
  BY <1>5, NumbersAfterClose
<1>6. CASE \/ Assign3!StartAssign3 \/ Assign3!StartAssign3Fails
           \/ Assign3!StoreClientfd \/ Assign3!Open \/ Assign3!Recv
           \/ Assign3!RecvEnds \/ Assign3!Reply \/ Assign3!HandlerBlocks
  <2>1. UNCHANGED <<fds, backlog, peer>>
    BY <1>6 DEF Assign3!StartAssign3, Assign3!Starts,
       Assign3!StartAssign3Fails, Assign3!StartFails,
       Assign3!StoreClientfd, Assign3!Open, Assign3!Recv, Assign3!RecvEnds,
       Assign3!Reply, Assign3!HandlerBlocks
  <2> QED
    BY <1>5, <2>1
<1> QED
  BY <1>1, <1>2, <1>3, <1>4, <1>6
     DEF Assign3!Next, Assign3!MainStep, Assign3!AcceptFails,
         Assign3!Cleanup, Assign3!OpenFails, Assign3!BrokenPipe

LEMMA ThreadNumbers ==
  ASSUME ServerTypes, Numbers, Doesntwork!Next
  PROVE  Numbers'
<1> USE DEF Doesntwork!life, Doesntwork!data, Doesntwork!peers,
            Doesntwork!port, Doesntwork!network, Doesntwork!serverVars
<1>1. ASSUME NEW c \in Conns, Doesntwork!Accept(c) PROVE Numbers'
  BY <1>1, SameAccepts, NumbersAfterAccept DEF Doesntwork!Accept
<1>2. ASSUME NEW status, Doesntwork!ThreadsEnd(status) PROVE Numbers'
  BY <1>2, SameExit, Exited, NumbersAfterClose DEF Doesntwork!ThreadsEnd
<1>3. ASSUME NEW fd, Doesntwork!Close(fd), UNCHANGED <<backlog, peer>>
      PROVE  Numbers'
  BY <1>3, SameClose, Closed, NumbersAfterClose
<1>4. ASSUME UNCHANGED <<fds, peer>>, backlog' \subseteq backlog
      PROVE  Numbers'
  BY <1>4, NumbersAfterClose
<1>5. CASE \/ Doesntwork!StartDoesntwork \/ Doesntwork!StartDoesntworkFails
           \/ Doesntwork!AcceptFails \/ Doesntwork!AddThread
           \/ Doesntwork!ReadHead \/ Doesntwork!JoinNext
           \/ Doesntwork!Signal \/ Doesntwork!CleanupAll
  BY <1>4, <1>5 DEF Doesntwork!StartDoesntwork, Doesntwork!Starts,
     Doesntwork!StartDoesntworkFails, Doesntwork!StartFails,
     Doesntwork!AcceptFails, Doesntwork!AcceptReturns, Doesntwork!AddThread,
     Doesntwork!ReadHead, Doesntwork!JoinNext, Doesntwork!Signal,
     Doesntwork!CleanupAll
<1>6. CASE Doesntwork!StamperStep \/ Doesntwork!StampOpenFails
  BY <1>4, <1>6 DEF Doesntwork!StamperStep, Doesntwork!StampOpenFails,
     Doesntwork!AppendTimestamp, Doesntwork!UnlockAgain,
     Doesntwork!WakeStamper, Doesntwork!EndStamper
<1>7. CASE Doesntwork!CreateFails
  BY <1>3, <1>7 DEF Doesntwork!CreateFails
<1>8. ASSUME NEW w \in Workers,
             \/ Doesntwork!Create(w) \/ Doesntwork!Lock(w)
             \/ Doesntwork!RecvEnds(w) \/ Doesntwork!SendChunk(w)
             \/ Doesntwork!SendEnds(w)
      PROVE  Numbers'
  BY <1>4, <1>8 DEF Doesntwork!Create, Doesntwork!Lock, Doesntwork!RecvEnds,
     Doesntwork!SendChunk, Doesntwork!SendEnds
<1>9. ASSUME NEW w \in Workers,
             \/ Doesntwork!Recv(w) \/ Doesntwork!OpenToReadFails(w)
             \/ Doesntwork!CloseClient(w)
      PROVE  Numbers'
  <2>1. UNCHANGED <<backlog, peer>>
    BY <1>9 DEF Doesntwork!Recv, Doesntwork!OpenToReadFails,
       Doesntwork!CloseClient
  <2>2. Doesntwork!Close(socket[w]) \/ UNCHANGED fds
    BY <1>9 DEF Doesntwork!Recv, Doesntwork!OpenToReadFails,
       Doesntwork!CloseClient
  <2> QED
    BY <1>3, <1>4, <2>1, <2>2
<1> QED
  BY <1>1, <1>2, <1>5, <1>6, <1>7, <1>8, <1>9
     DEF Doesntwork!Next, Doesntwork!MainStep, Doesntwork!WorkerStep,
         Doesntwork!ExitProcess, Doesntwork!AddThreadFails,
         Doesntwork!JoinKills, Doesntwork!BrokenPipe

LEMMA PeerNumbers ==
  ASSUME ServerTypes, Numbers, NEW c \in Conns, Peer(c)
  PROVE  Numbers'
<1>1. CASE Connect(c)
  <2>1. /\ peer[c] = "new" /\ peer' = [peer EXCEPT ![c] = "connected"]
        /\ backlog' = backlog \cup {c} /\ UNCHANGED fds
    BY <1>1 DEF Connect
  <2>2. \A d \in Conns : peer'[d] # "new" <=> (peer[d] # "new" \/ d = c)
    BY <2>1 DEF ServerTypes
  <2>3. \A n \in Fd : fds[n] # NULL => fds[n] \in Conns /\ fds[n] # c
    BY <2>1 DEF ServerTypes, Numbers
  <2> QED
    BY <2>1, <2>2, <2>3 DEF Numbers, ServerTypes
<1>2. CASE Send(c)
  BY <1>2, NumbersAfterClose DEF Send, port
<1>3. CASE HangUp(c)
  <2>1. /\ peer' = [peer EXCEPT ![c] = "gone"]
        /\ UNCHANGED <<fds, backlog>>
    BY <1>3 DEF HangUp, port
  <2>2. \A d \in Conns : peer[d] # "new" => peer'[d] # "new"
    BY <2>1 DEF ServerTypes
  <2> QED
    BY <2>1, <2>2 DEF Numbers, ServerTypes
<1> QED
  BY <1>1, <1>2, <1>3 DEF Peer

-----------------------------------------------------------------------------
(* One process at a time.                                                  *)
LEMMA MainAlone ==
  ASSUME OneProcess, Assign3!Next, UNCHANGED doesntworkVars
  PROVE  OneProcess' /\ process' # "doesntwork"
<1> USE DEF Assign3!serverVars, Assign3!mainVars, Assign3!life, Assign3!data,
            Assign3!UpAt, Assign3!MainInit, NoFd, Assign3!NoFd
<1>1. process # "doesntwork" /\ process' # "doesntwork"
  BY DEF Assign3!Next, Assign3!MainStep, Assign3!StartAssign3, Assign3!Starts,
     Assign3!StartAssign3Fails, Assign3!StartFails, Assign3!Up,
     Assign3!Programs, Assign3!StoreClientfd, Assign3!Open, Assign3!Recv,
     Assign3!RecvEnds, Assign3!Reply, Assign3!ReplyEnds, Assign3!AcceptFails,
     Assign3!Cleanup, Assign3!Accept, Assign3!OpenFails, Assign3!BrokenPipe,
     Assign3!Signal, Assign3!HandlerBlocks, Assign3!MainEnds, Assign3!Exit
<1>2. Doesntwork!ThreadsInit'
  BY <1>1 DEF OneProcess, doesntworkVars, Doesntwork!ThreadsInit
<1>3. process' = "assign3" \/ Assign3!MainInit'
  BY DEF OneProcess, Assign3!Next, Assign3!MainStep, Assign3!StartAssign3,
     Assign3!Starts, Assign3!StartAssign3Fails, Assign3!StartFails,
     Assign3!Up, Assign3!Programs, Assign3!StoreClientfd, Assign3!Open,
     Assign3!Recv, Assign3!RecvEnds, Assign3!Reply, Assign3!ReplyEnds,
     Assign3!AcceptFails, Assign3!Cleanup, Assign3!Accept, Assign3!OpenFails,
     Assign3!BrokenPipe, Assign3!Signal, Assign3!HandlerBlocks,
     Assign3!MainEnds
<1> QED
  BY <1>1, <1>2, <1>3 DEF OneProcess

LEMMA ThreadsAlone ==
  ASSUME OneProcess, Doesntwork!Next, UNCHANGED assign3Vars
  PROVE  OneProcess' /\ process' # "assign3"
<1> USE DEF Doesntwork!serverVars, Doesntwork!life, Doesntwork!data,
            Doesntwork!dwVars, Doesntwork!mainVars, Doesntwork!threadVars,
            Doesntwork!pool, Doesntwork!rest, Doesntwork!UpAt, Doesntwork!At
<1>e. ASSUME NEW status \in {"success", "failure", "killed"},
             process = "doesntwork", Doesntwork!ThreadsEnd(status)
      PROVE  /\ process = "doesntwork" /\ process' \notin Programs
             /\ Doesntwork!ThreadsInit'
  BY <1>e DEF Doesntwork!ThreadsEnd, Doesntwork!Exit, Doesntwork!ThreadsInit,
     Programs
<1>1. CASE process = "doesntwork" /\ process' = process
  <2>1. Assign3!MainInit'
    BY <1>1 DEF OneProcess, assign3Vars, Assign3!MainInit
  <2> QED
    BY <1>1, <2>1 DEF OneProcess
<1>2. CASE /\ process = "doesntwork" /\ process' \notin Programs
           /\ Doesntwork!ThreadsInit'
  <2>1. Assign3!MainInit'
    BY <1>2 DEF OneProcess, assign3Vars, Assign3!MainInit
  <2> QED
    BY <1>2, <2>1 DEF OneProcess, Programs
<1>3. CASE Doesntwork!StartDoesntwork \/ Doesntwork!StartDoesntworkFails
  <2>1. process \notin Programs /\ process' # "assign3"
    BY <1>3 DEF Doesntwork!StartDoesntwork, Doesntwork!StartDoesntworkFails,
       Doesntwork!Starts, Doesntwork!StartFails, Doesntwork!Up,
       Doesntwork!Programs, Programs
  <2>2. Assign3!MainInit'
    BY <2>1 DEF OneProcess, assign3Vars, Assign3!MainInit, Programs
  <2>3. process' = "doesntwork" \/ Doesntwork!ThreadsInit'
    BY <1>3, <2>1 DEF OneProcess, Programs, Doesntwork!StartDoesntwork,
       Doesntwork!StartDoesntworkFails, Doesntwork!Starts,
       Doesntwork!ThreadsInit
  <2> QED
    BY <2>1, <2>2, <2>3 DEF OneProcess
<1>4. CASE \/ Doesntwork!ExitProcess \/ Doesntwork!AddThreadFails
           \/ Doesntwork!JoinKills
           \/ \E w \in Workers : Doesntwork!BrokenPipe(w)
  BY <1>e, <1>2, <1>4 DEF Doesntwork!ExitProcess, Doesntwork!AddThreadFails,
     Doesntwork!JoinKills, Doesntwork!BrokenPipe, Doesntwork!Joined
<1>5. CASE \/ Doesntwork!AcceptFails \/ Doesntwork!CreateFails
           \/ Doesntwork!AddThread \/ Doesntwork!ReadHead
           \/ Doesntwork!JoinNext \/ Doesntwork!Signal
           \/ Doesntwork!CleanupAll
           \/ Doesntwork!StamperStep \/ Doesntwork!StampOpenFails
           \/ (\E c \in Conns : Doesntwork!Accept(c))
           \/ (\E w \in Workers : Doesntwork!Create(w))
  BY <1>1, <1>5 DEF Doesntwork!AcceptFails, Doesntwork!CreateFails,
     Doesntwork!AddThread, Doesntwork!ReadHead, Doesntwork!JoinNext,
     Doesntwork!Joined, Doesntwork!CleanupAll, Doesntwork!Signal,
     Doesntwork!StamperStep,
     Doesntwork!AppendTimestamp, Doesntwork!UnlockAgain,
     Doesntwork!WakeStamper, Doesntwork!EndStamper,
     Doesntwork!StampOpenFails, Doesntwork!Accept, Doesntwork!Create
<1>6. CASE \E w \in Workers : Doesntwork!WorkerStep(w)
  BY <1>1, <1>6 DEF Doesntwork!WorkerStep, Doesntwork!Lock, Doesntwork!Recv,
     Doesntwork!RecvEnds, Doesntwork!OpenToReadFails, Doesntwork!SendChunk,
     Doesntwork!SendEnds, Doesntwork!CloseClient
<1> QED
  BY <1>3, <1>4, <1>5, <1>6 DEF Doesntwork!Next, Doesntwork!MainStep

-----------------------------------------------------------------------------
(* assign3 serves one session after the other.                             *)

LEMMA SessionTexts ==
  ASSUME ServerTypes
  PROVE  /\ session.left \in File /\ session.taken \in Input
         /\ session.written \in Input
         /\ session.replied \in File /\ Whole \in File
BY InputIsFile DEF ServerTypes, Sessions, Whole, File

LEMMA MainOpens ==
  ASSUME ServerTypes, MainTypes, MainKeeps, MainReplies, Assign3!Open
  PROVE  MainKeeps' /\ MainReplies'
<1> USE DEF Assign3!UpAt, Assign3!network, Assign3!life
<1>1. /\ at = "open" /\ at' = "recv" /\ orphan = NULL /\ pos = 0
      /\ file' = Content /\ session' = [NoSession EXCEPT !.left = Content]
      /\ UNCHANGED <<run, fds, clientfd, orphan, pos>>
  BY SameContent DEF Assign3!Open, MainKeeps, NoSession, Assign3!NoSession
<1>2. Content \in File /\ Content # NULL
  BY ContentType, NullIsNoFile
<1>3. Assign3!Stream' = Content
  BY <1>1, <1>2 DEF Assign3!Stream, Assign3!Content
<1>4. /\ session'.left = Content /\ session'.taken = <<>>
      /\ session'.written = <<>> /\ session'.replied = <<>>
  BY <1>1 DEF NoSession
<1>5. Whole' = Content
  BY <1>2, <1>4, ConcatEmptySeq DEF Whole, File
<1>6. run => Conn(clientfd)' # NULL
  BY <1>1 DEF MainReplies, Conn
<1> QED
  BY <1>1, <1>3, <1>4, <1>5, <1>6 DEF MainKeeps, MainReplies

LEMMA MainReceives ==
  ASSUME ServerTypes, MainTypes, MainKeeps, MainReplies, Assign3!Recv
  PROVE  MainKeeps' /\ MainReplies'
<1> DEFINE c == Conn(clientfd)
           got == Chunk(inbox[c], 0)
<1>1. /\ at = "recv" /\ at' \in {"recv", "reply"} /\ c # NULL
      /\ UNCHANGED <<run, fds, clientfd, orphan, pos>>
      /\ \E m \in 0 .. Len(got) : Writes(got, SubSeq(got, 1, m))
  BY SameConn, SameChunk, SameWrites
     DEF Assign3!Recv, Assign3!UpAt, Assign3!life, Assign3!port
<1>2. orphan = NULL /\ pos = 0 /\ Content = Whole
  BY <1>1, SameContent DEF MainKeeps, Assign3!Stream
<1>3. c \in Conns
  BY <1>1 DEF Conn, ServerTypes, MainTypes, Number
<1>4. got \in Input
  BY <1>3, InboxTypes
<1> HIDE DEF got
<1>5. Conn(clientfd)' # NULL
  BY <1>1 DEF Conn
<1> HIDE DEF c
<1>6. PICK t \in Input :
        /\ file' = Content \o t
        /\ session'.left = session.left
        /\ session'.replied = session.replied
        /\ session'.written = session.written \o t
  BY <1>1, <1>4, WritesAre
<1>7. Whole' = Whole \o t /\ Content \o t \in File
  <2>1. session.left \in File /\ session.written \in File /\ t \in File
    BY SessionTexts, InputIsFile
  <2>2. session.left \o (session.written \o t)
          = (session.left \o session.written) \o t
    BY <2>1, JoinFiles
  <2>3. Content \o t \in File
    BY <2>1, ContentType DEF File
  <2> QED
    BY <1>6, <2>2, <2>3 DEF Whole
<1>8. Assign3!Stream' = Content \o t
  BY <1>1, <1>2, <1>6, <1>7, NullIsNoFile DEF Assign3!Stream, Assign3!Content
<1>9. run => session'.replied = <<>>
  BY <1>1, <1>6 DEF MainReplies
<1>10. Whole' \in File /\ 0 <= Len(Whole') /\ SubSeq(Whole', 1, 0) = <<>>
  <2>1. Whole' \in File
    BY <1>2, <1>7
  <2> QED
    BY <2>1, SubSeqEmpty DEF File
<1> QED
  BY <1>1, <1>2, <1>5, <1>7, <1>8, <1>9, <1>10 DEF MainKeeps, MainReplies

LEMMA MainStopsReceiving ==
  ASSUME ServerTypes, MainTypes, MainKeeps, MainReplies, Assign3!RecvEnds
  PROVE  MainKeeps' /\ MainReplies'
<1>1. /\ at = "recv" /\ at' = "reply"
      /\ UNCHANGED <<run, fds, file, session, clientfd, orphan, pos>>
  BY DEF Assign3!RecvEnds, Assign3!UpAt, Assign3!life, Assign3!data,
     Assign3!network
<1>2. Assign3!Stream' = Assign3!Stream /\ Whole' = Whole
      /\ Conn(clientfd)' = Conn(clientfd)
  BY <1>1 DEF Assign3!Stream, Assign3!Content, Whole, Conn
<1>3. Whole \in File /\ 0 <= Len(Whole) /\ SubSeq(Whole, 1, 0) = <<>>
  BY SessionTexts, SubSeqEmpty DEF File
<1> QED
  BY <1>1, <1>2, <1>3 DEF MainKeeps, MainReplies

LEMMA MainSends ==
  ASSUME ServerTypes, MainTypes, MainKeeps, MainReplies, Assign3!Reply
  PROVE  MainKeeps' /\ MainReplies'
<1> DEFINE got == Chunk(Assign3!Stream, pos)
<1>1. /\ at = "reply" /\ at' = "reply" /\ pos' = pos + Len(got)
      /\ Sends(got, clientfd)
      /\ UNCHANGED <<run, fds, file, clientfd, orphan>>
  BY SameChunk, SameSends
     DEF Assign3!Reply, Assign3!UpAt, Assign3!life, Assign3!network
<1>2. Assign3!Stream = Whole /\ Whole \in File
  BY <1>1, SessionTexts DEF MainKeeps
<1>9. got \in File
  BY <1>2, ChunkIs DEF File, MainTypes
<1> HIDE DEF got
<1>3. /\ session'.left = session.left /\ session'.written = session.written
      /\ Conn(clientfd) # NULL /\ "send" \notin session'.short
           => /\ "send" \notin session.short
              /\ session'.replied = session.replied \o got
  BY <1>1, <1>9, SendsAre
<1>4. /\ Assign3!Stream' = Assign3!Stream /\ Whole' = Whole
      /\ Conn(clientfd)' = Conn(clientfd)
  BY <1>1, <1>3 DEF Assign3!Stream, Assign3!Content, Whole, Conn
<1>5. MainKeeps'
  BY <1>1, <1>2, <1>4 DEF MainKeeps
<1>6. ASSUME run
      PROVE  /\ pos' <= Len(Whole)
             /\ "send" \notin session'.short
                  => session'.replied = SubSeq(Whole, 1, pos')
  <2>1. /\ Conn(clientfd) # NULL /\ pos <= Len(Whole)
        /\ "send" \notin session.short
             => session.replied = SubSeq(Whole, 1, pos)
    BY <1>1, <1>6 DEF MainReplies
  <2>2. "send" \notin session'.short
          => /\ "send" \notin session.short
             /\ session'.replied = session.replied \o got
    BY <1>3, <2>1
  <2>3. /\ pos + Len(got) <= Len(Whole)
        /\ SubSeq(Whole, 1, pos) \o got = SubSeq(Whole, 1, pos + Len(got))
    BY <1>2, <2>1, ChunkIs DEF got, File, MainTypes
  <2> QED
    BY <1>1, <2>1, <2>2, <2>3, Zenon
<1> QED
  BY <1>1, <1>4, <1>5, <1>6 DEF MainReplies

LEMMA MainHandlesSignal ==
  ASSUME ServerTypes, MainTypes, MainKeeps, Assign3!Signal
  PROVE  MainKeeps' /\ MainReplies'
<1>1. /\ ~run' /\ at # "blocked"
      /\ file' \in {NULL, file} /\ (file' = NULL \/ kept')
      /\ orphan' = IF at \in {"recv", "reply"} /\ file' = NULL
                   THEN Assign3!Stream ELSE NULL
      /\ UNCHANGED <<session, at, clientfd, pos>>
  BY DEF Assign3!Signal, Assign3!RemoveFile
<1>2. Conn(clientfd)' = NULL
  <2>1. Close(clientfd)
    BY SameClose DEF Assign3!Signal
  <2> QED
    BY <1>1, <2>1 DEF Close, Conn, NoFd, MainTypes, Number
<1>3. Assign3!Stream # NULL
  BY StreamType, NullIsNoFile
<1>4. at \in {"recv", "reply"} => Assign3!Stream' = Assign3!Stream
  <2> SUFFICES ASSUME at \in {"recv", "reply"}
               PROVE  Assign3!Stream' = Assign3!Stream
    OBVIOUS
  <2>1. CASE file' = NULL
    <3>1. orphan' = Assign3!Stream
      BY <1>1, <2>1
    <3>2. Assign3!Stream' = orphan'
      BY <1>3, <3>1 DEF Assign3!Stream
    <3> QED
      BY <3>1, <3>2
  <2>2. CASE file' # NULL
    <3>1. orphan = NULL /\ orphan' = NULL /\ file' = file
      BY <1>1, <2>2 DEF MainKeeps
    <3> QED
      BY <3>1 DEF Assign3!Stream, Assign3!Content
  <2> QED
    BY <2>1, <2>2
<1>5. Whole' = Whole
  BY <1>1 DEF Whole
<1> QED
  BY <1>1, <1>2, <1>4, <1>5 DEF MainKeeps, MainReplies

LEMMA MainSteps ==
  ASSUME ServerTypes, MainTypes, OneProcess, MainKeeps, MainReplies,
         Assign3!Next
  PROVE  MainKeeps' /\ MainReplies'
<1> USE DEF Assign3!UpAt, Assign3!mainVars, Assign3!serverVars, Assign3!life,
            Assign3!data, Assign3!peers, Assign3!port, Assign3!network,
            Assign3!NoFd
<1>1. CASE Assign3!StartAssign3 \/ Assign3!StartAssign3Fails
  <2>1. /\ process # "assign3" /\ run' = TRUE
        /\ UNCHANGED <<at, returned, clientfd, orphan, pos>>
    BY <1>1 DEF Assign3!StartAssign3, Assign3!Starts,
       Assign3!StartAssign3Fails, Assign3!StartFails, Assign3!Up,
       Assign3!Programs
  <2>2. Assign3!MainInit
    BY <2>1 DEF OneProcess
  <2>3. at' = "accept" /\ orphan' = NULL /\ pos' = 0
    BY <2>1, <2>2 DEF Assign3!MainInit
  <2> QED
    BY <2>1, <2>3 DEF MainKeeps, MainReplies
<1>2. ASSUME NEW status \in {"success", "failure", "killed"},
             Assign3!MainEnds(status)
      PROVE  MainKeeps' /\ MainReplies'
  <2>1. /\ at' = "accept" /\ orphan' = NULL /\ pos' = 0
        /\ process' # "assign3"
    BY <1>2 DEF Assign3!MainEnds, Assign3!Exit
  <2> QED
    BY <2>1 DEF MainKeeps, MainReplies
<1>3. ASSUME NEW c \in Conns, Assign3!Accept(c)
      PROVE  MainKeeps' /\ MainReplies'
  <2>1. /\ at = "accept" /\ at' = "accepted" /\ process = "assign3"
        /\ UNCHANGED <<process, run, kept, file, clientfd, orphan, pos>>
    BY <1>3 DEF Assign3!Accept
  <2>2. Conn(returned)' = c
    <3>1. PICK fd \in Fd : Accepts(c, fd) /\ returned' = fd
      BY <1>3, SameFd, SameAccepts DEF Assign3!Accept
    <3>2. fds'[fd] = c
      BY <3>1 DEF Accepts, ServerTypes
    <3>3. fd # NoFd
      BY <3>1, DataFileAssumption, FS_CardinalityType DEF Fd, NoFd
    <3> QED
      BY <3>1, <3>2, <3>3 DEF Conn
  <2>3. c # NULL
    BY DataFileAssumption
  <2> QED
    BY <2>1, <2>2, <2>3 DEF MainKeeps, MainReplies
<1>4. CASE Assign3!StoreClientfd
  <2>1. /\ at = "accepted" /\ at' = "open" /\ clientfd' = returned
        /\ process = "assign3"
        /\ UNCHANGED <<process, run, kept, file, fds, orphan, pos>>
    BY <1>4 DEF Assign3!StoreClientfd
  <2>2. Conn(clientfd)' = Conn(returned)
    BY <2>1 DEF Conn
  <2> QED
    BY <2>1, <2>2 DEF MainKeeps, MainReplies
<1>5. CASE Assign3!ReplyEnds
  <2>1. /\ orphan' = NULL /\ pos' = 0 /\ run' = run
        /\ at' = IF run THEN "accept" ELSE "cleanup"
    BY <1>5 DEF Assign3!ReplyEnds
  <2> QED
    BY <2>1 DEF MainKeeps, MainReplies
<1>6. CASE Assign3!HandlerBlocks
  <2>1. /\ at' = "blocked"
        /\ UNCHANGED <<file, fds, clientfd, orphan, pos>>
    BY <1>6 DEF Assign3!HandlerBlocks
  <2>2. Conn(clientfd)' = Conn(clientfd)
    BY <2>1 DEF Conn
  <2> QED
    BY <2>1, <2>2 DEF MainKeeps, MainReplies
<1> QED
  BY <1>1, <1>2, <1>3, <1>4, <1>5, <1>6, MainOpens, MainReceives,
     MainStopsReceiving, MainSends, MainHandlesSignal
     DEF Assign3!Next, Assign3!MainStep, Assign3!AcceptFails,
         Assign3!Cleanup, Assign3!OpenFails, Assign3!BrokenPipe

-----------------------------------------------------------------------------
(* A session writes what it took, or the write fell short.                 *)
LEMMA WroteAll ==
  ASSUME ServerTypes, WritesAll, NEW got \in Input, NEW m \in 0 .. Len(got),
         Writes(got, SubSeq(got, 1, m))
  PROVE  WritesAll'
BY WritesAre DEF WritesAll

LEMMA SentAll ==
  ASSUME ServerTypes, WritesAll, NEW got \in File, NEW fd, Sends(got, fd)
  PROVE  WritesAll'
BY SendsAre DEF WritesAll

LEMMA BeganAll ==
  ASSUME WritesAll,
         session' \in {session, NoSession, [NoSession EXCEPT !.left = Content]}
  PROVE  WritesAll'
BY DEF WritesAll, NoSession

LEMMA MainWritesAll ==
  ASSUME ServerTypes, MainTypes, WritesAll, Assign3!Next
  PROVE  WritesAll'
<1> USE DEF Assign3!serverVars, Assign3!data
<1>1. CASE Assign3!Recv
  <2> DEFINE c == Conn(clientfd)
             got == Chunk(inbox[c], 0)
  <2>1. c \in Conns
    BY <1>1, SameConn DEF Assign3!Recv, Conn, ServerTypes, MainTypes, Number
  <2>2. got \in Input
    BY <2>1, InboxTypes
  <2>3. PICK m \in 0 .. Len(got) : Writes(got, SubSeq(got, 1, m))
    BY <1>1, SameConn, SameChunk, SameWrites DEF Assign3!Recv
  <2> HIDE DEF got
  <2> QED
    BY <2>2, <2>3, WroteAll
<1>2. CASE Assign3!Reply
  <2> DEFINE got == Chunk(Assign3!Stream, pos)
  <2>1. got \in File
    BY StreamType, ChunkIs DEF File, MainTypes
  <2>2. Sends(got, clientfd)
    BY <1>2, SameChunk, SameSends DEF Assign3!Reply
  <2> HIDE DEF got
  <2> QED
    BY <2>1, <2>2, SentAll
<1>3. ASSUME NEW status, Assign3!MainEnds(status) PROVE WritesAll'
  <2>1. session' = NoSession
    BY <1>3, SameNoSession DEF Assign3!MainEnds, Assign3!Exit
  <2> QED
    BY <2>1, BeganAll
<1>4. CASE \/ Assign3!StartAssign3 \/ Assign3!StartAssign3Fails
           \/ Assign3!StoreClientfd \/ Assign3!Open \/ Assign3!RecvEnds
           \/ Assign3!ReplyEnds \/ Assign3!Signal \/ Assign3!HandlerBlocks
           \/ (\E c \in Conns : Assign3!Accept(c))
  <2>1. session' \in {session, NoSession, [NoSession EXCEPT !.left = Content]}
    BY <1>4, SameNoSession, SameContent
       DEF Assign3!StartAssign3, Assign3!Starts, Assign3!StartAssign3Fails,
           Assign3!StartFails, Assign3!StoreClientfd, Assign3!Open,
           Assign3!RecvEnds, Assign3!ReplyEnds, Assign3!Signal,
           Assign3!HandlerBlocks, Assign3!Accept
  <2> QED
    BY <2>1, BeganAll
<1> QED
  BY <1>1, <1>2, <1>3, <1>4
     DEF Assign3!Next, Assign3!MainStep, Assign3!AcceptFails,
         Assign3!Cleanup, Assign3!OpenFails, Assign3!BrokenPipe

-----------------------------------------------------------------------------
(* doesntwork: what cleanup_all leaves to the exit that follows it.        *)
LEMMA CleanedUp ==
  ASSUME Doesntwork!CleanupAll
  PROVE  /\ process = "doesntwork" /\ process' = process
         /\ main \in {"join_threads", "join"}
         /\ main' \in {"destroyed", "exit"}
         /\ ~spoiled' => ~spoiled /\ \A t \in Threads : pc[t] = "over"
         /\ ~kept' => file' = NULL /\ \A t \in Threads : pc[t] = "over"
         /\ UNCHANGED <<peer, run, session, fds, accepted, current, mutex, pc,
                        socket, offset, list, stamps>>
<1> DEFINE L == \E t \in Threads : pc[t] # "over"
<1>1. /\ spoiled' = (spoiled \/ L)
      /\ kept' = (file' # NULL \/ L)
  BY DEF Doesntwork!CleanupAll, Doesntwork!Threads, Threads
<1>2. ~L => \A t \in Threads : pc[t] = "over"
  OBVIOUS
<1>3. /\ process = "doesntwork" /\ process' = process
      /\ main \in {"join_threads", "join"}
      /\ main' \in {"destroyed", "exit"}
      /\ UNCHANGED <<peer, run, session, fds, accepted, current, mutex, pc,
                     socket, offset, list, stamps>>
  BY DEF Doesntwork!CleanupAll, Doesntwork!Joined, Doesntwork!UpAt,
     Doesntwork!peers, Doesntwork!threadVars, Doesntwork!pool
<1> HIDE DEF L
<1> QED
  BY <1>1, <1>2, <1>3

(* Nobody takes a destroyed mutex who was waited for.                      *)
LEMMA LockIsFree ==
  ASSUME Quiet, NEW t \in Threads, pc[t] = "lock", Doesntwork!Unlocked
  PROVE  ~spoiled => mutex = NULL
BY DEF Quiet, Leaving, Doesntwork!Unlocked

(* What no thread has begun.                                               *)
LEMMA ThreadsRest ==
  ASSUME Doesntwork!ThreadsInit
  PROVE  Follows /\ MutexHeld /\ SocketsOwned /\ SessionHeld /\ Quiet
<1>1. /\ main = "accept" /\ accepted = NoFd
      /\ \A t \in Threads : pc[t] = "over"
  BY DEF Doesntwork!ThreadsInit, Doesntwork!Threads, Threads, NoFd,
     Doesntwork!NoFd
<1> QED
  BY <1>1 DEF Follows, MutexHeld, SocketsOwned, SessionHeld, Serving, Threads,
     Quiet, Leaving

LEMMA ThreadsQuiet ==
  ASSUME OneProcess, Quiet, Doesntwork!Next
  PROVE  Quiet'
<1> USE DEF Doesntwork!life, Doesntwork!data, Doesntwork!serverVars,
            Doesntwork!mainVars, Doesntwork!rest, Doesntwork!UpAt,
            Doesntwork!At, Doesntwork!NextRound
<1>1. ASSUME ~Leaving' PROVE Quiet'
  BY <1>1 DEF Quiet
<1>2. ASSUME NEW status, Doesntwork!ThreadsEnd(status) PROVE Quiet'
  BY <1>1, <1>2 DEF Doesntwork!ThreadsEnd, Leaving
<1>3. CASE Doesntwork!StartDoesntwork \/ Doesntwork!StartDoesntworkFails
  <2>1. process # "doesntwork" /\ main' = main
    BY <1>3 DEF Doesntwork!StartDoesntwork, Doesntwork!StartDoesntworkFails,
       Doesntwork!Starts, Doesntwork!StartFails, Doesntwork!Up,
       Doesntwork!Programs, Doesntwork!dwVars
  <2>2. main' = "accept"
    BY <2>1 DEF OneProcess, Doesntwork!ThreadsInit
  <2> QED
    BY <1>1, <2>2 DEF Leaving
<1>4. CASE \/ Doesntwork!AcceptFails \/ Doesntwork!CreateFails
           \/ Doesntwork!AddThread \/ Doesntwork!ReadHead
           \/ Doesntwork!JoinNext
           \/ (\E c \in Conns : Doesntwork!Accept(c))
           \/ (\E w \in Workers : Doesntwork!Create(w))
  <2>1. main' \in {"accept", "create", "add", "join_threads", "join"}
    BY <1>4 DEF Doesntwork!AcceptFails, Doesntwork!CreateFails,
       Doesntwork!AddThread, Doesntwork!ReadHead, Doesntwork!JoinNext,
       Doesntwork!Joined, Doesntwork!Accept, Doesntwork!Create
  <2> QED
    BY <1>1, <2>1 DEF Leaving
<1>5. CASE Doesntwork!CleanupAll
  BY <1>5, CleanedUp DEF Quiet
<1>6. CASE Doesntwork!Signal
  <2>1. /\ main' = "create" \/ main' = main
        /\ UNCHANGED <<pc, file, kept, spoiled>>
    BY <1>6 DEF Doesntwork!Signal, Doesntwork!threadVars
  <2> QED
    BY <2>1 DEF Quiet, Leaving
<1>7. ASSUME NEW t \in Threads, pc[t] # "over", spoiled => spoiled',
             UNCHANGED <<main, kept>>
      PROVE  Quiet'
  BY <1>7 DEF Quiet, Leaving
<1>8. CASE Doesntwork!StamperStep \/ Doesntwork!StampOpenFails
  <2>1. pc[Stamper] # "over" /\ (spoiled => spoiled') /\ UNCHANGED <<main, kept>>
    BY <1>8 DEF Doesntwork!StamperStep, Doesntwork!AppendTimestamp,
       Doesntwork!StampOpenFails, Doesntwork!UnlockAgain,
       Doesntwork!WakeStamper, Doesntwork!EndStamper
  <2> QED
    BY <1>7, <2>1 DEF Threads
<1>9. ASSUME NEW w \in Workers, Doesntwork!WorkerStep(w) PROVE Quiet'
  <2>1. pc[w] # "over" /\ UNCHANGED <<main, kept>>
    BY <1>9 DEF Doesntwork!WorkerStep, Doesntwork!Lock, Doesntwork!Recv,
       Doesntwork!RecvEnds, Doesntwork!OpenToReadFails,
       Doesntwork!SendChunk, Doesntwork!SendEnds, Doesntwork!CloseClient
  <2>2. spoiled => spoiled'
    BY <1>9 DEF Doesntwork!WorkerStep, Doesntwork!Lock, Doesntwork!Recv,
       Doesntwork!RecvEnds, Doesntwork!OpenToReadFails,
       Doesntwork!SendChunk, Doesntwork!SendEnds, Doesntwork!CloseClient
  <2> QED
    BY <1>7, <2>1, <2>2 DEF Threads
<1> QED
  BY <1>2, <1>3, <1>4, <1>5, <1>6, <1>8, <1>9
     DEF Doesntwork!Next, Doesntwork!MainStep, Doesntwork!ExitProcess,
         Doesntwork!AddThreadFails, Doesntwork!JoinKills,
         Doesntwork!BrokenPipe

LEMMA ThreadWritesAll ==
  ASSUME ServerTypes, ThreadTypes, WritesAll, Doesntwork!Next
  PROVE  WritesAll'
<1> USE DEF Doesntwork!serverVars, Doesntwork!data
<1>1. ASSUME NEW w \in Workers, Doesntwork!Recv(w) PROVE WritesAll'
  <2> DEFINE c == Conn(socket[w])
             got == Chunk(inbox[c], 0)
  <2>1. c \in Conns
    BY <1>1, SameConn DEF Doesntwork!Recv, Conn, ServerTypes, ThreadTypes, Number
  <2>2. got \in Input /\ Len(got) \in Nat
    BY <2>1, InboxTypes DEF Input
  <2>3. \/ Writes(got, got)
        \/ session' = [session EXCEPT !.taken = @ \o got,
                                      !.short = @ \cup {"write"}]
    BY <1>1, SameConn, SameChunk, SameWrites DEF Doesntwork!Recv
  <2> HIDE DEF got
  <2>4. got = SubSeq(got, 1, Len(got)) /\ Len(got) \in 0 .. Len(got)
    BY <2>2 DEF Input
  <2>5. CASE Writes(got, got)
    BY <2>2, <2>4, <2>5, WroteAll
  <2>6. CASE session' = [session EXCEPT !.taken = @ \o got,
                                        !.short = @ \cup {"write"}]
    <3>1. session'.short = session.short \cup {"write"}
      BY <2>6 DEF ServerTypes, Sessions
    <3> QED
      BY <3>1 DEF WritesAll
  <2> QED
    BY <2>3, <2>5, <2>6
<1>2. ASSUME NEW w \in Workers, Doesntwork!SendChunk(w) PROVE WritesAll'
  <2> DEFINE got == Chunk(Content, offset[w])
  <2>1. got \in File
    BY ContentType, ChunkIs DEF File, ThreadTypes
  <2>2. Sends(got, socket[w])
    BY <1>2, SameChunk, SameContent, SameSends DEF Doesntwork!SendChunk
  <2> HIDE DEF got
  <2> QED
    BY <2>1, <2>2, SentAll
<1>3. ASSUME NEW status, Doesntwork!ThreadsEnd(status) PROVE WritesAll'
  <2>1. session' = NoSession
    BY <1>3, SameNoSession DEF Doesntwork!ThreadsEnd, Doesntwork!Exit
  <2> QED
    BY <2>1, BeganAll
<1>4. CASE \/ Doesntwork!StartDoesntwork \/ Doesntwork!StartDoesntworkFails
           \/ Doesntwork!AcceptFails \/ Doesntwork!CreateFails
           \/ Doesntwork!AddThread \/ Doesntwork!ReadHead
           \/ Doesntwork!JoinNext \/ Doesntwork!CleanupAll
           \/ Doesntwork!Signal
           \/ Doesntwork!StamperStep \/ Doesntwork!StampOpenFails
           \/ (\E c \in Conns : Doesntwork!Accept(c))
           \/ (\E w \in Workers : Doesntwork!Create(w))
  <2>1. session' = session
    BY <1>4 DEF Doesntwork!StartDoesntwork, Doesntwork!Starts,
       Doesntwork!StartDoesntworkFails, Doesntwork!StartFails,
       Doesntwork!AcceptFails, Doesntwork!CreateFails, Doesntwork!AddThread,
       Doesntwork!ReadHead, Doesntwork!JoinNext, Doesntwork!CleanupAll,
       Doesntwork!Signal, Doesntwork!StamperStep,
       Doesntwork!AppendTimestamp, Doesntwork!UnlockAgain,
       Doesntwork!WakeStamper, Doesntwork!EndStamper,
       Doesntwork!StampOpenFails, Doesntwork!Accept, Doesntwork!Create
  <2> QED
    BY <2>1, BeganAll
<1>5. ASSUME NEW w \in Workers,
             \/ Doesntwork!Lock(w) \/ Doesntwork!RecvEnds(w)
             \/ Doesntwork!OpenToReadFails(w) \/ Doesntwork!SendEnds(w)
             \/ Doesntwork!CloseClient(w)
      PROVE  WritesAll'
  <2>1. session' \in {session, NoSession, [NoSession EXCEPT !.left = Content]}
    BY <1>5, SameNoSession, SameContent
       DEF Doesntwork!Lock, Doesntwork!RecvEnds, Doesntwork!OpenToReadFails,
           Doesntwork!SendEnds, Doesntwork!CloseClient
  <2> QED
    BY <2>1, BeganAll
<1> QED
  BY <1>1, <1>2, <1>3, <1>4, <1>5
     DEF Doesntwork!Next, Doesntwork!MainStep, Doesntwork!WorkerStep,
         Doesntwork!ExitProcess, Doesntwork!AddThreadFails,
         Doesntwork!JoinKills, Doesntwork!BrokenPipe

LEMMA ThreadFollows ==
  ASSUME ThreadTypes, OneProcess, Follows, Doesntwork!Next
  PROVE  Follows'
<1> USE EarlierAssumption
    DEF ThreadTypes, Threads, Follows, Doesntwork!serverVars,
        Doesntwork!dwVars, Doesntwork!mainVars, Doesntwork!threadVars,
        Doesntwork!pool, Doesntwork!rest, Doesntwork!UpAt, Doesntwork!At,
        Doesntwork!Goto, Doesntwork!NextRound
<1>1. CASE Doesntwork!StartDoesntwork
  <2>1. /\ main = "accept" /\ main' = main /\ stamps = 0 /\ stamps' = stamps
    BY <1>1 DEF Doesntwork!StartDoesntwork, Doesntwork!Starts, Doesntwork!Up,
       Doesntwork!Programs, OneProcess, Doesntwork!ThreadsInit
  <2> QED
    BY <2>1
<1>2. CASE Doesntwork!StartDoesntworkFails
  BY <1>2 DEF Doesntwork!StartDoesntworkFails
<1>3. ASSUME NEW status, Doesntwork!ThreadsEnd(status) PROVE Follows'
  BY <1>3 DEF Doesntwork!ThreadsEnd, Doesntwork!Threads
<1>4. ASSUME NEW c \in Conns, Doesntwork!Accept(c) PROVE Follows'
  BY <1>4 DEF Doesntwork!Accept
<1>5. CASE Doesntwork!AcceptFails
  BY <1>5 DEF Doesntwork!AcceptFails
<1>6. ASSUME NEW w \in Workers, Doesntwork!Create(w) PROVE Follows'
  BY <1>6 DEF Doesntwork!Create
<1>7. CASE Doesntwork!CreateFails
  BY <1>7 DEF Doesntwork!CreateFails
<1>8. CASE Doesntwork!AddThread
  BY <1>8 DEF Doesntwork!AddThread
<1>9. CASE Doesntwork!ReadHead
  BY <1>9 DEF Doesntwork!ReadHead
<1>10. CASE Doesntwork!JoinNext
  <2>1. list' \in Seq(Threads) /\ list' # <<>>
    BY <1>10, RemoveTypes DEF Doesntwork!JoinNext
  <2>2. Head(list') \in Threads
    BY <2>1
  <2> QED
    BY <1>10, <2>2 DEF Doesntwork!JoinNext, Doesntwork!Joined
<1>11. CASE Doesntwork!Signal
  BY <1>11 DEF Doesntwork!Signal
<1>15. CASE Doesntwork!CleanupAll
  BY <1>15, CleanedUp
<1>12. CASE \/ Doesntwork!AppendTimestamp \/ Doesntwork!StampOpenFails
            \/ Doesntwork!UnlockAgain \/ Doesntwork!EndStamper
  BY <1>12 DEF Doesntwork!AppendTimestamp, Doesntwork!StampOpenFails,
     Doesntwork!UnlockAgain, Doesntwork!EndStamper, Doesntwork!EndThread
<1>13. CASE Doesntwork!WakeStamper
  BY <1>13 DEF Doesntwork!WakeStamper
<1>14. ASSUME NEW w \in Workers, Doesntwork!WorkerStep(w) PROVE Follows'
  <2>1. /\ UNCHANGED <<main, current, stamps>>
        /\ pc'[Stamper] = pc[Stamper]
    BY <1>14 DEF Doesntwork!WorkerStep, Doesntwork!Lock, Doesntwork!Recv,
       Doesntwork!RecvEnds, Doesntwork!OpenToReadFails,
       Doesntwork!SendChunk, Doesntwork!SendEnds, Doesntwork!CloseClient,
       Doesntwork!EndThread
  <2> QED
    BY <2>1
<1> QED
  BY <1>1, <1>2, <1>3, <1>4, <1>5, <1>6, <1>7, <1>8, <1>9, <1>10, <1>11,
     <1>12, <1>13, <1>14, <1>15
     DEF Doesntwork!Next, Doesntwork!MainStep, Doesntwork!StamperStep,
         Doesntwork!ExitProcess, Doesntwork!AddThreadFails,
         Doesntwork!JoinKills, Doesntwork!BrokenPipe

(* file_mutex is taken before a session and released after it.             *)
LEMMA ThreadMutex ==
  ASSUME ThreadTypes, OneProcess, MutexHeld, Quiet, Doesntwork!Next
  PROVE  MutexHeld'
<1> USE EarlierAssumption
    DEF ThreadTypes, Threads, Doesntwork!serverVars, Doesntwork!dwVars,
        Doesntwork!mainVars, Doesntwork!threadVars, Doesntwork!pool,
        Doesntwork!rest, Doesntwork!UpAt, Doesntwork!At, Doesntwork!Goto
<1>1. CASE Doesntwork!StartDoesntwork
  <2>1. UNCHANGED <<mutex, spoiled>> /\ pc'[Stamper] # "unlock"
        /\ \A w \in Workers : pc'[w] = pc[w]
    BY <1>1 DEF Doesntwork!StartDoesntwork, Doesntwork!Starts, Doesntwork!Up,
       Doesntwork!Programs, OneProcess, Doesntwork!ThreadsInit,
       Doesntwork!Threads
  <2> QED
    BY <2>1 DEF MutexHeld
<1>2. ASSUME NEW status, Doesntwork!ThreadsEnd(status) PROVE MutexHeld'
  BY <1>2 DEF Doesntwork!ThreadsEnd, Doesntwork!Threads, MutexHeld
<1>3. CASE UNCHANGED <<mutex, spoiled, pc>>
  BY <1>3 DEF MutexHeld
<1>4. CASE \/ Doesntwork!StartDoesntworkFails \/ Doesntwork!AcceptFails
           \/ Doesntwork!CreateFails \/ Doesntwork!AddThread
           \/ Doesntwork!ReadHead \/ Doesntwork!JoinNext
           \/ Doesntwork!Signal
           \/ (\E c \in Conns : Doesntwork!Accept(c))
           \/ (\E w \in Workers : Doesntwork!SendChunk(w))
  BY <1>3, <1>4 DEF Doesntwork!StartDoesntworkFails, Doesntwork!AcceptFails,
     Doesntwork!CreateFails, Doesntwork!AddThread, Doesntwork!ReadHead,
     Doesntwork!JoinNext, Doesntwork!Signal, Doesntwork!Accept,
     Doesntwork!SendChunk
<1>5. ASSUME NEW w \in Workers, Doesntwork!Create(w) PROVE MutexHeld'
  BY <1>5 DEF Doesntwork!Create, MutexHeld
<1>6. ASSUME NEW w \in Workers, Doesntwork!Lock(w) PROVE MutexHeld'
  <2>1. ~spoiled => mutex = NULL
    BY <1>6, LockIsFree DEF Doesntwork!Lock
  <2>2. /\ mutex' = w /\ pc' = [pc EXCEPT ![w] = "recv"]
        /\ UNCHANGED spoiled
    BY <1>6 DEF Doesntwork!Lock
  <2> QED
    BY <2>1, <2>2 DEF MutexHeld
<1>10. CASE Doesntwork!CleanupAll
  BY <1>10, CleanedUp DEF MutexHeld
<1>7. ASSUME NEW w \in Workers, Doesntwork!Recv(w) PROVE MutexHeld'
  <2>1. pc[w] = "recv"
    BY <1>7 DEF Doesntwork!Recv
  <2>2. UNCHANGED mutex
    BY <1>7 DEF Doesntwork!Recv
  <2>3. ~spoiled' => ~spoiled
    BY <1>7 DEF Doesntwork!Recv
  <2>4. \A t \in Threads : t # w => pc'[t] = pc[t]
    BY <1>7 DEF Doesntwork!Recv
  <2> QED
    BY <2>1, <2>2, <2>3, <2>4 DEF MutexHeld
<1>8. ASSUME NEW w \in Workers,
             \/ Doesntwork!RecvEnds(w) \/ Doesntwork!CloseClient(w)
             \/ Doesntwork!OpenToReadFails(w) \/ Doesntwork!SendEnds(w)
      PROVE  MutexHeld'
  BY <1>8 DEF Doesntwork!RecvEnds, Doesntwork!CloseClient,
     Doesntwork!EndThread, Doesntwork!OpenToReadFails, Doesntwork!SendEnds,
     MutexHeld
<1>9. CASE Doesntwork!StamperStep \/ Doesntwork!StampOpenFails
  BY <1>9 DEF Doesntwork!StamperStep, Doesntwork!AppendTimestamp,
     Doesntwork!StampOpenFails, Doesntwork!UnlockAgain,
     Doesntwork!WakeStamper, Doesntwork!EndStamper, Doesntwork!EndThread,
     MutexHeld
<1> QED
  BY <1>1, <1>2, <1>4, <1>5, <1>6, <1>7, <1>8, <1>9, <1>10
     DEF Doesntwork!Next, Doesntwork!MainStep, Doesntwork!WorkerStep,
         Doesntwork!ExitProcess, Doesntwork!AddThreadFails,
         Doesntwork!JoinKills, Doesntwork!BrokenPipe

-----------------------------------------------------------------------------
(* Whose sockets are open.                                                 *)

(* A step that begins no thread and closes no number that is in use.       *)
LEMMA OwnedRests ==
  ASSUME ThreadTypes, SocketsOwned, ~spoiled' => ~spoiled,
         UNCHANGED accepted, main' # "create" => accepted = NoFd,
         \A w \in Workers : Serving(w)' => Serving(w) /\ socket'[w] = socket[w],
         ~spoiled' =>
           \A n \in Fd :
             n = accepted \/ (\E w \in Workers : Serving(w)' /\ socket[w] = n)
               => fds'[n] = fds[n]
  PROVE  SocketsOwned'
<1>1. main' # "create" => accepted' = NoFd
  OBVIOUS
<1>2. ASSUME ~spoiled', accepted' # NoFd
      PROVE  /\ Conn(accepted)' # NULL
             /\ \A w \in Workers : Serving(w)' => socket'[w] # accepted'
  BY <1>2 DEF SocketsOwned, Conn, ThreadTypes, Number
<1>3. ASSUME ~spoiled', NEW w \in Workers, Serving(w)', socket'[w] # NoFd
      PROVE  Conn(socket[w])' # NULL
  BY <1>3 DEF SocketsOwned, Conn, ThreadTypes, Number
<1>4. ASSUME ~spoiled', NEW v \in Workers, NEW w \in Workers, v # w,
             Serving(v)', Serving(w)', socket'[w] # NoFd
      PROVE  socket'[v] # socket'[w]
  BY <1>4 DEF SocketsOwned
<1> HIDE DEF Serving, Conn
<1> QED
  BY <1>1, <1>2, <1>3, <1>4 DEF SocketsOwned

LEMMA ThreadSockets ==
  ASSUME ServerTypes, ThreadTypes, Numbers, OneProcess, SocketsOwned,
         Doesntwork!Next
  PROVE  SocketsOwned'
<1> USE EarlierAssumption, SameFd, SameConn, SameClose
    DEF Doesntwork!life, Doesntwork!data, Doesntwork!peers, Doesntwork!port,
        Doesntwork!network, Doesntwork!serverVars, Doesntwork!dwVars,
        Doesntwork!mainVars, Doesntwork!threadVars, Doesntwork!pool,
        Doesntwork!rest, Doesntwork!UpAt, Doesntwork!At, Doesntwork!NoFd
<1>0. ASSUME NEW t \in Threads, NEW label, Doesntwork!Goto(t, label)
      PROVE  pc' = [pc EXCEPT ![t] = label]
  BY <1>0 DEF Doesntwork!Goto
<1>1. ASSUME Doesntwork!ThreadsInit' PROVE SocketsOwned'
  <2>1. /\ accepted' = NoFd
        /\ \A w \in Workers : pc'[w] = "over"
    BY <1>1 DEF Doesntwork!ThreadsInit, Doesntwork!Threads, NoFd
  <2> QED
    BY <2>1 DEF SocketsOwned, Serving
<1>2. CASE Doesntwork!StartDoesntwork
  <2>1. /\ accepted' = NoFd
        /\ \A w \in Workers : pc'[w] = "over"
    BY <1>2 DEF Doesntwork!StartDoesntwork, Doesntwork!Starts, Doesntwork!Up,
       Doesntwork!Programs, OneProcess, Doesntwork!ThreadsInit,
       Doesntwork!Threads, Doesntwork!Goto, NoFd
  <2> QED
    BY <2>1 DEF SocketsOwned, Serving
<1>3. ASSUME NEW status, Doesntwork!ThreadsEnd(status) PROVE SocketsOwned'
  BY <1>1, <1>3 DEF Doesntwork!ThreadsEnd, Doesntwork!ThreadsInit
<1>4. ASSUME UNCHANGED <<fds, pc, socket, accepted>>,
             ~spoiled' => ~spoiled,
             main' \in {main, "create"} \/ accepted = NoFd
      PROVE  SocketsOwned'
  <2>1. \A w \in Workers : Serving(w)' => Serving(w) /\ socket'[w] = socket[w]
    BY <1>4 DEF Serving
  <2>2. main' # "create" => accepted = NoFd
    BY <1>4 DEF SocketsOwned
  <2> QED
    BY <1>4, <2>1, <2>2, OwnedRests
<1>5. CASE \/ Doesntwork!StartDoesntworkFails \/ Doesntwork!AcceptFails
           \/ Doesntwork!Signal
           \/ (\E w \in Workers : Doesntwork!SendChunk(w))
  BY <1>4, <1>5 DEF Doesntwork!StartDoesntworkFails, Doesntwork!StartFails,
     Doesntwork!AcceptFails, Doesntwork!Signal, Doesntwork!SendChunk
<1>6. CASE \/ Doesntwork!AddThread \/ Doesntwork!ReadHead
           \/ Doesntwork!JoinNext \/ Doesntwork!CleanupAll
  <2>1. main # "create"
    BY <1>6, CleanedUp DEF Doesntwork!AddThread, Doesntwork!ReadHead,
       Doesntwork!JoinNext, Doesntwork!Joined
  <2>2. UNCHANGED <<fds, pc, socket, accepted>> /\ (~spoiled' => ~spoiled)
    BY <1>6, CleanedUp DEF Doesntwork!AddThread, Doesntwork!ReadHead,
       Doesntwork!JoinNext
  <2> QED
    BY <1>4, <2>1, <2>2 DEF SocketsOwned
<1>7. ASSUME NEW c \in Conns, Doesntwork!Accept(c)
      PROVE  SocketsOwned'
  <2>1. PICK fd \in Fd : Accepts(c, fd) /\ accepted' = fd
    BY <1>7, SameAccepts DEF Doesntwork!Accept
  <2>2. /\ main = "accept" /\ main' = "create"
        /\ UNCHANGED <<pc, socket, spoiled>>
    BY <1>7 DEF Doesntwork!Accept
  <2>3. fds[fd] = NULL /\ fd # NoFd
    BY <2>1, FreeNumber, DataFileAssumption, FS_CardinalityType DEF Fd, NoFd
  <2>4. fds' = [fds EXCEPT ![fd] = c] /\ c # NULL
    BY <2>1, DataFileAssumption DEF Accepts
  <2>5. Conn(accepted)' # NULL
    BY <2>1, <2>3, <2>4 DEF Conn, ServerTypes
  <2>6. ASSUME ~spoiled, NEW w \in Workers, Serving(w)
        PROVE  /\ socket[w] # fd
               /\ socket[w] # NoFd => Conn(socket[w])' # NULL
    <3>1. socket[w] # NoFd => fds[socket[w]] # NULL
      BY <2>6 DEF SocketsOwned, Conn
    <3>2. socket[w] # fd
      BY <2>3, <3>1
    <3>3. socket[w] # NoFd => fds'[socket[w]] # NULL
      BY <2>4, <3>1, <3>2 DEF ServerTypes, ThreadTypes, Number
    <3>4. socket'[w] = socket[w]
      BY <2>2
    <3> QED
      BY <3>2, <3>3, <3>4 DEF Conn
  <2>7. \A w \in Workers : (Serving(w)' <=> Serving(w)) /\ socket'[w] = socket[w]
    BY <2>2 DEF Serving
  <2> HIDE DEF Serving, Conn
  <2> QED
    BY <2>1, <2>2, <2>5, <2>6, <2>7 DEF SocketsOwned
<1>8. ASSUME NEW w \in Workers, Doesntwork!Create(w)
      PROVE  SocketsOwned'
  <2>1. /\ ~Serving(w) /\ accepted' = NoFd /\ UNCHANGED <<fds, spoiled>>
        /\ pc' = [pc EXCEPT ![w] = "lock"]
        /\ socket' = [socket EXCEPT ![w] = accepted]
    BY <1>8 DEF Doesntwork!Create, Doesntwork!Unused, Serving,
       Doesntwork!Goto, NoFd
  <2>2. \A v \in Workers : v # w =>
          (Serving(v)' <=> Serving(v)) /\ socket'[v] = socket[v]
    BY <2>1 DEF Serving, ThreadTypes, Threads
  <2>3. socket'[w] = accepted
    BY <2>1 DEF ThreadTypes
  <2>4. \A v \in Workers : Conn(socket[v])' = Conn(socket'[v])
    BY <2>1 DEF Conn
  <2>5. ASSUME ~spoiled, NEW v \in Workers, Serving(v)', socket'[v] # NoFd
        PROVE  Conn(socket[v])' # NULL
    BY <2>2, <2>3, <2>4, <2>5 DEF SocketsOwned
  <2>6. ASSUME ~spoiled, NEW v \in Workers, NEW u \in Workers, v # u,
               Serving(v)', Serving(u)', socket'[u] # NoFd
        PROVE  socket'[v] # socket'[u]
    <3>1. CASE v = w
      BY <2>2, <2>3, <2>6, <3>1 DEF SocketsOwned
    <3>2. CASE u = w
      BY <2>2, <2>3, <2>6, <3>2 DEF SocketsOwned
    <3>3. CASE v # w /\ u # w
      BY <2>2, <2>6, <3>3 DEF SocketsOwned
    <3> QED
      BY <3>1, <3>2, <3>3
  <2> HIDE DEF Serving, Conn
  <2> QED
    BY <2>1, <2>5, <2>6 DEF SocketsOwned
<1>9. CASE Doesntwork!CreateFails
  <2>1. Close(accepted) /\ accepted' = NoFd /\ UNCHANGED <<pc, socket, spoiled>>
    BY <1>9 DEF Doesntwork!CreateFails, NoFd
  <2>2. ASSUME ~spoiled, NEW w \in Workers, Serving(w), socket[w] # NoFd
        PROVE  Conn(socket[w])' # NULL
    <3>1. socket[w] # accepted /\ fds[socket[w]] # NULL /\ socket[w] \in Fd
      BY <2>2 DEF SocketsOwned, Conn, ThreadTypes, Number
    <3>2. fds'[socket[w]] = fds[socket[w]] /\ socket'[w] = socket[w]
      BY <2>1, <3>1, Closed
    <3> QED
      BY <2>2, <3>1, <3>2 DEF Conn
  <2>3. \A w \in Workers : (Serving(w)' <=> Serving(w)) /\ socket'[w] = socket[w]
    BY <2>1 DEF Serving
  <2> HIDE DEF Serving, Conn
  <2> QED
    BY <2>1, <2>2, <2>3 DEF SocketsOwned
<1>10. CASE Doesntwork!StamperStep \/ Doesntwork!StampOpenFails
  <2>1. UNCHANGED <<fds, socket, accepted, main>>
    BY <1>10 DEF Doesntwork!StamperStep, Doesntwork!AppendTimestamp,
       Doesntwork!StampOpenFails, Doesntwork!UnlockAgain,
       Doesntwork!WakeStamper, Doesntwork!EndStamper
  <2>2. ~spoiled' => ~spoiled
    BY <1>10 DEF Doesntwork!StamperStep, Doesntwork!AppendTimestamp,
       Doesntwork!StampOpenFails, Doesntwork!UnlockAgain,
       Doesntwork!WakeStamper, Doesntwork!EndStamper
  <2>3. \A w \in Workers : pc'[w] = pc[w]
    BY <1>10 DEF Doesntwork!StamperStep, Doesntwork!AppendTimestamp,
       Doesntwork!StampOpenFails, Doesntwork!UnlockAgain,
       Doesntwork!WakeStamper, Doesntwork!EndStamper, Doesntwork!EndThread,
       Doesntwork!Goto, ThreadTypes, Threads
  <2>4. \A w \in Workers : Serving(w)' => Serving(w) /\ socket'[w] = socket[w]
    BY <2>1, <2>3 DEF Serving
  <2>5. main' # "create" => accepted = NoFd
    BY <2>1 DEF SocketsOwned
  <2> QED
    BY <2>1, <2>2, <2>4, <2>5, OwnedRests
<1>11. ASSUME NEW w \in Workers, NEW label \in {"recv", "send", "close"},
              pc[w] \in {"lock", "recv", "send"}, Doesntwork!Goto(w, label),
              UNCHANGED <<accepted, main, socket>>,
              ~spoiled' => ~spoiled /\ UNCHANGED fds
       PROVE  SocketsOwned'
  <2>1. \A v \in Workers : Serving(v)' => Serving(v) /\ socket'[v] = socket[v]
    BY <1>11 DEF Serving, Doesntwork!Goto, ThreadTypes
  <2>2. main' # "create" => accepted = NoFd
    BY <1>11 DEF SocketsOwned
  <2> QED
    BY <1>11, <2>1, <2>2, OwnedRests
<1>12. ASSUME NEW w \in Workers, Doesntwork!Lock(w)
       PROVE  SocketsOwned'
  BY <1>11, <1>12 DEF Doesntwork!Lock
<1>13. ASSUME NEW w \in Workers, Doesntwork!Recv(w)
       PROVE  SocketsOwned'
  <2>1. PICK label \in {"recv", "send"} : Doesntwork!Goto(w, label)
    BY <1>13 DEF Doesntwork!Recv
  <2>2. pc[w] = "recv"
    BY <1>13 DEF Doesntwork!Recv
  <2>3. UNCHANGED <<accepted, main, socket>>
    BY <1>13 DEF Doesntwork!Recv
  <2>4. ~spoiled' => ~spoiled /\ UNCHANGED fds
    BY <1>13 DEF Doesntwork!Recv
  <2> QED
    BY <1>11, <2>1, <2>2, <2>3, <2>4
<1>14. ASSUME NEW w \in Workers,
              Doesntwork!RecvEnds(w) \/ Doesntwork!SendEnds(w)
       PROVE  SocketsOwned'
  BY <1>11, <1>14 DEF Doesntwork!RecvEnds, Doesntwork!SendEnds
<1>15. ASSUME NEW w \in Workers, Doesntwork!OpenToReadFails(w)
       PROVE  SocketsOwned'
  BY <1>11, <1>15 DEF Doesntwork!OpenToReadFails
<1>16. ASSUME NEW w \in Workers, Doesntwork!CloseClient(w)
       PROVE  SocketsOwned'
  <2>1. /\ Close(socket[w]) /\ pc[w] = "close"
        /\ UNCHANGED <<accepted, main, spoiled>>
        /\ socket' = [socket EXCEPT ![w] = NoFd]
        /\ pc' = [pc EXCEPT ![w] = "over"]
    BY <1>16 DEF Doesntwork!CloseClient, Doesntwork!EndThread,
       Doesntwork!Goto, NoFd
  <2>2. \A v \in Workers : Serving(v)' =>
          v # w /\ Serving(v) /\ socket'[v] = socket[v]
    BY <2>1 DEF Serving, ThreadTypes, Threads
  <2>3. Serving(w)
    BY <2>1 DEF Serving
  <2>4. ASSUME ~spoiled', NEW n \in Fd,
               n = accepted \/ \E v \in Workers : Serving(v)' /\ socket[v] = n
        PROVE  n # socket[w]
    <3>1. n # NoFd
      BY DataFileAssumption, FS_CardinalityType DEF Fd, NoFd
    <3> QED
      BY <2>1, <2>2, <2>3, <2>4, <3>1 DEF SocketsOwned
  <2>5. \A n \in Fd : n # socket[w] => fds'[n] = fds[n]
    BY <2>1, Closed
  <2>6. main' # "create" => accepted = NoFd
    BY <2>1 DEF SocketsOwned
  <2> HIDE DEF Serving
  <2> QED
    BY <2>1, <2>2, <2>4, <2>5, <2>6, OwnedRests
<1> QED
  BY <1>2, <1>3, <1>5, <1>6, <1>7, <1>8, <1>9, <1>10, <1>12, <1>13, <1>14,
     <1>15, <1>16
     DEF Doesntwork!Next, Doesntwork!MainStep, Doesntwork!WorkerStep,
         Doesntwork!ExitProcess, Doesntwork!AddThreadFails,
         Doesntwork!JoinKills, Doesntwork!BrokenPipe

-----------------------------------------------------------------------------
(* What the file holds while a thread of doesntwork serves a session.      *)
(* A step that leaves the file and every session that is on alone.         *)
LEMMA SessionRests ==
  ASSUME SessionHeld, UNCHANGED <<file, session>>, ~spoiled' => ~spoiled,
         \A w \in Workers :
           pc'[w] \in {"lock", "recv", "send"} =>
             pc'[w] = pc[w] /\ offset'[w] = offset[w] /\ socket'[w] = socket[w]
  PROVE  SessionHeld'
<1>1. Content' = Content /\ Whole' = Whole
  BY DEF Content, Whole
<1> QED
  BY <1>1 DEF SessionHeld

(* A step after which only one session can be on.                          *)
LEMMA SessionAlone ==
  ASSUME ThreadTypes, SessionHeld, MutexHeld, NEW w \in Workers, NEW label,
         ~spoiled => mutex \in {NULL, w}, Doesntwork!Goto(w, label),
         \A v \in Workers :
           v # w => offset'[v] = offset[v] /\ socket'[v] = socket[v],
         ~spoiled' => ~spoiled,
         ~spoiled' =>
           /\ label \in {"lock", "recv"} => offset'[w] = 0
           /\ label \in {"recv", "send"} => Content' = Whole'
           /\ label = "recv" => session'.replied = <<>>
           /\ label = "send" =>
                /\ socket'[w] # NoFd
                /\ Holds(session.taken, NL)'
                /\ offset'[w] <= Len(Whole')
                /\ "send" \notin session'.short
                     => session'.replied = SubSeq(Whole', 1, offset'[w])
  PROVE  SessionHeld'
<1>1. w \in Threads /\ NULL \notin Workers
  BY EarlierAssumption DEF Threads
<1>2. pc'[w] = label /\ \A v \in Workers : v # w => pc'[v] = pc[v]
  BY <1>1 DEF Doesntwork!Goto, ThreadTypes, Threads
<1>3. ASSUME ~spoiled', NEW v \in Workers, v # w
      PROVE  pc'[v] \notin {"recv", "send"} /\ (pc'[v] = "lock" => offset'[v] = 0)
  BY <1>1, <1>2, <1>3 DEF MutexHeld, SessionHeld
<1> HIDE DEF Whole, Content, Holds
<1> QED
  BY <1>2, <1>3 DEF SessionHeld

LEMMA ThreadLocks ==
  ASSUME ServerTypes, ThreadTypes, SessionHeld, MutexHeld, Quiet,
         NEW w \in Workers, Doesntwork!Lock(w)
  PROVE  SessionHeld'
<1>6. ~spoiled => mutex = NULL
  BY LockIsFree DEF Doesntwork!Lock, Doesntwork!At, Threads
<1>1. /\ pc[w] = "lock" /\ Doesntwork!Goto(w, "recv")
      /\ session' = [NoSession EXCEPT !.left = Content]
      /\ UNCHANGED <<file, spoiled, offset, socket>>
  BY SameContent
     DEF Doesntwork!Lock, Doesntwork!At, Doesntwork!rest, Doesntwork!pool,
         NoSession, Doesntwork!NoSession
<1>2. Content \in File /\ Content' = Content
  BY <1>1, ContentType DEF Content
<1>3. /\ session'.left = Content /\ session'.taken = <<>>
      /\ session'.written = <<>> /\ session'.replied = <<>>
  BY <1>1 DEF NoSession
<1>4. Whole' = Content
  BY <1>2, <1>3, ConcatEmptySeq DEF Whole, File
<1>5. ~spoiled => offset[w] = 0
  BY <1>1 DEF SessionHeld
<1> QED
  BY <1>1, <1>2, <1>3, <1>4, <1>5, <1>6, SessionAlone

LEMMA ThreadReceives ==
  ASSUME ServerTypes, ThreadTypes, SessionHeld, MutexHeld,
         NEW w \in Workers, Doesntwork!Recv(w)
  PROVE  SessionHeld'
<1> DEFINE c == Conn(socket[w])
           got == Chunk(inbox[c], 0)
           label == IF Holds(got, NL) THEN "send" ELSE "recv"
<1>1. pc[w] = "recv" /\ c # NULL
  BY SameConn DEF Doesntwork!Recv, Doesntwork!At
<1>2. Doesntwork!Goto(w, label)
  BY SameConn, SameChunk DEF Doesntwork!Recv, Doesntwork!Holds, Holds
<1>3. UNCHANGED <<offset, socket>>
  BY DEF Doesntwork!Recv, Doesntwork!pool
<1>4. \/ Writes(got, got) /\ UNCHANGED spoiled
      \/ /\ spoiled' = TRUE
         /\ session' = [session EXCEPT !.taken = @ \o got,
                                       !.short = @ \cup {"write"}]
  BY SameConn, SameChunk, SameWrites DEF Doesntwork!Recv
<1>6. c \in Conns /\ socket[w] # NoFd
  BY <1>1 DEF Conn, ServerTypes, ThreadTypes, Number
<1>7. got \in Input /\ Len(got) \in Nat
  BY <1>6, InboxTypes DEF Input
<1> HIDE DEF got, c
<1>5. got = SubSeq(got, 1, Len(got)) /\ Len(got) \in 0 .. Len(got)
  BY <1>7 DEF Input
<1>8. session'.taken = session.taken \o got
  BY <1>4, <1>5, <1>7, WritesAre DEF ServerTypes, Sessions
<1>15. ~spoiled' => ~spoiled /\ Writes(got, got)
  BY <1>4
<1>9. ASSUME ~spoiled'
      PROVE  \E t \in Input :
               /\ file' = Content \o t /\ Content \o t \in File
               /\ session'.replied = session.replied
               /\ Whole' = Whole \o t
  <2>1. PICK t \in Input : /\ file' = Content \o t
                           /\ session'.left = session.left
                           /\ session'.replied = session.replied
                           /\ session'.written = session.written \o t
    BY <1>5, <1>7, <1>9, <1>15, WritesAre
  <2>2. session.left \in File /\ session.written \in File /\ t \in File
    BY SessionTexts, InputIsFile
  <2>3. session.left \o (session.written \o t)
          = (session.left \o session.written) \o t
    BY <2>2, JoinFiles
  <2>4. Content \o t \in File
    BY <2>2, ContentType DEF File
  <2> QED
    BY <2>1, <2>3, <2>4 DEF Whole
<1>10. Holds(got, NL) => Holds(session.taken, NL)'
  <2> SUFFICES ASSUME NEW i \in DOMAIN got, got[i] = NL
               PROVE  \E j \in DOMAIN session'.taken : session'.taken[j] = NL
    BY DEF Holds
  <2>1. session.taken \in Seq(Byte) /\ got \in Seq(Byte)
    BY <1>7, SessionTexts DEF Input
  <2>2. /\ Len(session.taken) + i \in DOMAIN (session.taken \o got)
        /\ (session.taken \o got)[Len(session.taken) + i] = got[i]
    BY <2>1
  <2> QED
    BY <1>8, <2>2
<1>11. ASSUME ~spoiled'
       PROVE  /\ mutex = w /\ offset'[w] = 0 /\ session'.replied = <<>>
              /\ Content' = Whole'
  <2>1. /\ mutex = w /\ offset[w] = 0 /\ session.replied = <<>>
        /\ Content = Whole
    BY <1>1, <1>11, <1>15 DEF MutexHeld, SessionHeld
  <2>2. PICK t \in Input : /\ file' = Content \o t /\ Content \o t \in File
                           /\ session'.replied = session.replied
                           /\ Whole' = Whole \o t
    BY <1>9, <1>11
  <2>3. Content' = Content \o t
    BY <2>2, NullIsNoFile DEF Content
  <2> QED
    BY <1>3, <2>1, <2>2, <2>3
<1>12. ASSUME ~spoiled'
       PROVE  offset'[w] <= Len(Whole') /\ SubSeq(Whole', 1, offset'[w]) = <<>>
  <2>1. Whole' \in File
    <3>1. PICK t \in Input : Whole' = Whole \o t
      BY <1>9, <1>12
    <3>2. Whole \in File /\ t \in File
      BY SessionTexts, InputIsFile
    <3> QED
      BY <3>1, <3>2 DEF File
  <2> QED
    BY <1>11, <1>12, <2>1, SubSeqEmpty DEF File
<1>13. mutex = w \/ spoiled
  BY <1>1 DEF MutexHeld
<1>14. label \in {"recv", "send"} /\ (label = "send" => Holds(got, NL))
  OBVIOUS
<1> HIDE DEF label
<1> QED
  BY <1>2, <1>3, <1>6, <1>10, <1>11, <1>12, <1>13, <1>14, <1>15, SessionAlone

LEMMA ThreadSends ==
  ASSUME ServerTypes, ThreadTypes, SocketsOwned, SessionHeld, MutexHeld,
         NEW w \in Workers, Doesntwork!SendChunk(w)
  PROVE  SessionHeld'
<1> DEFINE got == Chunk(Content, offset[w])
<1>1. /\ pc[w] = "send"
      /\ offset' = [offset EXCEPT ![w] = @ + Len(got)]
      /\ Sends(got, socket[w])
      /\ UNCHANGED <<file, pc, socket, spoiled>>
  BY SameChunk, SameContent, SameSends
     DEF Doesntwork!SendChunk, Doesntwork!At, Doesntwork!rest
<1>10. got \in File
  BY ContentType, ChunkIs DEF File, ThreadTypes
<1> HIDE DEF got
<1>2. /\ session'.left = session.left /\ session'.taken = session.taken
      /\ session'.written = session.written
      /\ Conn(socket[w]) # NULL /\ "send" \notin session'.short
           => /\ "send" \notin session.short
              /\ session'.replied = session.replied \o got
  BY <1>1, <1>10, SendsAre
<1>3. Content' = Content /\ Whole' = Whole
  BY <1>1, <1>2 DEF Content, Whole
<1>4. Doesntwork!Goto(w, "send")
  BY <1>1 DEF Doesntwork!Goto, ThreadTypes
<1>5. offset'[w] = offset[w] + Len(got)
      /\ \A v \in Workers : v # w => offset'[v] = offset[v]
  BY <1>1 DEF ThreadTypes
<1>6. ASSUME ~spoiled
      PROVE  /\ socket[w] # NoFd /\ Holds(session.taken, NL) /\ Content = Whole
             /\ offset'[w] <= Len(Whole)
             /\ "send" \notin session'.short
                  => session'.replied = SubSeq(Whole, 1, offset'[w])
             /\ mutex = w
  <2>1. /\ socket[w] # NoFd /\ Holds(session.taken, NL) /\ Content = Whole
        /\ offset[w] <= Len(Whole)
        /\ "send" \notin session.short
             => session.replied = SubSeq(Whole, 1, offset[w])
        /\ mutex = w
    BY <1>1, <1>6 DEF SessionHeld, MutexHeld
  <2>2. Conn(socket[w]) # NULL
    BY <1>1, <1>6, <2>1 DEF SocketsOwned, Serving
  <2>3. "send" \notin session'.short
          => /\ "send" \notin session.short
             /\ session'.replied = session.replied \o got
    BY <1>2, <2>2
  <2>4. /\ offset[w] + Len(got) <= Len(Whole)
        /\ SubSeq(Whole, 1, offset[w]) \o got
             = SubSeq(Whole, 1, offset[w] + Len(got))
    BY <2>1, SessionTexts, ChunkIs DEF got, File, ThreadTypes
  <2> QED
    BY <1>5, <2>1, <2>3, <2>4, Zenon
<1>7. Holds(session.taken, NL)' <=> Holds(session.taken, NL)
  BY <1>2 DEF Holds
<1>8. UNCHANGED <<socket, spoiled>>
  BY <1>1
<1>9. mutex = w \/ spoiled
  BY <1>1 DEF MutexHeld
<1> QED
  BY <1>3, <1>4, <1>5, <1>6, <1>7, <1>8, <1>9, SessionAlone

LEMMA ThreadSessions ==
  ASSUME ServerTypes, ThreadTypes, OneProcess, MutexHeld, SocketsOwned,
         SessionHeld, Quiet, Doesntwork!Next
  PROVE  SessionHeld'
<1> USE EarlierAssumption
    DEF Doesntwork!life, Doesntwork!data, Doesntwork!peers, Doesntwork!port,
        Doesntwork!network, Doesntwork!serverVars, Doesntwork!dwVars,
        Doesntwork!mainVars, Doesntwork!threadVars, Doesntwork!pool,
        Doesntwork!rest, Doesntwork!UpAt, Doesntwork!At
<1>1. ASSUME \A w \in Workers : pc'[w] = "over" PROVE SessionHeld'
  BY <1>1 DEF SessionHeld
<1>2. CASE Doesntwork!StartDoesntwork
  <2>1. \A w \in Workers : pc'[w] = "over"
    BY <1>2 DEF Doesntwork!StartDoesntwork, Doesntwork!Starts, Doesntwork!Up,
       Doesntwork!Programs, OneProcess, Doesntwork!ThreadsInit,
       Doesntwork!Threads, Doesntwork!Goto
  <2> QED
    BY <1>1, <2>1
<1>3. ASSUME NEW status, Doesntwork!ThreadsEnd(status) PROVE SessionHeld'
  BY <1>1, <1>3 DEF Doesntwork!ThreadsEnd, Doesntwork!Threads
<1>4. CASE UNCHANGED <<file, session, pc, offset, socket, spoiled>>
  BY <1>4, SessionRests
<1>5. CASE \/ Doesntwork!StartDoesntworkFails \/ Doesntwork!AcceptFails
           \/ Doesntwork!CreateFails \/ Doesntwork!AddThread
           \/ Doesntwork!ReadHead \/ Doesntwork!JoinNext
           \/ Doesntwork!Signal
           \/ (\E c \in Conns : Doesntwork!Accept(c))
  BY <1>4, <1>5 DEF Doesntwork!StartDoesntworkFails, Doesntwork!StartFails,
     Doesntwork!AcceptFails, Doesntwork!CreateFails, Doesntwork!AddThread,
     Doesntwork!ReadHead, Doesntwork!JoinNext, Doesntwork!Signal,
     Doesntwork!Accept
<1>6. ASSUME NEW w \in Workers, Doesntwork!Create(w) PROVE SessionHeld'
  <2>1. /\ UNCHANGED <<file, session, spoiled>>
        /\ pc' = [pc EXCEPT ![w] = "lock"]
        /\ offset' = [offset EXCEPT ![w] = 0]
        /\ \A v \in Workers : v # w => socket'[v] = socket[v]
    BY <1>6 DEF Doesntwork!Create, Doesntwork!Goto, ThreadTypes
  <2>2. pc'[w] = "lock" /\ offset'[w] = 0
    BY <2>1 DEF ThreadTypes, Threads
  <2>3. \A v \in Workers : v # w => pc'[v] = pc[v] /\ offset'[v] = offset[v]
    BY <2>1 DEF ThreadTypes, Threads
  <2>4. Content' = Content /\ Whole' = Whole
    BY <2>1 DEF Content, Whole
  <2> QED
    BY <2>1, <2>2, <2>3, <2>4 DEF SessionHeld
<1>7. CASE Doesntwork!AppendTimestamp
  <2>1. (~spoiled => mutex = NULL) /\ UNCHANGED <<spoiled, offset>>
    BY <1>7, LockIsFree DEF Doesntwork!AppendTimestamp, Threads
  <2>2. \A w \in Workers : pc'[w] = pc[w]
    BY <1>7 DEF Doesntwork!AppendTimestamp, Doesntwork!Goto, ThreadTypes,
       Threads
  <2>3. ~spoiled => \A w \in Workers : pc[w] \notin {"recv", "send"}
    BY <2>1 DEF MutexHeld, Threads
  <2> QED
    BY <2>1, <2>2, <2>3 DEF SessionHeld
<1>12. CASE Doesntwork!CleanupAll
  BY <1>12, CleanedUp DEF SessionHeld, Threads
<1>8. CASE \/ Doesntwork!UnlockAgain \/ Doesntwork!WakeStamper
           \/ Doesntwork!EndStamper \/ Doesntwork!StampOpenFails
  <2>1. UNCHANGED <<file, session, offset, socket>>
    BY <1>8 DEF Doesntwork!UnlockAgain, Doesntwork!WakeStamper,
       Doesntwork!EndStamper, Doesntwork!StampOpenFails
  <2>2. ~spoiled' => ~spoiled
    BY <1>8 DEF Doesntwork!UnlockAgain, Doesntwork!WakeStamper,
       Doesntwork!EndStamper, Doesntwork!StampOpenFails
  <2>3. \A w \in Workers : pc'[w] = pc[w]
    BY <1>8 DEF Doesntwork!UnlockAgain, Doesntwork!WakeStamper,
       Doesntwork!EndStamper, Doesntwork!StampOpenFails,
       Doesntwork!EndThread, Doesntwork!Goto, ThreadTypes, Threads
  <2> QED
    BY <2>1, <2>2, <2>3, SessionRests
<1>9. ASSUME NEW w \in Workers,
             Doesntwork!RecvEnds(w) \/ Doesntwork!SendEnds(w)
      PROVE  SessionHeld'
  <2>1. /\ pc[w] \in {"recv", "send"} /\ Doesntwork!Goto(w, "close")
        /\ UNCHANGED <<offset, socket, spoiled>>
    BY <1>9 DEF Doesntwork!RecvEnds, Doesntwork!SendEnds
  <2>2. ~spoiled => mutex \in {NULL, w}
    BY <2>1 DEF MutexHeld
  <2> QED
    BY <2>1, <2>2, SessionAlone
<1>10. ASSUME NEW w \in Workers, Doesntwork!OpenToReadFails(w)
       PROVE  SessionHeld'
  BY <1>10 DEF Doesntwork!OpenToReadFails, SessionHeld
<1>11. ASSUME NEW w \in Workers, Doesntwork!CloseClient(w)
       PROVE  SessionHeld'
  <2>1. /\ UNCHANGED <<file, session, spoiled>>
        /\ pc' = [pc EXCEPT ![w] = "over"]
        /\ offset' = [offset EXCEPT ![w] = 0]
        /\ \A v \in Workers : v # w => socket'[v] = socket[v]
    BY <1>11 DEF Doesntwork!CloseClient, Doesntwork!EndThread,
       Doesntwork!Goto, ThreadTypes
  <2>2. pc'[w] = "over"
    BY <2>1 DEF ThreadTypes, Threads
  <2>3. \A v \in Workers : v # w => pc'[v] = pc[v] /\ offset'[v] = offset[v]
    BY <2>1 DEF ThreadTypes, Threads
  <2> QED
    BY <2>1, <2>2, <2>3, SessionRests
<1> QED
  BY <1>2, <1>3, <1>5, <1>6, <1>7, <1>8, <1>9, <1>10, <1>11, <1>12,
     ThreadLocks, ThreadReceives, ThreadSends
     DEF Doesntwork!Next, Doesntwork!MainStep, Doesntwork!WorkerStep,
         Doesntwork!StamperStep, Doesntwork!ExitProcess,
         Doesntwork!AddThreadFails, Doesntwork!JoinKills,
         Doesntwork!BrokenPipe

(* main of assign3 before it starts.                                       *)
LEMMA MainRests ==
  ASSUME Assign3!MainInit, process # "assign3"
  PROVE  MainKeeps /\ MainReplies
BY DEF Assign3!MainInit, MainKeeps, MainReplies

(* A peer changes only what waits for the server.                          *)
LEMMA PeerSteps ==
  ASSUME IInv, NEW c \in Conns, Peer(c),
         UNCHANGED <<assign3Vars, doesntworkVars>>
  PROVE  IInv'
<1>1. ServerTypes /\ MainTypes /\ ThreadTypes
  BY TypeParts DEF IInv
<1>2. ServerTypes' /\ Numbers'
  BY <1>1, PeerTypeStep, PeerNumbers DEF IInv
<1>3. UNCHANGED <<process, run, kept, file, session, fds>>
  BY DEF Peer, Connect, Send, HangUp, life, data
<1>4. UNCHANGED <<at, returned, clientfd, orphan, pos>>
  BY DEF assign3Vars
<1>5. UNCHANGED <<main, accepted, current, list, mutex, pc, socket, offset,
                  stamps, spoiled>>
  BY DEF doesntworkVars
<1>6. MainTypes' /\ ThreadTypes'
  BY <1>1, <1>4, <1>5 DEF MainTypes, ThreadTypes
<1>7. TypeOK'
  <2>1. (ServerTypes /\ MainTypes /\ ThreadTypes)' => TypeOK'
    BY TypeParts, PTL
  <2> QED
    BY <1>2, <1>6, <2>1
<1>8. OneProcess' /\ Follows' /\ MutexHeld'
  BY <1>3, <1>4, <1>5 DEF IInv, OneProcess, Assign3!MainInit,
     Doesntwork!ThreadsInit, Follows, MutexHeld
<1>9. MainKeeps'
  BY <1>3, <1>4 DEF IInv, MainKeeps, Conn, Assign3!Stream, Assign3!Content,
     Whole
<1>10. MainReplies'
  BY <1>3, <1>4 DEF IInv, MainReplies, Conn, Whole
<1>11. SocketsOwned'
  BY <1>3, <1>5 DEF IInv, SocketsOwned, Serving, Conn
<1>12. SessionHeld'
  BY <1>3, <1>5, SessionRests DEF IInv
<1>13. WritesAll' /\ Quiet'
  BY <1>3, <1>5 DEF IInv, WritesAll, Quiet, Leaving
<1> QED
  BY <1>2, <1>7, <1>8, <1>9, <1>10, <1>11, <1>12, <1>13 DEF IInv

-----------------------------------------------------------------------------
(* The invariant holds.                                                    *)
LEMMA AtFirst == Init => IInv
<1> SUFFICES ASSUME Init PROVE IInv
  OBVIOUS
<1>1. Assign3!MainInit /\ Doesntwork!ThreadsInit /\ ServerInit
  BY DEF Init
<1>2. ServerTypes
  <2>1. <<>> \in Input /\ <<>> \in File
    BY DEF Input, File
  <2>2. \A c \in Conns : Len(Packet[c]) \in Nat
    BY EarlierAssumption
  <2>3. NoSession \in Sessions
    BY <2>1 DEF NoSession, Sessions
  <2>4. inbox \in [Conns -> Input] /\ fds \in [Fd -> Conns \cup {NULL}]
    BY <1>1, <2>1 DEF ServerInit
  <2>5. sent \in [Conns -> Nat] /\ \A c \in Conns : sent[c] <= Len(Packet[c])
    BY <1>1, <2>2 DEF ServerInit
  <2>6. peer \in [Conns -> {"new", "connected", "gone"}]
    BY <1>1 DEF ServerInit
  <2>7. events \in 0 .. MaxEvents
    BY <1>1, DataFileAssumption DEF ServerInit
  <2>8. /\ process = "none" /\ run = TRUE /\ listening = "closed"
        /\ file = NULL /\ backlog = {} /\ session = NoSession /\ kept = FALSE
    BY <1>1 DEF ServerInit
  <2> HIDE DEF NoSession
  <2> QED
    BY <2>3, <2>4, <2>5, <2>6, <2>7, <2>8 DEF ServerTypes
<1>3. MainTypes
  BY <1>1 DEF Assign3!MainInit, MainTypes, Number, NoFd, Assign3!NoFd
<1>4. ThreadTypes
  <2>1. /\ main = "accept" /\ accepted = NoFd /\ current = NULL /\ list = <<>>
        /\ mutex = NULL /\ stamps = 0 /\ spoiled = FALSE
        /\ pc = [t \in Threads |-> "over"]
    BY <1>1 DEF Doesntwork!ThreadsInit, NoFd, Doesntwork!NoFd, Threads,
       Doesntwork!Threads
  <2>2. socket = [w \in Workers |-> NoFd] /\ offset = [w \in Workers |-> 0]
    BY <1>1 DEF Doesntwork!ThreadsInit, NoFd, Doesntwork!NoFd
  <2>3. stamps \in 0 .. MaxStamps /\ list \in Seq(Threads)
    BY <2>1, EarlierAssumption
  <2> QED
    BY <2>1, <2>2, <2>3 DEF ThreadTypes, Number
<1>5. OneProcess
  BY <1>1 DEF OneProcess
<1>6. Numbers
  BY <1>1 DEF ServerInit, Numbers
<1>7. MainKeeps /\ MainReplies
  BY <1>1, MainRests DEF ServerInit
<1>8. WritesAll
  BY <1>1 DEF ServerInit, NoSession, WritesAll
<1> QED
  BY <1>1, <1>2, <1>3, <1>4, <1>5, <1>6, <1>7, <1>8, TypeParts, ThreadsRest
     DEF IInv

LEMMA MainInvariant ==
  ASSUME IInv, Assign3!Next, UNCHANGED doesntworkVars
  PROVE  IInv'
<1>1. ServerTypes /\ MainTypes /\ ThreadTypes
  BY TypeParts DEF IInv
<1>2. ServerTypes' /\ MainTypes'
  BY <1>1, MainTypeStep
<1>3. ThreadTypes'
  BY <1>1 DEF ThreadTypes, doesntworkVars
<1>4. (ServerTypes /\ MainTypes /\ ThreadTypes)' => TypeOK'
  BY TypeParts, PTL
<1>5. OneProcess' /\ process' # "doesntwork"
  BY MainAlone DEF IInv
<1>6. Doesntwork!ThreadsInit'
  BY <1>5 DEF OneProcess
<1>7. Doesntwork!ThreadsInit'
        => (Follows /\ MutexHeld /\ SocketsOwned /\ SessionHeld /\ Quiet)'
  BY ThreadsRest, PTL
<1>8. Numbers' /\ MainKeeps' /\ MainReplies' /\ WritesAll'
  BY <1>1, MainNumbers, MainSteps, MainWritesAll DEF IInv
<1> QED
  BY <1>2, <1>3, <1>4, <1>5, <1>6, <1>7, <1>8 DEF IInv

LEMMA ThreadInvariant ==
  ASSUME IInv, Doesntwork!Next, UNCHANGED assign3Vars
  PROVE  IInv'
<1>1. ServerTypes /\ MainTypes /\ ThreadTypes
  BY TypeParts DEF IInv
<1>2. ServerTypes' /\ ThreadTypes'
  BY <1>1, ThreadTypeStep DEF IInv
<1>3. MainTypes'
  BY <1>1 DEF MainTypes, assign3Vars
<1>4. (ServerTypes /\ MainTypes /\ ThreadTypes)' => TypeOK'
  BY TypeParts, PTL
<1>5. OneProcess' /\ process' # "assign3"
  BY ThreadsAlone DEF IInv
<1>6. Assign3!MainInit'
  BY <1>5 DEF OneProcess
<1>7. (Assign3!MainInit /\ process # "assign3")' => (MainKeeps /\ MainReplies)'
  BY MainRests, PTL
<1>8. Numbers' /\ Follows' /\ MutexHeld' /\ SocketsOwned' /\ SessionHeld'
  BY <1>1, ThreadNumbers, ThreadFollows, ThreadMutex, ThreadSockets,
     ThreadSessions DEF IInv
<1>9. WritesAll' /\ Quiet'
  BY <1>1, ThreadWritesAll, ThreadsQuiet DEF IInv
<1> QED
  BY <1>2, <1>3, <1>4, <1>5, <1>6, <1>7, <1>8, <1>9 DEF IInv

LEMMA Unmoved ==
  ASSUME IInv, UNCHANGED vars
  PROVE  IInv'
<1>1. UNCHANGED <<process, events, run, listening, fds, file, peer, backlog,
                  inbox, sent, session, kept>>
  BY DEF vars, serverVars
<1>2. UNCHANGED <<at, returned, clientfd, orphan, pos>>
  BY DEF vars, assign3Vars
<1>3. UNCHANGED <<main, accepted, current, list, mutex, pc, socket, offset,
                  stamps, spoiled>>
  BY DEF vars, doesntworkVars
<1>4. TypeOK'
  BY <1>1, <1>2, <1>3 DEF IInv, TypeOK
<1>5. OneProcess' /\ Numbers' /\ Follows' /\ MutexHeld'
  BY <1>1, <1>2, <1>3 DEF IInv, OneProcess, Assign3!MainInit,
     Doesntwork!ThreadsInit, Numbers, Follows, MutexHeld
<1>6. MainKeeps' /\ MainReplies'
  BY <1>1, <1>2 DEF IInv, MainKeeps, MainReplies, Conn, Assign3!Stream,
     Assign3!Content, Whole
<1>7. SocketsOwned'
  BY <1>1, <1>3 DEF IInv, SocketsOwned, Serving, Conn
<1>8. SessionHeld'
  BY <1>1, <1>3, SessionRests DEF IInv
<1>9. WritesAll' /\ Quiet'
  BY <1>1, <1>3 DEF IInv, WritesAll, Quiet, Leaving
<1> QED
  BY <1>4, <1>5, <1>6, <1>7, <1>8, <1>9 DEF IInv

LEMMA Inductive == IInv /\ [Next]_vars => IInv'
<1> SUFFICES ASSUME IInv, [Next]_vars PROVE IInv'
  OBVIOUS
<1> QED
  BY MainInvariant, ThreadInvariant, PeerSteps, Unmoved DEF Next

LEMMA Invariant == Spec => []IInv
BY AtFirst, Inductive, PTL DEF Spec

-----------------------------------------------------------------------------
(* Every variable keeps the type the code gives it; of the ones of a       *)
(* program that ended nothing is left for the next, whichever of the two.  *)
THEOREM TypesCorrect == Spec => []TypeOK
<1>1. IInv => TypeOK
  BY DEF IInv
<1> QED
  BY <1>1, Invariant, PTL

(* While assign3 serves a connection, or a thread of doesntwork holds      *)
(* file_mutex for one, the file that is read back is what the session      *)
(* found and what it wrote: no byte of another session, and no timestamp,  *)
(* in between.  It wrote all it received unless fputs, fflush or write     *)
(* fell short, fputs at a NUL too.                                         *)
THEOREM SessionsAreWhole == Spec => []FileHoldsTheSession
<1>1. IInv => FileHoldsTheSession
  BY DEF IInv, MainKeeps, SessionHeld, WritesAll, FileHoldsTheSession
<1> QED
  BY <1>1, Invariant, PTL

(* Between accept and close a thread's descriptor is its own: none of the  *)
(* closes of main and of the other threads takes that number.              *)
THEOREM DescriptorsAreOwned == Spec => []SocketsStayOpen
<1>1. IInv => SocketsStayOpen
  BY DEF IInv, SocketsOwned, Serving, SocketsStayOpen
<1> QED
  BY <1>1, Invariant, PTL

(* A thread goes from send to close only where it unlocks.                 *)
LEMMA SendEnded ==
  ASSUME ThreadTypes, NEW w \in Workers, pc[w] = "send", pc'[w] = "close",
         ~spoiled', Doesntwork!Next
  PROVE  Doesntwork!SendEnds(w) /\ ~spoiled
<1> USE DEF Doesntwork!serverVars, Doesntwork!dwVars, Doesntwork!mainVars,
            Doesntwork!threadVars, Doesntwork!pool, Doesntwork!rest,
            Doesntwork!At, Doesntwork!Goto
<1>0. w \in Threads /\ w # Stamper /\ pc' # pc
  BY EarlierAssumption DEF Threads
<1>2. ~(Doesntwork!StartDoesntwork \/ Doesntwork!StartDoesntworkFails)
  BY <1>0 DEF Doesntwork!StartDoesntwork, Doesntwork!StartDoesntworkFails,
     ThreadTypes
<1>3. \A status : ~Doesntwork!ThreadsEnd(status)
  BY <1>0 DEF Doesntwork!ThreadsEnd, Doesntwork!Threads, Threads
<1>4. ~(\/ Doesntwork!AcceptFails \/ Doesntwork!CreateFails
        \/ Doesntwork!AddThread \/ Doesntwork!ReadHead
        \/ Doesntwork!JoinNext \/ Doesntwork!CleanupAll
        \/ Doesntwork!Signal
        \/ (\E c \in Conns : Doesntwork!Accept(c)))
  BY <1>0, CleanedUp DEF Doesntwork!AcceptFails, Doesntwork!CreateFails,
     Doesntwork!AddThread, Doesntwork!ReadHead, Doesntwork!JoinNext,
     Doesntwork!Signal, Doesntwork!Accept
<1>5. ~(Doesntwork!StamperStep \/ Doesntwork!StampOpenFails)
  BY <1>0 DEF Doesntwork!StamperStep, Doesntwork!AppendTimestamp,
     Doesntwork!StampOpenFails, Doesntwork!UnlockAgain,
     Doesntwork!WakeStamper, Doesntwork!EndStamper, Doesntwork!EndThread,
     ThreadTypes
<1>6. \A v \in Workers : ~Doesntwork!Create(v)
  BY <1>0 DEF Doesntwork!Create, ThreadTypes
<1>7. ASSUME NEW v \in Workers, Doesntwork!WorkerStep(v)
      PROVE  Doesntwork!SendEnds(v) /\ v = w /\ ~spoiled
  <2>1. ~(\/ Doesntwork!Lock(v) \/ Doesntwork!Recv(v)
          \/ Doesntwork!CloseClient(v) \/ Doesntwork!SendChunk(v))
    BY <1>0 DEF Doesntwork!Lock, Doesntwork!Recv, Doesntwork!CloseClient,
       Doesntwork!SendChunk, Doesntwork!EndThread, ThreadTypes
  <2>2. ~Doesntwork!RecvEnds(v) /\ ~Doesntwork!OpenToReadFails(v)
    BY <1>0 DEF Doesntwork!RecvEnds, Doesntwork!OpenToReadFails, ThreadTypes
  <2>3. Doesntwork!SendEnds(v)
    BY <1>7, <2>1, <2>2 DEF Doesntwork!WorkerStep
  <2> QED
    BY <1>0, <2>3 DEF Doesntwork!SendEnds, ThreadTypes
<1> QED
  BY <1>2, <1>3, <1>4, <1>5, <1>6, <1>7
     DEF Doesntwork!Next, Doesntwork!MainStep, Doesntwork!ExitProcess,
         Doesntwork!AddThreadFails, Doesntwork!JoinKills,
         Doesntwork!BrokenPipe

(* The last step of a reply: the read that found the end of the file.      *)
LEMMA ReplyIsWhole ==
  ASSUME IInv, [Next]_vars
  PROVE  /\ at = "reply" /\ at' = "accept" /\ process' = "assign3"
              => "send" \in session.short \/ session.replied = Whole
         /\ \A w \in Workers :
              pc[w] = "send" /\ pc'[w] = "close" /\ ~spoiled'
                => /\ "send" \in session.short \/ session.replied = Whole
                   /\ Holds(session.taken, NL)
<1>1. ServerTypes /\ MainTypes /\ ThreadTypes /\ OneProcess /\ MainKeeps
      /\ MainReplies /\ SessionHeld
  BY TypeParts DEF IInv
<1>2. ASSUME at = "reply", at' = "accept", process' = "assign3"
      PROVE  "send" \in session.short \/ session.replied = Whole
  <2>1. Assign3!Next
    BY <1>2 DEF Next, vars, assign3Vars
  <2>2. Assign3!ReplyEnds
    BY <1>2, <2>1 DEF Assign3!Next, Assign3!MainStep, Assign3!StartAssign3,
       Assign3!StartAssign3Fails, Assign3!StoreClientfd, Assign3!Open,
       Assign3!Recv, Assign3!RecvEnds, Assign3!Reply, Assign3!AcceptFails,
       Assign3!Cleanup, Assign3!Accept, Assign3!OpenFails,
       Assign3!BrokenPipe, Assign3!Signal, Assign3!HandlerBlocks,
       Assign3!MainEnds, Assign3!Exit, Assign3!UpAt, Assign3!mainVars
  <2>3. run /\ Chunk(Assign3!Stream, pos) = <<>>
    BY <1>2, <2>2, SameChunk DEF Assign3!ReplyEnds
  <2>4. /\ Assign3!Stream = Whole /\ Whole \in File /\ pos <= Len(Whole)
        /\ "send" \notin session.short
             => session.replied = SubSeq(Whole, 1, pos)
    BY <1>1, <1>2, <2>3, SessionTexts DEF MainKeeps, MainReplies
  <2>5. Len(Whole) <= pos
    BY <1>1, <2>3, <2>4, ChunkIs DEF File, MainTypes
  <2> QED
    BY <1>1, <2>4, <2>5 DEF File, MainTypes
<1>3. ASSUME NEW w \in Workers, pc[w] = "send", pc'[w] = "close", ~spoiled'
      PROVE  /\ "send" \in session.short \/ session.replied = Whole
             /\ Holds(session.taken, NL)
  <2>1. Doesntwork!Next
    BY <1>3 DEF Next, vars, doesntworkVars
  <2>2. Doesntwork!SendEnds(w) /\ ~spoiled
    BY <1>1, <1>3, <2>1, SendEnded
  <2>3. Chunk(Content, offset[w]) = <<>>
    BY <2>2, SameChunk, SameContent DEF Doesntwork!SendEnds
  <2>4. /\ Content = Whole /\ Whole \in File /\ offset[w] <= Len(Whole)
        /\ "send" \notin session.short
             => session.replied = SubSeq(Whole, 1, offset[w])
        /\ Holds(session.taken, NL)
    BY <1>1, <1>3, <2>2, SessionTexts DEF SessionHeld
  <2>5. offset[w] \in Nat
    BY <1>1 DEF ThreadTypes
  <2>6. Len(Whole) <= offset[w]
    BY <2>3, <2>4, <2>5, ChunkIs DEF File
  <2>7. SubSeq(Whole, 1, offset[w]) = Whole
    BY <2>4, <2>5, <2>6 DEF File
  <2> QED
    BY <2>4, <2>7, Zenon
<1> QED
  BY <1>2, <1>3

(* Both servers close a connection only after every byte of the file, up   *)
(* to the packet they received, went out on it (assign3 before its handler *)
(* ran), unless a send fell short: then the rest was not sent again.       *)
THEOREM RepliesAreWhole == Spec => RepliesWithTheFile
<1> DEFINE A ==
      /\ at = "reply" /\ at' = "accept" /\ process' = "assign3"
           => "send" \in session.short \/ session.replied = Whole
      /\ \A w \in Workers :
           pc[w] = "send" /\ pc'[w] = "close" /\ ~spoiled'
             => /\ "send" \in session.short \/ session.replied = Whole
                /\ Holds(session.taken, NL)
<1>1. IInv /\ [Next]_vars => [A]_vars
  BY ReplyIsWhole
<1> HIDE DEF A
<1>2. Spec => [][A]_vars
  BY <1>1, Invariant, PTL DEF Spec
<1> QED
  BY <1>2 DEF RepliesWithTheFile, A

(* How a process of assign3 ends.                                          *)
LEMMA MainEnded ==
  ASSUME MainKeeps, Up, Assign3!Next
  PROVE  /\ process' = "success" => file' = NULL \/ kept'
         /\ process = "assign3" /\ ~run /\ process' = "failure"
              => file' = NULL \/ kept'
<1> USE DEF Assign3!UpAt, Assign3!serverVars, Assign3!life, Assign3!data,
            Assign3!MainEnds, Assign3!Exit
<1>1. CASE process' = process
  BY <1>1 DEF Up, Programs
<1>2. CASE Assign3!StartAssign3 \/ Assign3!StartAssign3Fails
  BY <1>2 DEF Assign3!StartAssign3, Assign3!Starts,
     Assign3!StartAssign3Fails, Assign3!StartFails, Assign3!Up,
     Assign3!Programs, Up, Programs
<1>3. CASE \/ Assign3!StoreClientfd \/ Assign3!Open \/ Assign3!Recv
           \/ Assign3!RecvEnds \/ Assign3!Reply \/ Assign3!ReplyEnds
           \/ Assign3!Signal \/ Assign3!HandlerBlocks
           \/ (\E c \in Conns : Assign3!Accept(c))
  BY <1>1, <1>3 DEF Assign3!StoreClientfd, Assign3!Open, Assign3!Recv,
     Assign3!RecvEnds, Assign3!Reply, Assign3!ReplyEnds, Assign3!Signal,
     Assign3!HandlerBlocks, Assign3!Accept
<1>4. CASE Assign3!AcceptFails \/ Assign3!OpenFails
  <2>1. /\ process = "assign3" /\ process' = "failure"
        /\ file' = file /\ kept' = kept /\ at \in {"accept", "open"}
    BY <1>4 DEF Assign3!AcceptFails, Assign3!OpenFails
  <2> QED
    BY <2>1 DEF MainKeeps
<1>5. CASE Assign3!Cleanup
  BY <1>5 DEF Assign3!Cleanup, Assign3!RemoveFile
<1>6. CASE Assign3!BrokenPipe
  BY <1>6 DEF Assign3!BrokenPipe
<1> QED
  BY <1>2, <1>3, <1>4, <1>5, <1>6 DEF Assign3!Next, Assign3!MainStep

(* How a process of doesntwork ends.                                       *)
LEMMA ThreadsEnded ==
  ASSUME Quiet, Up, Doesntwork!Next
  PROVE  /\ process' = "success" => file' = NULL \/ kept'
         /\ process # "assign3"
<1> USE DEF Doesntwork!UpAt, Doesntwork!At, Doesntwork!serverVars,
            Doesntwork!life, Doesntwork!ThreadsEnd, Doesntwork!Exit
<1>1. CASE process = "doesntwork" /\ process' = process
  BY <1>1
<1>2. CASE Doesntwork!StartDoesntwork \/ Doesntwork!StartDoesntworkFails
  BY <1>2 DEF Doesntwork!StartDoesntwork, Doesntwork!Starts,
     Doesntwork!StartDoesntworkFails, Doesntwork!StartFails, Doesntwork!Up,
     Doesntwork!Programs, Up, Programs
<1>3. CASE Doesntwork!ExitProcess
  BY <1>3 DEF Doesntwork!ExitProcess, Quiet, Leaving
<1>4. CASE \/ Doesntwork!AddThreadFails \/ Doesntwork!JoinKills
           \/ \E w \in Workers : Doesntwork!BrokenPipe(w)
  BY <1>4 DEF Doesntwork!AddThreadFails, Doesntwork!JoinKills,
     Doesntwork!Joined, Doesntwork!BrokenPipe
<1>5. CASE \/ Doesntwork!AcceptFails \/ Doesntwork!CreateFails
           \/ Doesntwork!AddThread \/ Doesntwork!ReadHead
           \/ Doesntwork!JoinNext \/ Doesntwork!Signal
           \/ Doesntwork!CleanupAll
           \/ Doesntwork!StamperStep \/ Doesntwork!StampOpenFails
           \/ (\E c \in Conns : Doesntwork!Accept(c))
           \/ (\E w \in Workers : Doesntwork!Create(w))
  BY <1>1, <1>5 DEF Doesntwork!AcceptFails, Doesntwork!CreateFails,
     Doesntwork!AddThread, Doesntwork!ReadHead, Doesntwork!JoinNext,
     Doesntwork!Joined, Doesntwork!CleanupAll, Doesntwork!Signal,
     Doesntwork!StamperStep,
     Doesntwork!AppendTimestamp, Doesntwork!UnlockAgain,
     Doesntwork!WakeStamper, Doesntwork!EndStamper,
     Doesntwork!StampOpenFails, Doesntwork!Accept, Doesntwork!Create
<1>6. CASE \E w \in Workers : Doesntwork!WorkerStep(w)
  BY <1>1, <1>6 DEF Doesntwork!WorkerStep, Doesntwork!Lock, Doesntwork!Recv,
     Doesntwork!RecvEnds, Doesntwork!OpenToReadFails, Doesntwork!SendChunk,
     Doesntwork!SendEnds, Doesntwork!CloseClient
<1> QED
  BY <1>2, <1>3, <1>4, <1>5, <1>6 DEF Doesntwork!Next, Doesntwork!MainStep

(* A process that ends with success, of either program, has removed        *)
(* /var/tmp/aesdsocket; one of assign3 that caught a signal has, whether   *)
(* it comes to cleanup or a failing accept or fopen ends it.  If the file  *)
(* is there a remove of that process failed, or threads of doesntwork ran  *)
(* on after it.                                                            *)
THEOREM FileIsRemoved == Spec => ExitRemovesTheFile
<1> DEFINE A ==
      /\ Up /\ process' = "success" => file' = NULL \/ kept'
      /\ process = "assign3" /\ ~run /\ process' = "failure"
           => file' = NULL \/ kept'
<1>1. ASSUME IInv, [Next]_vars PROVE [A]_vars
  <2>1. CASE Assign3!Next
    BY <1>1, <2>1, MainEnded DEF IInv, Up, Programs
  <2>2. CASE Doesntwork!Next
    BY <1>1, <2>2, ThreadsEnded DEF IInv, Up, Programs
  <2>3. CASE \E c \in Conns : Peer(c)
    BY <2>3 DEF Peer, Connect, Send, HangUp, life, Up, Programs
  <2> QED
    BY <1>1, <2>1, <2>2, <2>3 DEF Next
<1> HIDE DEF A
<1>2. Spec => [][A]_vars
  BY <1>1, Invariant, PTL DEF Spec
<1> QED
  BY <1>2 DEF ExitRemovesTheFile, A

-----------------------------------------------------------------------------
(* Who keeps file_mutex.                                                   *)

(* A step of doesntwork that says nothing of the mutex and its holder.     *)
LEMMA HolderRests ==
  ASSUME HolderServes, UNCHANGED <<mutex, session>>, ~spoiled' => ~spoiled,
         mutex # NULL => pc'[mutex] = pc[mutex]
  PROVE  HolderServes'
BY DEF HolderServes, Abandoned, Holds

LEMMA HolderNext ==
  ASSUME ThreadTypes, OneProcess, MutexHeld, HolderServes, Doesntwork!Next
  PROVE  HolderServes'
<1> USE EarlierAssumption
    DEF Doesntwork!life, Doesntwork!data, Doesntwork!network,
        Doesntwork!serverVars, Doesntwork!dwVars, Doesntwork!mainVars,
        Doesntwork!threadVars, Doesntwork!pool, Doesntwork!rest,
        Doesntwork!UpAt, Doesntwork!At
<1>0. Doesntwork!NoSession = NoSession /\ ~Holds(NoSession.taken, NL)
  BY DEF Doesntwork!NoSession, NoSession, Holds
<1>1. ASSUME mutex' = NULL PROVE HolderServes'
  BY <1>1 DEF HolderServes
<1>2. CASE UNCHANGED <<mutex, session, spoiled, pc>>
  BY <1>2, HolderRests
<1>3. CASE Doesntwork!StartDoesntwork
  BY <1>1, <1>3 DEF Doesntwork!StartDoesntwork, Doesntwork!Starts,
     Doesntwork!Up, Doesntwork!Programs, OneProcess, Doesntwork!ThreadsInit
<1>4. ASSUME NEW status, Doesntwork!ThreadsEnd(status) PROVE HolderServes'
  BY <1>1, <1>4 DEF Doesntwork!ThreadsEnd
<1>5. CASE \/ Doesntwork!StartDoesntworkFails \/ Doesntwork!AcceptFails
           \/ Doesntwork!CreateFails \/ Doesntwork!AddThread
           \/ Doesntwork!ReadHead \/ Doesntwork!JoinNext
           \/ Doesntwork!Signal
           \/ (\E c \in Conns : Doesntwork!Accept(c))
  BY <1>2, <1>5 DEF Doesntwork!StartDoesntworkFails, Doesntwork!StartFails,
     Doesntwork!AcceptFails, Doesntwork!CreateFails, Doesntwork!AddThread,
     Doesntwork!ReadHead, Doesntwork!JoinNext, Doesntwork!Signal,
     Doesntwork!Accept
<1>15. CASE Doesntwork!CleanupAll
  BY <1>15, CleanedUp, HolderRests
<1>6. ASSUME NEW w \in Workers, Doesntwork!Create(w) PROVE HolderServes'
  <2>1. /\ mutex # w /\ UNCHANGED <<mutex, session, spoiled>>
        /\ pc' = [pc EXCEPT ![w] = "lock"]
    BY <1>6 DEF Doesntwork!Create, Doesntwork!Unused, Doesntwork!Goto
  <2> QED
    BY <2>1, HolderRests DEF ThreadTypes, Threads
<1>7. CASE \/ Doesntwork!AppendTimestamp \/ Doesntwork!WakeStamper
           \/ Doesntwork!EndStamper \/ Doesntwork!StampOpenFails
  <2>1. UNCHANGED <<mutex, session>> /\ (~spoiled' => ~spoiled)
    BY <1>7 DEF Doesntwork!AppendTimestamp, Doesntwork!WakeStamper,
       Doesntwork!EndStamper, Doesntwork!StampOpenFails
  <2>2. \A w \in Workers : pc'[w] = pc[w]
    BY <1>7 DEF Doesntwork!AppendTimestamp, Doesntwork!WakeStamper,
       Doesntwork!EndStamper, Doesntwork!StampOpenFails,
       Doesntwork!EndThread, Doesntwork!Goto, ThreadTypes, Threads
  <2> QED
    BY <2>1, <2>2, HolderRests DEF ThreadTypes
<1>8. CASE Doesntwork!UnlockAgain
  BY <1>1, <1>8 DEF Doesntwork!UnlockAgain
<1>9. ASSUME NEW w \in Workers, Doesntwork!Lock(w) PROVE HolderServes'
  BY <1>9 DEF Doesntwork!Lock, Doesntwork!Goto, HolderServes, ThreadTypes,
     Threads
<1>10. ASSUME NEW w \in Workers, Doesntwork!Recv(w) PROVE HolderServes'
  <2>1. /\ pc[w] = "recv" /\ UNCHANGED mutex
    BY <1>10 DEF Doesntwork!Recv
  <2>2. ~spoiled' => ~spoiled
    BY <1>10 DEF Doesntwork!Recv
  <2>3. PICK label \in {"recv", "send"} : Doesntwork!Goto(w, label)
    BY <1>10 DEF Doesntwork!Recv
  <2>4. pc'[w] \in {"recv", "send"}
    BY <2>3 DEF Doesntwork!Goto, ThreadTypes, Threads
  <2>5. ~spoiled => mutex = w
    BY <2>1 DEF MutexHeld
  <2> QED
    BY <2>1, <2>2, <2>4, <2>5 DEF HolderServes
<1>11. ASSUME NEW w \in Workers, Doesntwork!RecvEnds(w) PROVE HolderServes'
  <2>1. /\ pc[w] = "recv" /\ UNCHANGED <<mutex, spoiled>>
        /\ session' = NoSession /\ pc' = [pc EXCEPT ![w] = "close"]
    BY <1>0, <1>11 DEF Doesntwork!RecvEnds, Doesntwork!Goto
  <2>2. ~spoiled => mutex = w
    BY <2>1 DEF MutexHeld
  <2>3. pc'[w] = "close"
    BY <2>1 DEF ThreadTypes, Threads
  <2>4. ~Holds(session.taken, NL)'
    BY <1>0, <2>1 DEF Holds
  <2> QED
    BY <2>1, <2>2, <2>3, <2>4 DEF HolderServes, Abandoned
<1>12. ASSUME NEW w \in Workers,
              Doesntwork!OpenToReadFails(w) \/ Doesntwork!SendEnds(w)
       PROVE  HolderServes'
  BY <1>1, <1>12 DEF Doesntwork!OpenToReadFails, Doesntwork!SendEnds
<1>13. ASSUME NEW w \in Workers, Doesntwork!SendChunk(w)
       PROVE  HolderServes'
  <2>1. /\ pc[w] = "send" /\ UNCHANGED <<mutex, pc, spoiled>>
    BY <1>13 DEF Doesntwork!SendChunk
  <2>2. ~spoiled => mutex = w
    BY <2>1 DEF MutexHeld
  <2> QED
    BY <2>1, <2>2 DEF HolderServes
<1>14. ASSUME NEW w \in Workers, Doesntwork!CloseClient(w)
       PROVE  HolderServes'
  <2>1. /\ pc[w] = "close" /\ UNCHANGED <<mutex, session, spoiled>>
        /\ pc' = [pc EXCEPT ![w] = "over"]
    BY <1>14 DEF Doesntwork!CloseClient, Doesntwork!EndThread,
       Doesntwork!Goto
  <2>2. CASE mutex = w
    BY <2>1, <2>2 DEF HolderServes, Abandoned, Holds, ThreadTypes, Threads
  <2>3. CASE mutex # w
    BY <2>1, <2>3, HolderRests DEF ThreadTypes
  <2> QED
    BY <2>2, <2>3
<1> QED
  BY <1>3, <1>4, <1>5, <1>6, <1>7, <1>8, <1>9, <1>10, <1>11, <1>12, <1>13,
     <1>14, <1>15
     DEF Doesntwork!Next, Doesntwork!MainStep, Doesntwork!WorkerStep,
         Doesntwork!StamperStep, Doesntwork!ExitProcess,
         Doesntwork!AddThreadFails, Doesntwork!JoinKills,
         Doesntwork!BrokenPipe

(* A client_thread that leaves handle_client from inside its loop keeps    *)
(* file_mutex (aesdsocket_doesntwork.c:434); nothing but that, or a failed *)
(* open of the data file, keeps the mutex outside a session.               *)
THEOREM HoldersServeOrLeft == Spec => []HolderServes
<1>1. Init => HolderServes
  BY DEF Init, Doesntwork!ThreadsInit, HolderServes
<1>2. ASSUME IInv, HolderServes, [Next]_vars PROVE HolderServes'
  <2>1. CASE Assign3!Next /\ UNCHANGED doesntworkVars
    <3>1. OneProcess' /\ process' # "doesntwork"
      BY <1>2, <2>1, MainAlone DEF IInv
    <3> QED
      BY <3>1 DEF OneProcess, Doesntwork!ThreadsInit, HolderServes
  <2>2. CASE Doesntwork!Next
    BY <1>2, <2>2, HolderNext, TypeParts DEF IInv
  <2>3. CASE \/ UNCHANGED vars
             \/ \E c \in Conns :
                  Peer(c) /\ UNCHANGED <<assign3Vars, doesntworkVars>>
    <3>1. UNCHANGED <<mutex, pc, spoiled, session>>
      BY <2>3 DEF vars, serverVars, doesntworkVars, Peer, Connect, Send,
         HangUp, data
    <3> QED
      BY <1>2, <3>1, HolderRests
  <2> QED
    BY <1>2, <2>1, <2>2, <2>3 DEF Next
<1> QED
  BY <1>1, <1>2, Invariant, PTL DEF Spec

(* Once a mutex was abandoned no step of the process gives it back or lets *)
(* a thread past pthread_mutex_lock.                                       *)
LEMMA AbandonedNext ==
  ASSUME ThreadTypes, OneProcess, MutexHeld, Quiet, Abandoned,
         Doesntwork!Next, process' = "doesntwork", ~spoiled'
  PROVE  /\ Abandoned' /\ mutex' = mutex
         /\ \A t \in Threads : pc[t] = "lock" => pc'[t] = "lock"
<1> USE EarlierAssumption
    DEF Doesntwork!life, Doesntwork!data, Doesntwork!network,
        Doesntwork!serverVars, Doesntwork!dwVars, Doesntwork!mainVars,
        Doesntwork!threadVars, Doesntwork!pool, Doesntwork!rest,
        Doesntwork!UpAt, Doesntwork!At
<1> DEFINE G == /\ Abandoned' /\ mutex' = mutex
                /\ \A t \in Threads : pc[t] = "lock" => pc'[t] = "lock"
<1> HIDE DEF G
<1>0. /\ mutex \in Workers /\ mutex \in Threads /\ mutex # NULL
      /\ pc[mutex] \in {"close", "over"} /\ ~Holds(session.taken, NL)
  BY DEF Abandoned, ThreadTypes, Threads
<1>1. ASSUME UNCHANGED <<mutex, session>>, NEW t \in Threads, NEW label,
             \/ (pc[t] # "lock" /\ (t = mutex => label = "over"))
             \/ (label = "lock" /\ t # mutex),
             Doesntwork!Goto(t, label)
      PROVE  G
  <2>1. \A u \in Threads : pc'[u] = IF u = t THEN label ELSE pc[u]
    BY <1>1 DEF Doesntwork!Goto, ThreadTypes
  <2>2. pc'[mutex] \in {"close", "over"}
    BY <1>0, <1>1, <2>1
  <2>3. Abandoned'
    BY <1>0, <1>1, <2>2 DEF Abandoned, Holds
  <2>4. \A u \in Threads : pc[u] = "lock" => pc'[u] = "lock"
    BY <1>1, <2>1
  <2> QED
    BY <1>1, <2>3, <2>4 DEF G
<1>2. ASSUME UNCHANGED <<mutex, session, pc>> PROVE G
  BY <1>2 DEF Abandoned, Holds, G
<1>3. process = "doesntwork"
  BY <1>0 DEF OneProcess, Doesntwork!ThreadsInit
<1>4. ~(Doesntwork!StartDoesntwork \/ Doesntwork!StartDoesntworkFails)
  BY <1>3 DEF Doesntwork!StartDoesntwork, Doesntwork!StartDoesntworkFails,
     Doesntwork!Starts, Doesntwork!StartFails, Doesntwork!Up,
     Doesntwork!Programs
<1>5. \A status \in {"success", "failure", "killed"} :
        ~Doesntwork!ThreadsEnd(status)
  BY DEF Doesntwork!ThreadsEnd, Doesntwork!Exit
<1>6. ASSUME \/ Doesntwork!AcceptFails \/ Doesntwork!CreateFails
             \/ Doesntwork!AddThread \/ Doesntwork!ReadHead
             \/ Doesntwork!JoinNext \/ Doesntwork!CleanupAll
             \/ Doesntwork!Signal
             \/ (\E c \in Conns : Doesntwork!Accept(c))
      PROVE  G
  <2>1. UNCHANGED <<mutex, session, pc>>
    BY <1>6, CleanedUp DEF Doesntwork!AcceptFails, Doesntwork!CreateFails,
       Doesntwork!AddThread, Doesntwork!ReadHead, Doesntwork!JoinNext,
       Doesntwork!Signal, Doesntwork!Accept
  <2> QED
    BY <1>2, <2>1
<1>7. ASSUME NEW w \in Workers, Doesntwork!Create(w) PROVE G
  <2>1. /\ UNCHANGED <<mutex, session>> /\ Doesntwork!Goto(w, "lock")
        /\ w # mutex /\ w \in Threads
    BY <1>7 DEF Doesntwork!Create, Doesntwork!Unused, Threads
  <2> QED
    BY <1>1, <2>1
<1>8. ASSUME Doesntwork!StamperStep \/ Doesntwork!StampOpenFails
      PROVE  G
  <2>1. Stamper \in Threads /\ Stamper # mutex
    BY <1>0 DEF Threads
  <2>2. ~spoiled /\ ~Doesntwork!StampOpenFails
    BY <1>8 DEF Doesntwork!StamperStep, Doesntwork!AppendTimestamp,
       Doesntwork!UnlockAgain, Doesntwork!WakeStamper,
       Doesntwork!EndStamper, Doesntwork!StampOpenFails
  <2>3. ~Doesntwork!AppendTimestamp /\ ~Doesntwork!UnlockAgain
    BY <1>0, <2>1, <2>2, LockIsFree DEF Doesntwork!AppendTimestamp,
       Doesntwork!UnlockAgain, MutexHeld
  <2>4. PICK label : /\ Doesntwork!Goto(Stamper, label)
                     /\ pc[Stamper] # "lock"
                     /\ UNCHANGED <<mutex, session>>
    BY <1>8, <2>2, <2>3 DEF Doesntwork!StamperStep, Doesntwork!WakeStamper,
       Doesntwork!EndStamper, Doesntwork!EndThread
  <2> QED
    BY <1>1, <2>1, <2>4
<1>9. ASSUME NEW w \in Workers, Doesntwork!WorkerStep(w) PROVE G
  <2>1. ~spoiled
    BY <1>9 DEF Doesntwork!WorkerStep, Doesntwork!Lock, Doesntwork!Recv,
       Doesntwork!RecvEnds, Doesntwork!OpenToReadFails,
       Doesntwork!SendChunk, Doesntwork!SendEnds, Doesntwork!CloseClient
  <2>2. pc[w] \notin {"recv", "send"}
    BY <1>0, <2>1 DEF MutexHeld
  <2>5. ~Doesntwork!Lock(w)
    BY <1>0, <2>1, LockIsFree DEF Doesntwork!Lock, Threads
  <2>3. Doesntwork!CloseClient(w)
    BY <1>9, <2>2, <2>5 DEF Doesntwork!WorkerStep, Doesntwork!Recv, Doesntwork!RecvEnds, Doesntwork!OpenToReadFails,
       Doesntwork!SendChunk, Doesntwork!SendEnds
  <2>4. /\ UNCHANGED <<mutex, session>> /\ Doesntwork!Goto(w, "over")
        /\ pc[w] = "close" /\ w \in Threads
    BY <2>3 DEF Doesntwork!CloseClient, Doesntwork!EndThread, Threads
  <2> QED
    BY <1>1, <2>4
<1>10. G
  BY <1>4, <1>5, <1>6, <1>7, <1>8, <1>9
     DEF Doesntwork!Next, Doesntwork!MainStep, Doesntwork!ExitProcess,
         Doesntwork!AddThreadFails, Doesntwork!JoinKills,
         Doesntwork!BrokenPipe
<1> QED
  BY <1>10 DEF G

(* The server whose name says it: after a packet without a newline nobody  *)
(* is served any more and no timestamp is written, until the process ends. *)
THEOREM AbandonedIsForGood == Spec => AbandonedForGood
<1> DEFINE A == Abandoned /\ process' = "doesntwork" /\ ~spoiled'
                  => /\ Abandoned' /\ mutex' = mutex
                     /\ \A t \in Threads : pc[t] = "lock" => pc'[t] = "lock"
<1>1. ASSUME IInv, [Next]_vars PROVE [A]_vars
  <2>1. CASE Assign3!Next /\ UNCHANGED doesntworkVars
    BY <1>1, <2>1, MainAlone DEF IInv
  <2>2. CASE Doesntwork!Next
    BY <1>1, <2>2, AbandonedNext, TypeParts DEF IInv
  <2>3. CASE \E c \in Conns :
               Peer(c) /\ UNCHANGED <<assign3Vars, doesntworkVars>>
    <3>1. UNCHANGED <<mutex, pc, session>>
      BY <2>3 DEF doesntworkVars, Peer, Connect, Send, HangUp, data
    <3> QED
      BY <3>1 DEF Abandoned, Holds
  <2> QED
    BY <1>1, <2>1, <2>2, <2>3 DEF Next
<1> HIDE DEF A
<1>2. Spec => [][A]_vars
  BY <1>1, Invariant, PTL DEF Spec
<1> QED
  BY <1>2 DEF AbandonedForGood, A
=============================================================================
