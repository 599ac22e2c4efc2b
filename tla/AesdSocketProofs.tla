-------------------------- MODULE AesdSocketProofs --------------------------
(***************************************************************************)
(* Sessions of the server exclude each other, their packets arrive whole,  *)
(* and their answers are what the device holds, for every number of        *)
(* connections and starts.                                                 *)
(***************************************************************************)
EXTENDS AesdSocket, FiniteSetTheorems, SequenceTheorems, TLAPS

(* The lemmas about sequences: they do not depend on a circular buffer,    *)
(* and any number of slots gives them.                                     *)
Lemmas == INSTANCE DataLemmas WITH MaxOps <- 1, NULL <- 0

LEMMA FlattenType ==
  ASSUME NEW S, NEW s \in Seq(Seq(S))
  PROVE  FlattenSeq(s) \in Seq(S)
<1>1. Lemmas!FlattenSeq(s) \in Seq(S)
  BY Lemmas!FlattenType
<1>2. FlattenSeq(s) = Lemmas!FlattenSeq(s)
  BY Zenon DEF FlattenSeq, Lemmas!FlattenSeq
<1> QED
  BY <1>1, <1>2

LEMMA FunctionIsSeq ==
  ASSUME NEW S, NEW n \in Nat, NEW f \in [1 .. n -> S]
  PROVE  f \in Seq(S) /\ Len(f) = n
BY Lemmas!FunctionIsSeq

LEMMA EndOfConcat ==
  ASSUME NEW S, NEW s \in Seq(S), NEW t \in Seq(S)
  PROVE  IsSuffix(t, s \o t)
<1>1. Lemmas!IsSuffix(t, s \o t)
  BY Lemmas!EndOfConcat
<1>2. Lemmas!IsSuffix(t, s \o t) = IsSuffix(t, s \o t)
  BY Zenon DEF IsSuffix, Lemmas!IsSuffix, IsPrefix, Lemmas!IsPrefix,
     Reverse, Lemmas!Reverse
<1> QED
  BY <1>1, <1>2

(* What the steps of a session depend on.                                  *)
SessionTypes ==
  /\ accepted \in Conns \cup {NULL}
  /\ file_mutex \in Conns \cup {NULL}
  /\ pc \in [Conns -> InSession
                       \cup {"none", "lock", "closing", "cleanup", "over"}]
  /\ conn \in [Conns -> {"none", "backlog", "open", "closed"}]

(* A connection that is not accepted yet has no thread.                    *)
NoThreadYet == \A c \in Conns : conn[c] \in {"none", "backlog"} => pc[c] = "none"

(* main creates the thread of a connection that has none.                  *)
CreatesOnce ==
  main = "create" =>
    /\ accepted \in Conns
    /\ pc[accepted] = "none"
    /\ conn[accepted] \in {"open", "closed"}

IInv == SessionTypes /\ MutexSpansSession /\ NoThreadYet /\ CreatesOnce

-----------------------------------------------------------------------------
(* Steps of a session that keep file_mutex.                                *)
Inside(c) ==
  \/ OpenDevice(c) \/ Recv(c) \/ RecvEnds(c)
  \/ HandleData(c) \/ HandleSeek(c) \/ HandleMalformed(c)
  \/ Reply(c) \/ ReplyEnds(c) \/ SignalClient(c)

(* Steps that concern no session.                                          *)
Outside ==
  \/ Start \/ StartFails
  \/ (run' = FALSE /\ UNCHANGED <<starts, up, main, accepted,
                                  threads, network, device, history>>)
  \/ \E c \in Conns : Send(c) \/ HangUp(c)

LEMMA NextCases ==
  ASSUME [Next]_vars
  PROVE  \/ End \/ Outside \/ TestRun \/ Create \/ CreateFails
         \/ \E c \in Conns : Accept(c) \/ Lock(c) \/ Inside(c) \/ Unlock(c)
                             \/ CloseClient(c) \/ Connect(c)
                             \/ (pc[c] \in InSession /\ Fail(c))
         \/ UNCHANGED vars
<1>1. CASE UNCHANGED vars
  BY <1>1
<1>2. CASE Start \/ StartFails
  BY <1>2 DEF Outside
<1>3. CASE MainStep
  BY <1>3 DEF MainStep, Join
<1>4. CASE AcceptFails \/ CreateFails
  BY <1>4 DEF AcceptFails
<1>5. CASE SignalMain
  BY <1>5 DEF SignalMain, Outside
<1>6. ASSUME NEW c \in Conns, ClientStep(c)
      PROVE  Lock(c) \/ Inside(c) \/ Unlock(c) \/ CloseClient(c) \/ End
  BY <1>6, Zenon DEF ClientStep, Inside, Cleanup
<1>7. ASSUME NEW c \in Conns, ClientFails(c)
      PROVE  End \/ Inside(c) \/ (pc[c] \in InSession /\ Fail(c))
  <2>1. CASE OpenFails(c)
    BY <2>1 DEF OpenFails, InSession
  <2>2. CASE WriteFails(c)
    BY <2>2 DEF WriteFails, InSession
  <2> QED
    BY <1>7, <2>1, <2>2, Zenon DEF ClientFails, BrokenPipe, Inside
<1>8. ASSUME NEW c \in Conns, Peer(c)
      PROVE  Connect(c) \/ Outside
  BY <1>8 DEF Peer, Outside
<1> QED
  BY <1>1, <1>2, <1>3, <1>4, <1>5, <1>6, <1>7, <1>8 DEF Next, MainFails

(* A step inside a session leaves it inside and touches nobody else's.     *)
LEMMA InsideStays ==
  ASSUME NEW c \in Conns, Inside(c), SessionTypes
  PROVE  /\ UNCHANGED <<main, accepted, file_mutex, conn>>
         /\ \E label \in InSession \cup {"lock", "closing", "cleanup"} :
              /\ pc' = [pc EXCEPT ![c] = label]
              /\ label \in InSession <=> pc[c] \in InSession
              /\ pc[c] # "none"
<1> USE DEF InSession, SessionTypes, process, network, device, history
<1>1. CASE OpenDevice(c)
  BY <1>1 DEF OpenDevice
<1>2. CASE Recv(c)
  BY <1>2 DEF Recv
<1>3. CASE RecvEnds(c)
  BY <1>3 DEF RecvEnds
<1>4. CASE HandleData(c)
  BY <1>4 DEF HandleData
<1>5. CASE HandleSeek(c)
  BY <1>5 DEF HandleSeek
<1>6. CASE HandleMalformed(c)
  BY <1>6 DEF HandleMalformed
<1>7. CASE Reply(c)
  <2>1. pc' = [pc EXCEPT ![c] = pc[c]] /\ pc[c] \in InSession
    BY <1>7 DEF Reply, Replying
  <2> QED
    BY <2>1, <1>7 DEF Reply
<1>8. CASE ReplyEnds(c)
  BY <1>8 DEF ReplyEnds, Replying
<1>9. CASE SignalClient(c)
  <2>1. pc[c] \in InSession \cup {"lock", "closing", "cleanup"}
    BY <1>9 DEF SignalClient
  <2>2. CASE pc[c] = "recv" /\ inbox[c] = <<>> /\ ~hungup[c]
    BY <1>9, <2>1, <2>2 DEF SignalClient
  <2>3. CASE ~(pc[c] = "recv" /\ inbox[c] = <<>> /\ ~hungup[c])
    <3>1. pc' = [pc EXCEPT ![c] = pc[c]]
      BY <1>9, <2>3 DEF SignalClient
    <3> QED
      BY <3>1, <2>1, <1>9 DEF SignalClient
  <2> QED
    BY <2>2, <2>3
<1> QED
  BY <1>1, <1>2, <1>3, <1>4, <1>5, <1>6, <1>7, <1>8, <1>9, Zenon DEF Inside

-----------------------------------------------------------------------------
LEMMA InitIInv == ASSUME SocketAssumption, Init PROVE IInv
BY DEF Init, IInv, SessionTypes, MutexSpansSession, NoThreadYet, CreatesOnce,
       InSession, SocketAssumption

LEMMA NextIInv == ASSUME SocketAssumption, IInv, [Next]_vars PROVE IInv'
<1> USE DEF IInv, SessionTypes, MutexSpansSession, NoThreadYet, CreatesOnce,
            InSession, SocketAssumption
<1> USE DEF process, threads, network, device, history
<1>1. CASE End
  BY <1>1 DEF End
<1>2. CASE Outside
  BY <1>2 DEF Outside, Start, StartFails, Send, HangUp
<1>3. CASE TestRun
  BY <1>3 DEF TestRun, MainAt
<1>4. CASE Create
  BY <1>4 DEF Create, MainAt
<1>5. CASE CreateFails
  BY <1>5 DEF CreateFails, MainAt
<1>6. ASSUME NEW c \in Conns, Accept(c) PROVE IInv'
  BY <1>6 DEF Accept, MainAt
<1>7. ASSUME NEW c \in Conns, Lock(c) PROVE IInv'
  BY <1>7 DEF Lock
<1>8. ASSUME NEW c \in Conns, Inside(c) PROVE IInv'
  BY <1>8, InsideStays
<1>9. ASSUME NEW c \in Conns, Unlock(c) PROVE IInv'
  BY <1>9 DEF Unlock
<1>10. ASSUME NEW c \in Conns, CloseClient(c) PROVE IInv'
  BY <1>10 DEF CloseClient
<1>11. ASSUME NEW c \in Conns, Connect(c) PROVE IInv'
  BY <1>11 DEF Connect
<1>12. ASSUME NEW c \in Conns, pc[c] \in InSession, Fail(c) PROVE IInv'
  BY <1>12 DEF Fail
<1>13. CASE UNCHANGED vars
  BY <1>13 DEF vars
<1> QED
  BY NextCases, <1>1, <1>2, <1>3, <1>4, <1>5, <1>6, <1>7, <1>8, <1>9, <1>10,
     <1>11, <1>12, <1>13

(* A thread holds file_mutex exactly from open to close, whichever way its *)
(* session ends, so that two sessions never use the device together.       *)
THEOREM MutualExclusion == Spec => []MutexSpansSession
<1>1. Init => IInv
  BY InitIInv, SocketAssumption
<1>2. IInv /\ [Next]_vars => IInv'
  BY NextIInv, SocketAssumption
<1>3. IInv => MutexSpansSession
  BY DEF IInv
<1> QED
  BY <1>1, <1>2, <1>3, PTL DEF Spec

-----------------------------------------------------------------------------
(* The values the sessions work on.                                        *)

LEMMA KeepsNewest ==
  ASSUME SocketAssumption,
         NEW X, NEW s \in Seq(X), Len(s) <= MaxOps, NEW e \in X
  PROVE  LET kept == Keep(Append(s, e))
         IN  /\ kept \in Seq(X)
             /\ Len(kept) <= MaxOps
             /\ kept # <<>> /\ Last(kept) = e
<1>1. Append(s, e) \in Seq(X) /\ Len(Append(s, e)) = Len(s) + 1
      /\ Append(s, e)[Len(s) + 1] = e
  OBVIOUS
<1>2. CASE Len(s) + 1 > MaxOps
  BY <1>1, <1>2 DEF Keep, Last, SocketAssumption
<1>3. CASE Len(s) + 1 <= MaxOps
  BY <1>1, <1>3 DEF Keep, Last, SocketAssumption
<1> QED
  BY <1>2, <1>3

LEMMA DataType ==
  ASSUME SocketAssumption, TypeOK, NEW c \in Conns
  PROVE  /\ Data(c) \in Seq(Byte)
         /\ Len(Data(c)) = received[c]
         /\ \A i \in 1 .. received[c] : Data(c)[i] = buffer[c][i]
<1>1. /\ buffer[c] \in [1 .. BufferSize -> Byte]
      /\ received[c] \in 0 .. BufferSize /\ BufferSize \in Nat
  BY DEF TypeOK, SocketAssumption
<1>2. buffer[c] \in Seq(Byte) /\ Len(buffer[c]) = BufferSize
  BY <1>1
<1> QED
  BY <1>1, <1>2 DEF Data

LEMMA TextType ==
  ASSUME TypeOK
  PROVE  Text \in Seq(Byte) /\ Len(Text) \in Nat
<1>1. Text \in Seq(Byte)
  BY FlattenType DEF Text, TypeOK
<1> QED
  BY <1>1

LEMMA ReadBufType ==
  ASSUME SocketAssumption, TypeOK, NEW c \in Conns
  PROVE  /\ ReadBuf(c) \in Seq(Byte)
         /\ f_pos[c] + Len(ReadBuf(c)) <= Len(Text) \/ ReadBuf(c) = <<>>
         /\ f_pos[c] <= Len(Text) =>
              SubSeq(Text, 1, f_pos[c] + Len(ReadBuf(c))) =
                SubSeq(Text, 1, f_pos[c]) \o ReadBuf(c)
         /\ ReadBuf(c) = <<>> => f_pos[c] >= Len(Text)
<1>1. f_pos[c] \in Nat /\ BufferSize \in Nat /\ BufferSize > 0
  BY DEF TypeOK, SocketAssumption
<1>2. Text \in Seq(Byte) /\ Len(Text) \in Nat
  BY TextType
<1> DEFINE p == f_pos[c]
           last == IF p + BufferSize > Len(Text)
                   THEN Len(Text) ELSE p + BufferSize
<1>3. ReadBuf(c) = SubSeq(Text, p + 1, last) /\ last \in Nat /\ last <= Len(Text)
  BY <1>1, <1>2 DEF ReadBuf
<1>4. CASE p >= Len(Text)
  <2>1. last = Len(Text) /\ p \in Nat
    BY <1>1, <1>2, <1>4
  <2> HIDE DEF last
  <2>2. ReadBuf(c) = <<>>
    BY <1>2, <1>3, <1>4, <2>1
  <2> QED
    BY <2>2, <1>1, <1>2, <1>4
<1>5. CASE p < Len(Text)
  <2>1. p + 1 <= last /\ p \in Nat
    BY <1>1, <1>2, <1>5
  <2> HIDE DEF last, p
  <2>2. ReadBuf(c) \in Seq(Byte) /\ Len(ReadBuf(c)) = last - p
    BY <1>2, <1>3, <2>1
  <2>3. SubSeq(Text, 1, last) = SubSeq(Text, 1, p) \o SubSeq(Text, p + 1, last)
    BY <1>2, <1>3, <2>1
  <2>4. p + Len(ReadBuf(c)) = last /\ Len(ReadBuf(c)) # 0
    BY <2>1, <2>2, <1>3
  <2>5. /\ p + Len(ReadBuf(c)) <= Len(Text) /\ ReadBuf(c) # <<>>
        /\ SubSeq(Text, 1, p + Len(ReadBuf(c))) =
             SubSeq(Text, 1, p) \o ReadBuf(c)
    BY <2>2, <2>3, <2>4, <1>3
  <2> QED
    BY <2>2, <2>5 DEF p
<1>6. p >= Len(Text) \/ p < Len(Text)
  BY <1>1, <1>2
<1> QED
  BY <1>6, <1>4, <1>5

-----------------------------------------------------------------------------
(* Types.                                                                  *)

LEMMA TypeInit == ASSUME SocketAssumption, Init PROVE TypeOK
<1>1. NL \in Byte
  BY DEF SocketAssumption
<1>2. [i \in 1 .. BufferSize |-> NL] \in [1 .. BufferSize -> Byte]
  BY <1>1
<1>3. /\ buffer \in [Conns -> [1 .. BufferSize -> Byte]]
      /\ received \in [Conns -> 0 .. BufferSize]
      /\ sent \in [Conns -> Nat]
  BY <1>2 DEF Init, SocketAssumption
<1>4. /\ <<>> \in Seq(Byte) /\ <<>> \in Seq(Seq(Byte))
      /\ Len(<<>>) <= MaxOps /\ 0 \in 0 .. MaxStarts
  BY DEF SocketAssumption
<1> QED
  BY <1>3, <1>4 DEF Init, TypeOK, InSession

LEMMA TypeOutside == ASSUME SocketAssumption, TypeOK, Outside PROVE TypeOK'
<1> USE DEF TypeOK, process, threads, network, device, history
<1>1. CASE Start
  BY <1>1 DEF Start, SocketAssumption
<1>2. CASE StartFails
  BY <1>2 DEF StartFails, SocketAssumption
<1>3. CASE run' = FALSE /\ UNCHANGED <<starts, up, main, accepted,
                                       threads, network, device, history>>
  BY <1>3
<1>4. ASSUME NEW c \in Conns, Send(c) PROVE TypeOK'
  <2>1. /\ sent \in [Conns -> Nat] /\ inbox \in [Conns -> Seq(Byte)]
        /\ sent[c] < Len(Packet[c])
        /\ sent' = [sent EXCEPT ![c] = @ + 1]
        /\ inbox' = [inbox EXCEPT ![c] =
                       Append(@, Packet[c][sent[c] + 1])]
    BY <1>4 DEF Send
  <2>2. sent' \in [Conns -> Nat] /\ inbox' \in [Conns -> Seq(Byte)]
    <3> HIDE DEF TypeOK
    <3>1. Packet[c] \in Seq(Byte)
      BY PacketAssumption
    <3>2. Packet[c][sent[c] + 1] \in Byte
      BY <2>1, <3>1
    <3> QED
      BY <2>1, <3>2
  <2> QED
    BY <1>4, <2>2 DEF Send
<1>5. ASSUME NEW c \in Conns, HangUp(c) PROVE TypeOK'
  BY <1>5 DEF HangUp
<1> QED
  BY <1>1, <1>2, <1>3, <1>4, <1>5 DEF Outside

LEMMA TypeDeviceWrite ==
  ASSUME SocketAssumption, TypeOK,
         NEW data \in Seq(Byte), NEW stored \in BOOLEAN,
         DeviceWrite(data, stored)
  PROVE  /\ log' \in Seq(Seq(Byte))
         /\ Len(log') <= MaxOps
         /\ pending' \in Seq(Byte)
<1> DEFINE bytes == pending \o data
<1>1. bytes \in Seq(Byte)
  BY DEF TypeOK
<1>2. /\ Keep(Append(log, bytes)) \in Seq(Seq(Byte))
      /\ Len(Keep(Append(log, bytes))) <= MaxOps
  <2> HIDE DEF bytes
  <2> QED
    BY <1>1, KeepsNewest DEF TypeOK
<1>3. <<>> \in Seq(Byte)
  OBVIOUS
<1>4. log \in Seq(Seq(Byte)) /\ Len(log) <= MaxOps
  BY DEF TypeOK
<1>5. \/ pending' = bytes /\ log' = log
      \/ pending' = <<>> /\ log' = Keep(Append(log, bytes))
      \/ pending' = <<>> /\ log' = log
  BY DEF DeviceWrite
<1> HIDE DEF bytes
<1> QED
  BY <1>1, <1>2, <1>3, <1>4, <1>5

LEMMA TypeInside ==
  ASSUME SocketAssumption, TypeOK, NEW c \in Conns, Inside(c)
  PROVE  TypeOK'
<1> DEFINE Moves(label) ==
             /\ pc' = [pc EXCEPT ![c] = label]
             /\ UNCHANGED <<process, file_mutex, buffer, received,
                            network, device, history>>
<1>1. ASSUME NEW label \in InSession, Moves(label), f_pos' \in [Conns -> Nat]
      PROVE  TypeOK'
  BY <1>1 DEF TypeOK, InSession, process, network, device, history
<1>2. CASE OpenDevice(c)
  BY <1>2, <1>1 DEF OpenDevice, InSession, TypeOK
<1>3. CASE Recv(c)
  <2>1. PICK n \in 1 .. BufferSize :
          /\ n <= Len(inbox[c])
          /\ received' = [received EXCEPT ![c] = n]
          /\ buffer' = [buffer EXCEPT ![c] =
                          [i \in 1 .. BufferSize |->
                             IF i <= n THEN inbox[c][i] ELSE @[i]]]
          /\ inbox' = [inbox EXCEPT ![c] = SubSeq(@, n + 1, Len(@))]
          /\ taken' = [taken EXCEPT ![c] =
                         IF IsSeek(c)' THEN @ ELSE @ \o SubSeq(inbox[c], 1, n)]
    BY <1>3 DEF Recv
  <2>2. inbox[c] \in Seq(Byte) /\ taken[c] \in Seq(Byte)
        /\ n \in Nat /\ BufferSize \in Nat
    BY DEF TypeOK, SocketAssumption
  <2>3. received' \in [Conns -> 0 .. BufferSize]
    BY <2>1, <2>2 DEF TypeOK
  <2>4. [i \in 1 .. BufferSize |-> IF i <= n THEN inbox[c][i] ELSE buffer[c][i]]
          \in [1 .. BufferSize -> Byte]
    BY <2>1, <2>2 DEF TypeOK
  <2>5. buffer' \in [Conns -> [1 .. BufferSize -> Byte]]
    BY <2>1, <2>4 DEF TypeOK
  <2>6. inbox' \in [Conns -> Seq(Byte)]
    <3>1. SubSeq(inbox[c], n + 1, Len(inbox[c])) \in Seq(Byte)
      BY <2>2
    <3>2. inbox \in [Conns -> Seq(Byte)]
      BY DEF TypeOK
    <3>3. inbox' = [inbox EXCEPT ![c] = SubSeq(@, n + 1, Len(@))]
      BY <2>1
    <3> QED
      BY <3>1, <3>2, <3>3
  <2>7. SubSeq(inbox[c], 1, n) \in Seq(Byte)
    <3>1. n <= Len(inbox[c])
      BY <2>1
    <3> QED
      BY <3>1, <2>2
  <2>8. taken' \in [Conns -> Seq(Byte)]
    BY <2>1, <2>2, <2>7 DEF TypeOK
  <2> QED
    BY <1>3, <2>3, <2>5, <2>6, <2>8
    DEF Recv, TypeOK, InSession, process, device
<1>4. CASE RecvEnds(c)
  BY <1>4, <1>1 DEF RecvEnds, InSession, TypeOK
<1>5. CASE HandleData(c)
  <2>1. PICK stored \in BOOLEAN :
          /\ DeviceWrite(Data(c), stored)
          /\ missing' = [missing EXCEPT ![c] =
                            IF stored THEN {} ELSE {"command"}]
    BY <1>5, Zenon DEF HandleData
  <2>2. /\ log' \in Seq(Seq(Byte))
        /\ Len(log') <= MaxOps
        /\ pending' \in Seq(Byte)
    BY <2>1, DataType, TypeDeviceWrite
  <2>3. f_pos' \in [Conns -> Nat]
    BY <1>5 DEF HandleData, TypeOK, SocketAssumption
  <2>4. missing' \in [Conns -> SUBSET {"bytes", "command"}]
    BY <2>1 DEF TypeOK
  <2> QED
    BY <1>5, <2>2, <2>3, <2>4
    DEF HandleData, TypeOK, InSession, process, network
<1>6. CASE HandleSeek(c)
  <2>1. ASSUME NEW s \in SeekTos PROVE Sought(s, f_pos[c]) \subseteq Nat
    <3>1. s.write_cmd \in Nat /\ s.write_cmd_offset \in Nat
      BY DEF SocketAssumption
    <3>2. ASSUME s.write_cmd < Len(log)
          PROVE  Len(FlattenSeq(SubSeq(log, 1, s.write_cmd))) \in Nat
      <4>1. SubSeq(log, 1, s.write_cmd) \in Seq(Seq(Byte))
        BY <3>1, <3>2 DEF TypeOK
      <4>2. FlattenSeq(SubSeq(log, 1, s.write_cmd)) \in Seq(Byte)
        BY <4>1, FlattenType
      <4> QED
        BY <4>2
    <3>3. f_pos[c] \in Nat
      BY DEF TypeOK
    <3> QED
      BY <3>1, <3>2, <3>3 DEF Sought
  <2>2. f_pos' \in [Conns -> Nat]
    BY <1>6, <2>1, TextType DEF HandleSeek, TypeOK
  <2> QED
    BY <1>6, <2>2, <1>1 DEF HandleSeek, InSession
<1>7. CASE HandleMalformed(c)
  BY <1>7, <1>1 DEF HandleMalformed, InSession, TypeOK
<1>8. CASE Reply(c)
  <2>1. PICK n \in 0 .. Len(ReadBuf(c)) :
          /\ reply' = [reply EXCEPT ![c] = @ \o SubSeq(ReadBuf(c), 1, n)]
          /\ missing' = [missing EXCEPT ![c] =
                            IF n < Len(ReadBuf(c)) THEN @ \cup {"bytes"} ELSE @]
    BY <1>8, Zenon DEF Reply
  <2>2. ReadBuf(c) \in Seq(Byte)
    BY ReadBufType
  <2>3. SubSeq(ReadBuf(c), 1, n) \in Seq(Byte)
    <3> DEFINE chunk == ReadBuf(c)
    <3>1. chunk \in Seq(Byte) /\ n \in 0 .. Len(chunk)
      BY <2>2
    <3> HIDE DEF chunk
    <3> QED
      BY <3>1 DEF chunk
  <2>4. reply' \in [Conns -> Seq(Byte)]
    BY <2>1, <2>3 DEF TypeOK
  <2>5. f_pos' \in [Conns -> Nat]
    BY <1>8, <2>2 DEF Reply, TypeOK
  <2>6. missing' \in [Conns -> SUBSET {"bytes", "command"}]
    BY <2>1 DEF TypeOK
  <2> QED
    BY <1>8, <2>4, <2>5, <2>6 DEF Reply, TypeOK, process, device
<1>9. CASE ReplyEnds(c)
  BY <1>9, <1>1 DEF ReplyEnds, InSession, TypeOK
<1>10. CASE SignalClient(c)
  BY <1>10 DEF SignalClient, TypeOK, InSession, network, device, history
<1> QED
  BY <1>2, <1>3, <1>4, <1>5, <1>6, <1>7, <1>8, <1>9, <1>10 DEF Inside

LEMMA TypeNext == ASSUME SocketAssumption, TypeOK, [Next]_vars PROVE TypeOK'
<1> USE DEF TypeOK, InSession, process, threads, network, device, history
<1>1. CASE End
  BY <1>1 DEF End
<1>2. CASE TestRun
  BY <1>2 DEF TestRun
<1>3. CASE Create
  <2>1. PICK junk \in [1 .. BufferSize -> Byte] :
          buffer' = [buffer EXCEPT ![accepted] = junk]
    BY <1>3 DEF Create
  <2>2. buffer' \in [Conns -> [1 .. BufferSize -> Byte]]
    BY <2>1
  <2> QED
    BY <1>3, <2>2 DEF Create
<1>4. CASE CreateFails
  BY <1>4 DEF CreateFails
<1>5. ASSUME NEW c \in Conns, Accept(c) PROVE TypeOK'
  BY <1>5 DEF Accept
<1>6. ASSUME NEW c \in Conns, Lock(c) PROVE TypeOK'
  BY <1>6 DEF Lock
<1>7. ASSUME NEW c \in Conns, Unlock(c) PROVE TypeOK'
  BY <1>7 DEF Unlock
<1>8. ASSUME NEW c \in Conns, CloseClient(c) PROVE TypeOK'
  BY <1>8 DEF CloseClient
<1>9. ASSUME NEW c \in Conns, Connect(c) PROVE TypeOK'
  BY <1>9 DEF Connect
<1>10. ASSUME NEW c \in Conns, Fail(c) PROVE TypeOK'
  BY <1>10 DEF Fail
<1>11. CASE UNCHANGED vars
  BY <1>11 DEF vars
<1> QED
  BY NextCases, TypeOutside, TypeInside, <1>1, <1>2, <1>3, <1>4, <1>5, <1>6,
     <1>7, <1>8, <1>9, <1>10, <1>11

(* Every variable of the server keeps its type, whatever peers send.       *)
THEOREM TypeCorrect == Spec => []TypeOK
<1>1. Init => TypeOK
  BY TypeInit, SocketAssumption
<1>2. TypeOK /\ [Next]_vars => TypeOK'
  BY TypeNext, SocketAssumption
<1> QED
  BY <1>1, <1>2, PTL DEF Spec

-----------------------------------------------------------------------------
(* What a session received and what it answers.  PacketsDoNotMix speaks of *)
(* the labels between the steps on the device; at "handle" the bytes that  *)
(* came last are still in the buffer.                                      *)
Follows(c) ==
  /\ pc[c] \in {"none", "lock"} => taken[c] = <<>>
  /\ pc[c] \in {"open", "recv", "seek_reply"} => pending = left \o taken[c]
  /\ pc[c] = "handle" =>
       /\ received[c] # 0
       /\ (IF IsSeek(c) THEN pending ELSE pending \o Data(c)) =
            left \o taken[c]

(* The answer as far as it was sent: the device up to f_pos, after what    *)
(* earlier seeks of the session were answered with, as long as no send of  *)
(* it was short.                                                           *)
Answers(c) ==
  pc[c] = "reply" =>
    /\ "command" \notin missing[c] =>
         log # <<>> /\ Last(log) = left \o taken[c]
    /\ f_pos[c] <= Len(Text)
    /\ "bytes" \notin missing[c] =>
         \E before \in Seq(Byte) :
           reply[c] = before \o SubSeq(Text, 1, f_pos[c])

Contents == \A c \in Conns : Follows(c) /\ Answers(c)

(* What the device holds back is no command yet.                           *)
NoneWhole == ~Holds(pending, NL)

(* What Follows and Answers read of a connection.                          *)
ReadOf(c) ==
  <<pc[c], buffer[c], received[c], f_pos[c], reply[c], taken[c],
    missing[c]>>

LEMMA InitContents == ASSUME Init PROVE Contents
BY DEF Init, Contents, Follows, Answers

LEMMA ContentsStay ==
  ASSUME Contents, NEW c \in Conns, UNCHANGED <<ReadOf(c), device, left>>
  PROVE  (Follows(c) /\ Answers(c))'
<1>1. UNCHANGED <<pc[c], buffer[c], received[c], f_pos[c], reply[c], taken[c],
                  missing[c], log, pending, left>>
  BY DEF ReadOf, device
<1>2. UNCHANGED <<IsSeek(c), Data(c), Text>>
  BY <1>1 DEF IsSeek, Data, Text
<1>3. Follows(c) /\ Answers(c)
  BY DEF Contents
<1>4. Follows(c)'
  BY <1>1, <1>2, <1>3 DEF Follows
<1>5. Answers(c)'
  BY <1>1, <1>2, <1>3 DEF Answers
<1> QED
  BY <1>4, <1>5

(* A connection outside of a session is not concerned by what happens in   *)
(* the session of another one.                                             *)
LEMMA ContentsOutside ==
  ASSUME Contents, NEW c \in Conns, pc[c] \notin InSession,
         UNCHANGED <<pc[c], taken[c]>>
  PROVE  (Follows(c) /\ Answers(c))'
<1>1. Follows(c)
  BY DEF Contents
<1> QED
  BY <1>1 DEF Follows, Answers, InSession

LEMMA OthersOutside ==
  ASSUME MutexSpansSession, NEW c \in Conns, pc[c] \in InSession,
         NEW d \in Conns, d # c
  PROVE  pc[d] \notin InSession
BY DEF MutexSpansSession

LEMMA ConcatBytes ==
  \A s, t, u \in Seq(Byte) : (s \o t) \o u = s \o (t \o u)
BY ConcatAssociative

LEMMA ContentsRecv ==
  ASSUME SocketAssumption, TypeOK, Contents, NEW c \in Conns, Recv(c)
  PROVE  (Follows(c) /\ Answers(c))'
<1>1. PICK n \in 1 .. BufferSize :
        /\ n <= Len(inbox[c])
        /\ received' = [received EXCEPT ![c] = n]
        /\ buffer' = [buffer EXCEPT ![c] =
                        [i \in 1 .. BufferSize |->
                           IF i <= n THEN inbox[c][i] ELSE @[i]]]
        /\ taken' = [taken EXCEPT ![c] =
                       IF IsSeek(c)' THEN @ ELSE @ \o SubSeq(inbox[c], 1, n)]
  BY DEF Recv
<1>2. /\ pc[c] = "recv" /\ pc'[c] = "handle"
      /\ UNCHANGED <<pending, left>>
  BY DEF Recv, TypeOK, device
<1>3. /\ inbox[c] \in Seq(Byte) /\ taken[c] \in Seq(Byte)
      /\ left \in Seq(Byte) /\ pending \in Seq(Byte)
      /\ BufferSize \in Nat /\ n \in Nat /\ n # 0 /\ n <= BufferSize
      /\ n <= Len(inbox[c])
  BY <1>1 DEF TypeOK, SocketAssumption
<1>4. pending = left \o taken[c]
  BY <1>2 DEF Contents, Follows
<1>5. received'[c] = n
  BY <1>1 DEF TypeOK
<1>6. buffer'[c] = [i \in 1 .. BufferSize |->
                      IF i <= n THEN inbox[c][i] ELSE buffer[c][i]]
  BY <1>1 DEF TypeOK
<1>7. Data(c)' = SubSeq(inbox[c], 1, n)
  <2>1. /\ SubSeq(inbox[c], 1, n) \in Seq(Byte)
        /\ Len(SubSeq(inbox[c], 1, n)) = n
        /\ \A i \in 1 .. n : SubSeq(inbox[c], 1, n)[i] = inbox[c][i]
    BY <1>3
  <2>2. Data(c)' = SubSeq(buffer'[c], 1, n)
    BY <1>5 DEF Data
  <2>3. /\ SubSeq(buffer'[c], 1, n) \in Seq(Byte)
        /\ Len(SubSeq(buffer'[c], 1, n)) = n
        /\ \A i \in 1 .. n : SubSeq(buffer'[c], 1, n)[i] = buffer'[c][i]
    <3>1. buffer'[c] \in [1 .. BufferSize -> Byte]
      <4>1. buffer[c] \in [1 .. BufferSize -> Byte]
        BY DEF TypeOK
      <4> QED
        BY <4>1, <1>3, <1>6
    <3> DEFINE u == buffer'[c]
    <3> HIDE DEF u
    <3>2. u \in Seq(Byte) /\ Len(u) = BufferSize
      BY <3>1, <1>3, FunctionIsSeq, Zenon DEF u
    <3>3. /\ SubSeq(u, 1, n) \in Seq(Byte)
          /\ Len(SubSeq(u, 1, n)) = n
          /\ \A i \in 1 .. n : SubSeq(u, 1, n)[i] = u[i]
      BY <3>2, <1>3
    <3> QED
      BY <3>3 DEF u
  <2>4. \A i \in 1 .. n : buffer'[c][i] = inbox[c][i]
    BY <1>3, <1>6
  <2> QED
    BY <2>1, <2>2, <2>3, <2>4, <1>3
<1>8. taken'[c] = IF IsSeek(c)' THEN taken[c]
                  ELSE taken[c] \o SubSeq(inbox[c], 1, n)
  BY <1>1 DEF TypeOK
<1>9. (left \o taken[c]) \o SubSeq(inbox[c], 1, n) =
         left \o (taken[c] \o SubSeq(inbox[c], 1, n))
  <2>1. SubSeq(inbox[c], 1, n) \in Seq(Byte)
    BY <1>3
  <2>2. \A t, u \in Seq(Byte) : (left \o t) \o u = left \o (t \o u)
    BY <1>3, ConcatBytes
  <2> QED
    BY <2>1, <2>2, <1>3
<1>10. (IF IsSeek(c) THEN pending ELSE pending \o Data(c))' =
         left' \o taken'[c]
  BY <1>2, <1>4, <1>7, <1>8, <1>9
<1> QED
  BY <1>2, <1>3, <1>5, <1>10 DEF Follows, Answers

LEMMA ContentsHandleData ==
  ASSUME SocketAssumption, TypeOK, Contents, NoneWhole,
         NEW c \in Conns, HandleData(c)
  PROVE  (Follows(c) /\ Answers(c))' /\ NoneWhole'
<1> DEFINE ends  == Holds(Data(c), NL)
           bytes == pending \o Data(c)
<1>1. /\ Data(c) \in Seq(Byte) /\ pending \in Seq(Byte)
      /\ left \in Seq(Byte) /\ taken[c] \in Seq(Byte)
      /\ reply[c] \in Seq(Byte)
  BY DataType DEF TypeOK
<1>2. bytes = left \o taken[c]
  BY DEF HandleData, Contents, Follows
<1>3. Holds(bytes, NL) <=> ends
  <2>1. /\ Len(bytes) = Len(pending) + Len(Data(c))
        /\ \A i \in DOMAIN pending : i \in DOMAIN bytes /\ bytes[i] = pending[i]
        /\ \A i \in DOMAIN Data(c) :
             /\ Len(pending) + i \in DOMAIN bytes
             /\ bytes[Len(pending) + i] = Data(c)[i]
        /\ \A i \in DOMAIN bytes :
             IF i <= Len(pending) THEN i \in DOMAIN pending
             ELSE /\ i - Len(pending) \in DOMAIN Data(c)
                  /\ i = Len(pending) + (i - Len(pending))
    BY <1>1
  <2> HIDE DEF bytes
  <2> QED
    BY <2>1 DEF NoneWhole, Holds
<1>4. /\ UNCHANGED <<reply, left, taken>>
      /\ f_pos'[c] = IF ends THEN 0 ELSE f_pos[c] + received[c]
      /\ pc'[c] = IF ends THEN "reply" ELSE "recv"
  BY DEF HandleData, TypeOK, network
<1>5. IF ~Holds(bytes, NL)
      THEN pending' = bytes
      ELSE /\ pending' = <<>>
           /\ "command" \notin missing'[c] => log' = Keep(Append(log, bytes))
  <2>1. PICK stored \in BOOLEAN :
          /\ DeviceWrite(Data(c), stored)
          /\ missing' = [missing EXCEPT ![c] =
                            IF stored THEN {} ELSE {"command"}]
    BY Zenon DEF HandleData
  <2>2. "command" \notin missing'[c] => stored
    BY <2>1 DEF TypeOK
  <2> QED
    BY <2>1, <2>2 DEF DeviceWrite
<1>6. CASE ~ends
  <2>1. NoneWhole'
    BY <1>3, <1>5, <1>6 DEF NoneWhole
  <2> HIDE DEF bytes, ends
  <2> QED
    BY <2>1, <1>2, <1>3, <1>4, <1>5, <1>6 DEF Follows, Answers
<1>7. CASE ends
  <2>1. NoneWhole'
    BY <1>3, <1>5, <1>7 DEF NoneWhole, Holds
  <2>2. "command" \notin missing'[c] => log' # <<>> /\ Last(log') = bytes
    <3>1. bytes \in Seq(Byte)
      BY <1>1
    <3> HIDE DEF bytes
    <3>2. log \in Seq(Seq(Byte)) /\ Len(log) <= MaxOps
      BY DEF TypeOK
    <3> QED
      BY <3>1, <3>2, <1>3, <1>5, <1>7, KeepsNewest
  <2>3. Text' \in Seq(Byte)
    <3>1. Inside(c)
      BY DEF Inside
    <3>2. log' \in Seq(Seq(Byte))
      BY <3>1, TypeInside DEF TypeOK
    <3> QED
      BY <3>2, FlattenType DEF Text
  <2>4. f_pos'[c] = 0 /\ f_pos'[c] <= Len(Text')
        /\ reply'[c] = reply[c] \o SubSeq(Text', 1, f_pos'[c])
    BY <1>1, <1>4, <1>7, <2>3
  <2> HIDE DEF bytes, ends
  <2>5. Answers(c)'
    BY <1>1, <1>2, <1>4, <1>7, <2>2, <2>4 DEF Answers
  <2> QED
    BY <2>1, <2>5, <1>4, <1>7 DEF Follows
<1> QED
  BY <1>6, <1>7

LEMMA ContentsReply ==
  ASSUME SocketAssumption, TypeOK, Contents, NEW c \in Conns, Reply(c)
  PROVE  (Follows(c) /\ Answers(c))'
<1>1. /\ UNCHANGED <<pc, buffer, received, log, pending, left, taken>>
      /\ f_pos'[c] = f_pos[c] + Len(ReadBuf(c))
      /\ ReadBuf(c) # <<>>
  BY DEF Reply, TypeOK, device
<1>2. UNCHANGED <<IsSeek(c), Data(c), Text>>
  BY <1>1 DEF IsSeek, Data, Text
<1>3. Follows(c)'
  BY <1>1, <1>2 DEF Contents, Follows
<1>4. CASE pc[c] # "reply"
  BY <1>1, <1>3, <1>4 DEF Answers
<1>5. CASE pc[c] = "reply"
  <2>1. Answers(c)
    BY DEF Contents
  <2>2. /\ f_pos[c] <= Len(Text)
        /\ "command" \notin missing[c] =>
             log # <<>> /\ Last(log) = left \o taken[c]
    BY <2>1, <1>5 DEF Answers
  <2>3. /\ f_pos[c] + Len(ReadBuf(c)) <= Len(Text)
        /\ SubSeq(Text, 1, f_pos[c] + Len(ReadBuf(c))) =
             SubSeq(Text, 1, f_pos[c]) \o ReadBuf(c)
        /\ ReadBuf(c) \in Seq(Byte)
    BY <2>2, <1>1, ReadBufType
  <2>4. PICK n \in 0 .. Len(ReadBuf(c)) :
          /\ reply' = [reply EXCEPT ![c] = @ \o SubSeq(ReadBuf(c), 1, n)]
          /\ missing' = [missing EXCEPT ![c] =
                            IF n < Len(ReadBuf(c)) THEN @ \cup {"bytes"} ELSE @]
    BY Zenon DEF Reply
  <2>5. "command" \notin missing'[c] => "command" \notin missing[c]
    BY <2>4 DEF TypeOK
  <2>6. ASSUME "bytes" \notin missing'[c]
        PROVE  \E before \in Seq(Byte) :
                 reply'[c] = before \o SubSeq(Text, 1, f_pos'[c])
    <3>1. "bytes" \notin missing[c] /\ ~(n < Len(ReadBuf(c)))
      BY <2>4, <2>6 DEF TypeOK
    <3>2. SubSeq(ReadBuf(c), 1, n) = ReadBuf(c)
      <4> DEFINE chunk == ReadBuf(c)
      <4>1. chunk \in Seq(Byte) /\ n \in 0 .. Len(chunk) /\ ~(n < Len(chunk))
        BY <2>3, <3>1
      <4> HIDE DEF chunk
      <4> QED
        BY <4>1 DEF chunk
    <3>3. PICK before \in Seq(Byte) :
            reply[c] = before \o SubSeq(Text, 1, f_pos[c])
      BY <2>1, <1>5, <3>1 DEF Answers
    <3> DEFINE first == SubSeq(Text, 1, f_pos[c])
    <3>4. first \in Seq(Byte) /\ ReadBuf(c) \in Seq(Byte)
      <4>1. f_pos[c] \in Nat
        BY DEF TypeOK
      <4> QED
        BY <2>2, <2>3, <4>1, TextType
    <3>5. first \o ReadBuf(c) = SubSeq(Text, 1, f_pos'[c])
      BY <1>1, <2>3
    <3>6. reply'[c] = (before \o first) \o ReadBuf(c)
      BY <2>4, <3>2, <3>3 DEF TypeOK
    <3> HIDE DEF first
    <3>7. (before \o first) \o ReadBuf(c) = before \o (first \o ReadBuf(c))
      BY <3>3, <3>4, ConcatBytes
    <3> QED
      BY <3>3, <3>5, <3>6, <3>7
  <2> QED
    BY <1>1, <1>2, <1>3, <2>2, <2>3, <2>5, <2>6 DEF Answers
<1> QED
  BY <1>4, <1>5

(* The other steps of a session, none of which moves data.                 *)
LEMMA ContentsMoves ==
  ASSUME SocketAssumption, TypeOK, Contents, NEW c \in Conns,
         \/ OpenDevice(c) \/ RecvEnds(c) \/ HandleSeek(c)
         \/ HandleMalformed(c) \/ ReplyEnds(c) \/ SignalClient(c)
  PROVE  (Follows(c) /\ Answers(c))'
<1> USE DEF TypeOK, process, network, device, history
<1>1. UNCHANGED <<buffer, received, reply, log, pending, left, taken, missing>>
  BY DEF OpenDevice, RecvEnds, HandleSeek, HandleMalformed, ReplyEnds,
         SignalClient
<1>2. UNCHANGED <<IsSeek(c), Data(c), Text>>
  BY <1>1 DEF IsSeek, Data, Text
<1>3. Follows(c) /\ Answers(c)
  BY DEF Contents
<1>4. CASE OpenDevice(c) \/ RecvEnds(c)
  BY <1>1, <1>2, <1>3, <1>4 DEF OpenDevice, RecvEnds, Follows, Answers
<1>5. CASE HandleSeek(c) \/ HandleMalformed(c)
  BY <1>1, <1>2, <1>3, <1>5 DEF HandleSeek, HandleMalformed, Follows, Answers
<1>6. CASE ReplyEnds(c)
  BY <1>1, <1>2, <1>3, <1>6 DEF ReplyEnds, Replying, Follows, Answers
<1>7. CASE SignalClient(c)
  <2>1. f_pos'[c] = f_pos[c] /\ pc'[c] \in {pc[c], "close"}
    BY <1>7 DEF SignalClient
  <2> QED
    BY <1>1, <1>2, <1>3, <2>1 DEF Follows, Answers
<1> QED
  BY <1>4, <1>5, <1>6, <1>7

LEMMA ContentsInside ==
  ASSUME SocketAssumption, TypeOK, MutexSpansSession, Contents, NoneWhole,
         NEW c \in Conns, Inside(c)
  PROVE  Contents' /\ NoneWhole'
<1>1. (Follows(c) /\ Answers(c))' /\ NoneWhole'
  <2>1. CASE HandleData(c)
    BY <2>1, ContentsHandleData
  <2>2. CASE ~HandleData(c)
    <3>1. (Follows(c) /\ Answers(c))'
      BY <2>2, ContentsRecv, ContentsReply, ContentsMoves DEF Inside
    <3>2. UNCHANGED pending
      BY <2>2 DEF Inside, OpenDevice, Recv, RecvEnds, HandleSeek,
                  HandleMalformed, Reply, ReplyEnds, SignalClient, device
    <3> QED
      BY <3>1, <3>2 DEF NoneWhole
  <2> QED
    BY <2>1, <2>2
<1>2. ASSUME NEW d \in Conns, d # c PROVE (Follows(d) /\ Answers(d))'
  <2>1. UNCHANGED <<pc[d], buffer[d], received[d], f_pos[d], reply[d],
                    taken[d], missing[d]>>
    BY <1>2 DEF TypeOK, process, threads, network, history, Inside, OpenDevice,
       Recv, RecvEnds, HandleData, HandleSeek, HandleMalformed, Reply,
       ReplyEnds, SignalClient
  <2>2. CASE pc[c] \in InSession
    BY <2>1, <2>2, <1>2, OthersOutside, ContentsOutside
  <2>3. CASE pc[c] \notin InSession
    <3>1. SignalClient(c)
      BY <2>3 DEF InSession, Inside, OpenDevice, Recv, RecvEnds, HandleData,
         HandleSeek, HandleMalformed, Reply, ReplyEnds, Replying
    <3>2. UNCHANGED <<device, left>>
      BY <3>1 DEF SignalClient, history
    <3> QED
      BY <2>1, <3>2, ContentsStay DEF ReadOf
  <2> QED
    BY <2>2, <2>3
<1> QED
  BY <1>1, <1>2 DEF Contents

(* A step that moves nothing and enters no session.                        *)
LEMMA ContentsQuiet ==
  ASSUME Contents, NoneWhole,
         UNCHANGED <<received, f_pos, reply, device, left, taken, missing>>,
         \A c \in Conns :
           \/ UNCHANGED <<pc[c], buffer[c]>>
           \/ pc'[c] \in {"closing", "cleanup", "over"}
           \/ pc'[c] = "lock" /\ pc[c] = "none"
  PROVE  Contents' /\ NoneWhole'
<1>1. NoneWhole'
  BY DEF NoneWhole, device
<1>2. ASSUME NEW c \in Conns PROVE (Follows(c) /\ Answers(c))'
  <2>1. CASE UNCHANGED <<pc[c], buffer[c]>>
    BY <2>1, ContentsStay DEF ReadOf
  <2>2. CASE pc'[c] \in {"closing", "cleanup", "over"}
    BY <2>2 DEF Follows, Answers
  <2>3. CASE pc'[c] = "lock" /\ pc[c] = "none"
    BY <2>3 DEF Contents, Follows, Answers
  <2> QED
    BY <2>1, <2>2, <2>3
<1> QED
  BY <1>1, <1>2 DEF Contents

LEMMA NextContents ==
  ASSUME SocketAssumption, TypeOK, IInv, Contents, NoneWhole, [Next]_vars
  PROVE  Contents' /\ NoneWhole'
<1> USE DEF TypeOK, process, threads, network, history
<1>1. CASE End
  BY <1>1, ContentsQuiet DEF End
<1>2. CASE Outside
  BY <1>2, ContentsQuiet DEF Outside, Start, StartFails, Send, HangUp
<1>3. CASE TestRun
  BY <1>3, ContentsQuiet DEF TestRun
<1>4. CASE Create
  <2>1. accepted \in Conns /\ pc[accepted] = "none"
    BY <1>4 DEF Create, MainAt, IInv, CreatesOnce
  <2>2. ASSUME NEW c \in Conns
        PROVE  \/ UNCHANGED <<pc[c], buffer[c]>>
               \/ pc'[c] = "lock" /\ pc[c] = "none"
    BY <1>4, <2>1 DEF Create
  <2> QED
    BY <1>4, <2>2, ContentsQuiet DEF Create
<1>5. CASE CreateFails
  BY <1>5, ContentsQuiet DEF CreateFails
<1>6. ASSUME NEW c \in Conns, Lock(c) PROVE Contents' /\ NoneWhole'
  <2>1. NoneWhole'
    BY <1>6 DEF Lock, NoneWhole, device
  <2>2. (Follows(c) /\ Answers(c))'
    <3>1. taken[c] = <<>>
      BY <1>6 DEF Lock, Contents, Follows
    <3>2. pc'[c] = "open" /\ left' = pending /\ UNCHANGED <<pending, taken>>
      BY <1>6 DEF Lock, device
    <3>3. pending = pending \o <<>>
      OBVIOUS
    <3> QED
      BY <3>1, <3>2, <3>3 DEF Follows, Answers
  <2>3. ASSUME NEW d \in Conns, d # c PROVE (Follows(d) /\ Answers(d))'
    <3>1. pc[d] \notin InSession
      BY <1>6, <2>3 DEF Lock, IInv, MutexSpansSession, SocketAssumption
    <3>2. UNCHANGED <<pc[d], taken[d]>>
      BY <1>6, <2>3 DEF Lock
    <3> QED
      BY <3>1, <3>2, ContentsOutside
  <2> QED
    BY <2>1, <2>2, <2>3 DEF Contents
<1>7. ASSUME NEW c \in Conns, Accept(c) PROVE Contents' /\ NoneWhole'
  BY <1>7, ContentsQuiet DEF Accept
<1>8. ASSUME NEW c \in Conns, Unlock(c) PROVE Contents' /\ NoneWhole'
  BY <1>8, ContentsQuiet DEF Unlock
<1>9. ASSUME NEW c \in Conns, CloseClient(c) PROVE Contents' /\ NoneWhole'
  BY <1>9, ContentsQuiet DEF CloseClient
<1>10. ASSUME NEW c \in Conns, Connect(c) PROVE Contents' /\ NoneWhole'
  BY <1>10, ContentsQuiet DEF Connect
<1>11. CASE UNCHANGED vars
  BY <1>11, ContentsQuiet DEF vars
<1>12. ASSUME NEW c \in Conns, Inside(c) PROVE Contents' /\ NoneWhole'
  BY <1>12, ContentsInside DEF IInv
<1>13. ASSUME NEW c \in Conns, Fail(c) PROVE Contents' /\ NoneWhole'
  BY <1>13, ContentsQuiet DEF Fail
<1> QED
  BY NextCases, <1>1, <1>2, <1>3, <1>4, <1>5, <1>6, <1>7, <1>8, <1>9, <1>10,
     <1>11, <1>12, <1>13

LEMMA AllInvariant == Spec => [](TypeOK /\ IInv /\ Contents /\ NoneWhole)
<1>1. Init => TypeOK /\ IInv /\ Contents /\ NoneWhole
  <2>1. Init => NoneWhole
    BY DEF Init, NoneWhole, Holds
  <2> QED
    BY <2>1, TypeInit, InitIInv, InitContents, SocketAssumption
<1>2. TypeOK /\ IInv /\ Contents /\ NoneWhole /\ [Next]_vars
        => (TypeOK /\ IInv /\ Contents /\ NoneWhole)'
  BY TypeNext, NextIInv, NextContents, SocketAssumption
<1> QED
  BY <1>1, <1>2, PTL DEF Spec

(* While a session reads, and while a seek is answered, the device holds   *)
(* back what it held back when the session took file_mutex and then, in    *)
(* order, every receive the test of aesdsocket.c:280 let through: recv in  *)
(* pieces and other clients put nothing in between and take nothing out.   *)
(* (That test looks at stale bytes too, so that what it takes for a seek   *)
(* need not be one.)                                                       *)
THEOREM PacketsKept == Spec => []PacketsDoNotMix
<1>1. Contents => PacketsDoNotMix
  BY DEF Contents, Follows, PacketsDoNotMix
<1> QED
  BY <1>1, AllInvariant, PTL

-----------------------------------------------------------------------------
(* A session that leaves "reply" for "close" has read the whole device, and *)
(* has sent what it read unless a send was short.                          *)
WholeAnswer(c) ==
  pc[c] = "reply" /\ pc'[c] = "close" =>
    /\ "bytes" \notin missing[c] => IsSuffix(Text, reply[c])
    /\ "command" \notin missing[c] =>
         log # <<>> /\ Last(log) = left \o taken[c]

LEMMA StepAnswers ==
  ASSUME TypeOK, IInv, Contents, [Next]_vars, NEW c \in Conns
  PROVE  WholeAnswer(c)
<1> SUFFICES ASSUME pc[c] = "reply", pc'[c] = "close"
             PROVE  /\ "bytes" \notin missing[c] => IsSuffix(Text, reply[c])
                    /\ "command" \notin missing[c] =>
                         log # <<>> /\ Last(log) = left \o taken[c]
  BY DEF WholeAnswer
<1>1. ReplyEnds(c)
  <2> USE DEF TypeOK, process, threads, network, device, history
  <2>1. ~End /\ ~Outside /\ ~TestRun /\ ~CreateFails /\ ~UNCHANGED vars
    BY DEF End, Outside, Start, StartFails, Send, HangUp, TestRun,
       CreateFails, vars
  <2>2. ~Create
    BY DEF Create
  <2>3. PICK d \in Conns : Accept(d) \/ Lock(d) \/ Inside(d) \/ Unlock(d)
                           \/ CloseClient(d) \/ Connect(d) \/ Fail(d)
    BY <2>1, <2>2, NextCases
  <2>4. Inside(d)
    BY <2>3 DEF Accept, Lock, Unlock, CloseClient, Connect, Fail
  <2>5. d = c
    BY <2>4, InsideStays DEF IInv
  <2> QED
    BY <2>4, <2>5 DEF Inside, OpenDevice, Recv, RecvEnds, HandleData,
       HandleSeek, HandleMalformed, Reply, SignalClient
<1>2. ReadBuf(c) = <<>>
  BY <1>1 DEF ReplyEnds
<1>3. Answers(c)
  BY DEF Contents
<1>4. /\ "command" \notin missing[c] =>
           log # <<>> /\ Last(log) = left \o taken[c]
      /\ f_pos[c] <= Len(Text)
  BY <1>3 DEF Answers
<1>5. f_pos[c] = Len(Text)
  <2>1. f_pos[c] >= Len(Text)
    BY <1>2, ReadBufType, SocketAssumption
  <2>2. f_pos[c] \in Nat
    BY DEF TypeOK
  <2> QED
    BY <1>4, <2>1, <2>2, TextType
<1>6. SubSeq(Text, 1, Len(Text)) = Text /\ Text \in Seq(Byte)
  BY TextType
<1>7. ASSUME "bytes" \notin missing[c] PROVE IsSuffix(Text, reply[c])
  <2>1. PICK before \in Seq(Byte) :
          reply[c] = before \o SubSeq(Text, 1, f_pos[c])
    BY <1>3, <1>7 DEF Answers
  <2>2. reply[c] = before \o Text
    BY <2>1, <1>5, <1>6
  <2> QED
    BY <2>2, <1>6, EndOfConcat
<1> QED
  BY <1>4, <1>7

LEMMA Answered == Spec => [][\A c \in Conns : WholeAnswer(c)]_vars
<1>1. TypeOK /\ IInv /\ Contents /\ [Next]_vars
        => [\A c \in Conns : WholeAnswer(c)]_vars
  BY StepAnswers
<1> QED
  BY <1>1, AllInvariant, PTL DEF Spec

(* A client whose packet ended is answered, before its connection closes,  *)
(* with every command of the device as it is then, the last of them the    *)
(* one its own bytes made.  Two faults can spoil it, and each only its own *)
(* part: a send of this answer that fails or is short leaves a gap in it,  *)
(* and a driver without memory for the command leaves the command out.     *)
THEOREM DeviceAnswers == Spec => RepliesWithTheDevice
<1> DEFINE Given ==
      \A c \in Conns :
        pc[c] = "reply" /\ pc'[c] = "close" =>
          /\ "bytes" \notin missing[c] => IsSuffix(Text, reply[c])
          /\ "command" \notin missing[c] =>
               log # <<>> /\ Last(log) = left \o taken[c]
<1>1. (\A c \in Conns : WholeAnswer(c)) => Given
  BY DEF WholeAnswer
<1> HIDE DEF Given
<1>2. Spec => [][Given]_vars
  BY <1>1, Answered, PTL
<1> QED
  BY <1>2 DEF RepliesWithTheDevice, Given
=============================================================================
