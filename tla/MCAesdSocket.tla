---------------------------- MODULE MCAesdSocket ----------------------------
(***************************************************************************)
(* Instances of AesdSocket for TLC.                                        *)
(***************************************************************************)
EXTENDS AesdSocket, TLC

CONSTANTS c1, c2, a, b, nl  \* connections and bytes

Receiving == {"open", "recv", "handle", "seek_reply"}

(* What TLC compares states by: values nothing reads again are left out.   *)
(* A session that answers its packet receives no more, one that closes     *)
(* uses its variables no more, and the next recv overwrites at least the   *)
(* first byte of the buffer.                                               *)
Relevant ==
  LET Of(f, labels) == [c \in Conns |-> IF pc[c] \in labels THEN f[c] ELSE NULL]
      Behind == [c \in Conns |-> Tail(buffer[c])]
      Used == Receiving \cup {"reply"}
  IN  <<process, file_mutex, pc, conn, device,
        IF file_mutex # NULL /\ pc[file_mutex] \in Used THEN left ELSE NULL,
        Of(buffer, {"handle"}),
        Of(Behind, {"lock", "open", "recv", "seek_reply"}),
        Of(received, {"handle"}),
        Of(f_pos, Used),
        Of(reply, Used),
        Of(taken, Used),
        Of(missing, {"reply"}),
        [c \in Conns |-> IF conn[c] = "closed" THEN NULL
                         ELSE <<sent[c], hungup[c]>>],
        [c \in Conns |-> IF conn[c] \in {"backlog", "open"}
                            /\ pc[c] \in {"none", "lock"} \cup Receiving
                         THEN inbox[c] ELSE NULL]>>

(* The prefix of a seek has two bytes, and a packet may begin with it, in  *)
(* one piece, in two, or with stale bytes for its end.                     *)
TwoBytes == <<a, b>>

Packets == (c1 :> <<a, b, nl>>) @@ (c2 :> <<b, nl>>)

OnePacket == (c1 :> <<nl>>)

(* A seek that may hit.                                                    *)

OneSeekTo == {[write_cmd |-> 0, write_cmd_offset |-> 1]}

NoSeekTo == {}
=============================================================================
