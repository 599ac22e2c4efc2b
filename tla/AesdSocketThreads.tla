-------------------------- MODULE AesdSocketThreads --------------------------
(***************************************************************************)
(* The linked list of client threads in server/aesdsocket.c.  main adds a  *)
(* node for each thread it created and, after a signal, joins the threads  *)
(* in the list; a thread looks for its own node and frees it before it     *)
(* ends.  Nothing locks the list.  One process, from the first accept to   *)
(* its end; what the sessions do is in AesdSocket.                         *)
(*                                                                         *)
(* A use of a node that was freed has no defined outcome: the old contents *)
(* are read or written as long as the block was not handed out again, or   *)
(* the process dies.  A node freed twice kills it (the allocator aborts).  *)
(***************************************************************************)
EXTENDS Integers, FiniteSets

CONSTANTS
  Conns,  \* connections; also the pthread_t of the thread that serves one
  Node,   \* addresses malloc can give to a struct ThreadNode
  NULL,   \* the null pointer
  Faults  \* which of "create", "malloc", "session", "signal" may happen

ASSUME ThreadsAssumption ==
  /\ NULL \notin Node
  /\ NULL \notin Conns
  /\ IsFiniteSet(Node)

VARIABLES
  run,      \* the flag signal_handler clears
  main,     \* where main is
  tid,      \* the thread main has just created or waits for
  local,    \* main's new_node in add_thread and current in join_threads
  head,     \* the first node of the list
  node,     \* contents of every block, freed ones included
  alloc,    \* blocks that are allocated
  pc,       \* where each client thread is
  prev,     \* remove_thread's prev
  current,  \* remove_thread's current
  joined,   \* threads pthread_join returned for
  raced     \* history: two operations on the list overlapped

list   == <<head, node, alloc>>
client == <<pc, prev, current>>
server == <<run, main, tid, local, joined>>
vars   == <<list, client, server, raced>>

Running == main # "gone"

(* Who is in the middle of an operation on the list, main from the         *)
(* pthread_create that needs an add_thread on.                             *)
Removing(c) == pc[c] \in {"search", "unlink", "free"}
MainInList  == main \in {"add", "link", "join", "wait", "next"}

-----------------------------------------------------------------------------
(* main.                                                                   *)
TestRun ==
  /\ main = "test"
  /\ main' = IF run THEN "accept" ELSE "join"
  /\ local' = IF run THEN local ELSE head
  /\ raced' = (raced \/ (~run /\ \E c \in Conns : Removing(c)))
  /\ UNCHANGED <<run, tid, joined, list, client>>

(* accept and pthread_create; the thread runs from here on.                *)
Create(c) ==
  /\ main = "accept"
  /\ pc[c] = "none"
  /\ pc' = [pc EXCEPT ![c] = "serve"]
  /\ tid' = c
  /\ main' = "add"
  /\ raced' = (raced \/ \E d \in Conns : Removing(d))
  /\ UNCHANGED <<run, local, joined, list, prev, current>>

(* The thread cannot be created: the connection is closed.                 *)
CreateFails(c) ==
  /\ "create" \in Faults
  /\ main = "accept"
  /\ pc[c] = "none"
  /\ pc' = [pc EXCEPT ![c] = "refused"]
  /\ main' = "test"
  /\ UNCHANGED <<run, tid, local, joined, list, prev, current, raced>>

(* Mutant: the node does not lead to the rest of the list.                 *)
NewNodeAlone == [tid |-> tid, next |-> NULL]

NewNode == [tid |-> tid, next |-> head]

(* add_thread: head is read ...                                            *)
AddThread ==
  /\ main = "add"
  /\ \E n \in Node \ alloc :
       /\ alloc' = alloc \cup {n}
       /\ node'  = [node EXCEPT ![n] = NewNode]
       /\ local' = n
  /\ main' = "link"
  /\ UNCHANGED <<run, tid, joined, head, client, raced>>

(* ... and written.                                                        *)
LinkNode ==
  /\ main = "link"
  /\ head' = local
  /\ local' = NULL
  /\ main' = "test"
  /\ UNCHANGED <<run, tid, joined, node, alloc, client, raced>>

(* Mutant: the result of malloc is not looked at.                          *)
AddUnchecked ==
  /\ "malloc" \in Faults
  /\ main = "add"
  /\ local' = NULL
  /\ main' = "link"
  /\ UNCHANGED <<run, tid, joined, list, client, raced>>

(* malloc fails: exit.                                                     *)
AddFails ==
  /\ "malloc" \in Faults
  /\ main = "add"
  /\ main' = "gone"
  /\ UNCHANGED <<run, tid, local, joined, list, client, raced>>

(* pthread_join is called for the thread of the node ...                   *)
CallJoin ==
  /\ main = "join"
  /\ local # NULL
  /\ tid' = node[local].tid
  /\ main' = "wait"
  /\ UNCHANGED <<run, local, joined, list, client, raced>>

(* Mutant: does not wait for the thread.                                   *)
JoinAtOnce ==
  /\ main = "wait"
  /\ joined' = joined \cup {tid}
  /\ main' = "next"
  /\ UNCHANGED <<run, tid, local, list, client, raced>>

(* ... and returns when the thread is over.                                *)
Join ==
  /\ main = "wait"
  /\ pc[tid] = "over"
  /\ joined' = joined \cup {tid}
  /\ main' = "next"
  /\ UNCHANGED <<run, tid, local, list, client, raced>>

(* current->next is read and the node freed.                               *)
JoinNext ==
  /\ main = "next"
  /\ local \in alloc
  /\ local' = node[local].next
  /\ alloc' = alloc \ {local}
  /\ main' = "join"
  /\ UNCHANGED <<run, tid, joined, head, node, client, raced>>

(* The end of join_threads, then cleanup.                                  *)
JoinEnds ==
  /\ main = "join"
  /\ local = NULL
  /\ head' = NULL
  /\ main' = "cleanup"
  /\ UNCHANGED <<run, tid, local, joined, node, alloc, client, raced>>

Cleanup ==
  /\ main = "cleanup"
  /\ main' = "gone"
  /\ UNCHANGED <<run, tid, local, joined, list, client, raced>>

(* SIGINT or SIGTERM: the flag is cleared, and an accept that waits fails  *)
(* if main is the thread that got the signal.                              *)
Signal ==
  /\ "signal" \in Faults
  /\ Running
  /\ \/ run' = FALSE /\ UNCHANGED main
     \/ main = "accept" /\ main' = "gone" /\ UNCHANGED run
  /\ UNCHANGED <<tid, local, joined, list, client, raced>>

-----------------------------------------------------------------------------
(* client_thread.  A session may end the process (cleanup, SIGPIPE).       *)
SessionFails(c) ==
  /\ "session" \in Faults
  /\ Running
  /\ pc[c] = "serve"
  /\ main' = "gone"
  /\ UNCHANGED <<run, tid, local, joined, list, client, raced>>

(* handle_client returned, remove_thread begins.                           *)
RemoveThread(c) ==
  /\ Running
  /\ pc[c] = "serve"
  /\ pc' = [pc EXCEPT ![c] = "search"]
  /\ prev' = [prev EXCEPT ![c] = NULL]
  /\ current' = [current EXCEPT ![c] = head]
  /\ raced' = (raced \/ MainInList \/ \E d \in Conns : Removing(d))
  /\ UNCHANGED <<server, list>>

SearchOn(c) ==
  /\ Running
  /\ pc[c] = "search"
  /\ current[c] # NULL
  /\ node[current[c]].tid # c
  /\ prev' = [prev EXCEPT ![c] = current[c]]
  /\ current' = [current EXCEPT ![c] = node[current[c]].next]
  /\ UNCHANGED <<pc, server, list, raced>>

SearchEnds(c) ==
  /\ Running
  /\ pc[c] = "search"
  /\ \/ current[c] = NULL /\ pc' = [pc EXCEPT ![c] = "over"]
     \/ /\ current[c] # NULL
        /\ node[current[c]].tid = c
        /\ pc' = [pc EXCEPT ![c] = "unlink"]
  /\ UNCHANGED <<prev, current, server, list, raced>>

Unlink(c) ==
  /\ Running
  /\ pc[c] = "unlink"
  /\ pc' = [pc EXCEPT ![c] = "free"]
  /\ IF prev[c] = NULL
     THEN head' = node[current[c]].next /\ UNCHANGED node
     ELSE /\ node' = [node EXCEPT ![prev[c]].next = node[current[c]].next]
          /\ UNCHANGED head
  /\ UNCHANGED <<alloc, prev, current, server, raced>>

FreeNode(c) ==
  /\ Running
  /\ pc[c] = "free"
  /\ current[c] \in alloc
  /\ alloc' = alloc \ {current[c]}
  /\ pc' = [pc EXCEPT ![c] = "over"]
  /\ UNCHANGED <<head, node, prev, current, server, raced>>

-----------------------------------------------------------------------------
(* The nodes the next step of main and of a client thread uses.            *)
MainUses == IF main \in {"join", "next"} THEN {local} \ {NULL} ELSE {}

Uses(c) ==
  CASE pc[c] = "search"  -> {current[c]} \ {NULL}
    [] pc[c] = "unlink"  -> {prev[c], current[c]} \ {NULL}
    [] pc[c] = "free"    -> {current[c]}
    [] OTHER             -> {}

Used == MainUses \cup UNION {Uses(c) : c \in Conns}

(* The process dies of a use of a freed node or of a thread joined before. *)
Dies ==
  /\ Running
  /\ \/ ~(Used \subseteq alloc)
     \/ main = "wait" /\ tid \in joined
  /\ main' = "gone"
  /\ UNCHANGED <<run, tid, local, joined, list, client, raced>>

Init ==
  /\ run = TRUE
  /\ main = "test"
  /\ tid = NULL
  /\ local = NULL
  /\ head = NULL
  /\ node = [n \in Node |-> [tid |-> NULL, next |-> NULL]]
  /\ alloc = {}
  /\ pc      = [c \in Conns |-> "none"]
  /\ prev    = [c \in Conns |-> NULL]
  /\ current = [c \in Conns |-> NULL]
  /\ joined = {}
  /\ raced = FALSE

MainStep ==
  \/ TestRun \/ AddThread \/ LinkNode
  \/ CallJoin \/ Join \/ JoinNext \/ JoinEnds \/ Cleanup

ClientStep(c) ==
  RemoveThread(c) \/ SearchOn(c) \/ SearchEnds(c) \/ Unlink(c) \/ FreeNode(c)

Next ==
  \/ MainStep \/ AddFails \/ Signal \/ Dies
  \/ \E c \in Conns :
       Create(c) \/ CreateFails(c) \/ ClientStep(c) \/ SessionFails(c)

Spec == Init /\ [][Next]_vars

-----------------------------------------------------------------------------
Struct == [tid : Conns \cup {NULL}, next : Node \cup {NULL}]

(* Pointers are to nodes or null; main's pointer is one where it is used.  *)
TypeOK ==
  /\ run \in BOOLEAN
  /\ main \in {"test", "accept", "add", "link", "join", "wait", "next",
               "cleanup", "gone"}
  /\ tid \in Conns \cup {NULL}
  /\ local \in Node \cup {NULL}
  /\ main \in {"link", "wait", "next"} => local # NULL
  /\ head \in Node \cup {NULL}
  /\ node \in [Node -> Struct]
  /\ alloc \subseteq Node
  /\ pc \in [Conns -> {"none", "refused", "serve", "search", "unlink", "free",
                       "over"}]
  /\ prev \in [Conns -> Node \cup {NULL}]
  /\ current \in [Conns -> Node \cup {NULL}]
  /\ joined \subseteq Conns
  /\ raced \in BOOLEAN

(* The list, by the number of steps from head.                             *)
At[k \in 0 .. Cardinality(Node)] ==
  IF k = 0 THEN head
  ELSE IF At[k - 1] = NULL THEN NULL ELSE node[At[k - 1]].next

Linked == {At[k] : k \in DOMAIN At} \ {NULL}

Quiescent ==
  /\ Running
  /\ ~MainInList
  /\ \A c \in Conns : ~Removing(c)

(* As long as no two operations on the list ever overlapped, the list has  *)
(* one node for each thread that serves, and every allocated node is in    *)
(* it: the missing lock is all that is wrong with add and remove.          *)
ListIsExact ==
  Quiescent /\ ~raced =>
    /\ At[Cardinality(Node)] = NULL
    /\ Linked = alloc
    /\ {node[n].tid : n \in Linked} = {c \in Conns : pc[c] = "serve"}
    /\ \A m, n \in Linked : node[m].tid = node[n].tid => m = n

(* Races or not, a node is not freed before its thread is over: nobody     *)
(* frees the node of another thread.                                       *)
FreedAfterItsThread ==
  [][\A n \in alloc \ alloc' : pc'[node[n].tid] = "over"]_vars

-----------------------------------------------------------------------------
(* What a record in the repository says and the code does not do.           *)

(* valgrind-out.txt:168, "ERROR SUMMARY: 0 errors from 0 contexts":        *)
(* nothing uses a node that was freed.                                     *)
UsesAllocatedNodes == Running => Used \subseteq alloc
=============================================================================
