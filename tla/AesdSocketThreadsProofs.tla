----------------------- MODULE AesdSocketThreadsProofs -----------------------
(***************************************************************************)
(* What the list of threads of server/aesdsocket.c keeps to, for every     *)
(* number of connections and nodes: what holds whatever overlaps, and what *)
(* holds as long as nothing overlaps.                                      *)
(***************************************************************************)
EXTENDS AesdSocketThreads, FiniteSetTheorems, SequenceTheorems, TLAPS

(* Of the lemmas about data only induction is used, which no number of     *)
(* slots has a part in.                                                    *)
Lemmas == INSTANCE DataLemmas WITH MaxOps <- 1, NULL <- 0

(* A pointer leads to a node that add_thread once filled in.               *)
Given(p) == p = NULL \/ node[p].tid # NULL

PointersGiven ==
  /\ Given(head) /\ Given(local)
  /\ \A n \in Node : Given(node[n].next)
  /\ \A c \in Conns : Given(prev[c]) /\ Given(current[c])
  /\ main \in {"add", "wait"} => tid # NULL

(* A thread unlinks and frees the node that names it.                      *)
OwnNode ==
  \A c \in Conns :
    pc[c] \in {"unlink", "free"} =>
      current[c] # NULL /\ node[current[c]].tid = c

Joining == main \in {"join", "wait", "next", "cleanup", "gone"}

(* As long as nodes are added, one that was freed named a thread that is   *)
(* over: a new node never takes the place of one that a thread will free.  *)
FreedIsOver ==
  ~Joining =>
    \A n \in Node \ alloc : node[n].tid = NULL \/ pc[node[n].tid] = "over"

JoinKnows ==
  /\ main = "wait" => tid = node[local].tid
  /\ main = "next" => pc[node[local].tid] = "over"

IInv ==
  /\ TypeOK
  /\ PointersGiven
  /\ OwnNode
  /\ FreedIsOver
  /\ JoinKnows

-----------------------------------------------------------------------------
LEMMA InitIInv == Init => IInv
<1> SUFFICES ASSUME Init PROVE IInv
  OBVIOUS
<1>1. /\ node \in [Node -> Struct]
      /\ \A n \in Node : node[n].tid = NULL /\ node[n].next = NULL
  BY DEF Init, Struct
<1>2. TypeOK
  BY <1>1 DEF Init, TypeOK
<1>3. PointersGiven
  BY <1>1 DEF Init, PointersGiven, Given
<1>4. OwnNode /\ JoinKnows
  BY DEF Init, OwnNode, JoinKnows
<1>5. FreedIsOver
  BY <1>1 DEF FreedIsOver
<1> QED
  BY <1>2, <1>3, <1>4, <1>5 DEF IInv

(* Steps that change no node and free none.                                *)
LEMMA MainKeeps ==
  ASSUME IInv,
         TestRun \/ LinkNode \/ AddFails \/ CallJoin \/ Join \/ JoinEnds
           \/ Cleanup \/ Signal \/ Dies
  PROVE  IInv'
<1> USE ThreadsAssumption DEF IInv, TypeOK, PointersGiven, Given, OwnNode,
        FreedIsOver, JoinKnows, Joining, list, client
<1>1. CASE TestRun
  BY <1>1 DEF TestRun
<1>2. CASE LinkNode
  BY <1>2 DEF LinkNode
<1>3. CASE AddFails \/ Cleanup \/ Signal \/ Dies
  BY <1>3 DEF AddFails, Cleanup, Signal, Dies
<1>4. CASE CallJoin
  <2>1. node[local].tid \in Conns
    BY <1>4 DEF CallJoin, Struct
  <2> QED
    BY <1>4, <2>1 DEF CallJoin
<1>5. CASE Join
  BY <1>5 DEF Join
<1>6. CASE JoinEnds
  BY <1>6 DEF JoinEnds
<1> QED
  BY <1>1, <1>2, <1>3, <1>4, <1>5, <1>6

LEMMA AddKeeps ==
  ASSUME IInv, AddThread
  PROVE  IInv'
<1>1. PICK n \in Node \ alloc :
        /\ main = "add" /\ main' = "link"
        /\ alloc' = alloc \cup {n}
        /\ node' = [node EXCEPT ![n] = NewNode]
        /\ local' = n
        /\ UNCHANGED <<run, tid, joined, head, pc, prev, current, raced>>
  BY DEF AddThread, client
<1>2. NewNode \in Struct /\ NewNode.tid = tid /\ NewNode.next = head
      /\ tid \in Conns /\ tid # NULL
  BY <1>1, ThreadsAssumption DEF IInv, TypeOK, PointersGiven, NewNode, Struct
<1>3. /\ \A m \in Node : node'[m] = IF m = n THEN NewNode ELSE node[m]
      /\ node' \in [Node -> Struct]
  BY <1>1, <1>2 DEF IInv, TypeOK
<1>4. TypeOK'
  BY <1>1, <1>3, ThreadsAssumption DEF IInv, TypeOK
<1>5. \A p \in Node \cup {NULL} : Given(p) => Given(p)'
  BY <1>2, <1>3, ThreadsAssumption DEF Given
<1>6. PointersGiven'
  <2>1. /\ head \in Node \cup {NULL}
        /\ \A m \in Node : node[m].next \in Node \cup {NULL}
        /\ \A c \in Conns : prev[c] \in Node \cup {NULL}
                            /\ current[c] \in Node \cup {NULL}
    BY DEF IInv, TypeOK, Struct
  <2>2. Given(head)' /\ Given(local)'
    BY <1>1, <1>2, <1>3, <1>5, <2>1 DEF IInv, PointersGiven, Given
  <2>3. \A m \in Node : Given(node[m].next)'
    BY <1>1, <1>2, <1>3, <1>5, <2>1, <2>2 DEF IInv, PointersGiven, Given
  <2>4. \A c \in Conns : Given(prev[c])' /\ Given(current[c])'
    BY <1>1, <1>5, <2>1 DEF IInv, PointersGiven, Given
  <2> QED
    BY <1>1, <2>2, <2>3, <2>4 DEF PointersGiven
<1>7. OwnNode'
  <2>1. ASSUME NEW c \in Conns, pc[c] \in {"unlink", "free"}
        PROVE  current[c] # NULL /\ node'[current[c]].tid = c
    <3>1. current[c] \in Node /\ node[current[c]].tid = c /\ c # NULL
      BY <2>1, ThreadsAssumption DEF IInv, TypeOK, OwnNode
    <3>2. current[c] # n
      BY <1>1, <2>1, <3>1 DEF IInv, FreedIsOver, Joining
    <3> QED
      BY <1>3, <3>1, <3>2, ThreadsAssumption
  <2> QED
    BY <1>1, <2>1 DEF OwnNode
<1>8. FreedIsOver'
  BY <1>1, <1>3 DEF IInv, FreedIsOver, Joining
<1>9. JoinKnows'
  BY <1>1 DEF JoinKnows
<1> QED
  BY <1>4, <1>6, <1>7, <1>8, <1>9 DEF IInv

LEMMA JoinNextKeeps == ASSUME IInv, JoinNext PROVE IInv'
<1>1. local \in Node /\ node[local].next \in Node \cup {NULL}
  BY ThreadsAssumption DEF JoinNext, IInv, TypeOK, Struct
<1> QED
  BY <1>1, ThreadsAssumption
     DEF JoinNext, IInv, TypeOK, PointersGiven, Given, OwnNode, FreedIsOver,
         JoinKnows, Joining, client

LEMMA ClientKeeps ==
  ASSUME IInv, NEW c \in Conns,
         \/ Create(c) \/ CreateFails(c) \/ SessionFails(c)
         \/ RemoveThread(c) \/ SearchOn(c) \/ SearchEnds(c)
  PROVE  IInv'
<1> USE ThreadsAssumption DEF IInv, TypeOK, PointersGiven, Given, OwnNode,
        FreedIsOver, JoinKnows, Joining, list, client, server
<1>1. CASE Create(c)
  BY <1>1 DEF Create
<1>2. CASE CreateFails(c)
  BY <1>2 DEF CreateFails
<1>3. CASE SessionFails(c)
  BY <1>3 DEF SessionFails
<1>4. CASE RemoveThread(c)
  BY <1>4 DEF RemoveThread
<1>5. CASE SearchOn(c)
  <2>1. node[current[c]].next \in Node \cup {NULL} /\ Given(node[current[c]].next)
    BY <1>5 DEF SearchOn, Struct
  <2> QED
    BY <1>5, <2>1 DEF SearchOn
<1>6. CASE SearchEnds(c)
  <2>1. /\ pc[c] = "search"
        /\ \/ pc' = [pc EXCEPT ![c] = "over"]
           \/ /\ pc' = [pc EXCEPT ![c] = "unlink"]
              /\ current[c] # NULL /\ node[current[c]].tid = c
        /\ UNCHANGED <<prev, current, run, main, tid, local, joined, head, node,
                       alloc, raced>>
    BY <1>6 DEF SearchEnds
  <2>2. \A d \in Conns : /\ pc[d] = "over" => pc'[d] = "over"
                         /\ pc'[d] \in {"unlink", "free"} =>
                              \/ pc[d] \in {"unlink", "free"}
                              \/ current[d] # NULL /\ node[current[d]].tid = d
    BY <2>1
  <2>3. \A n \in Node : node[n].tid \in Conns \cup {NULL}
    BY DEF Struct
  <2>4. TypeOK' /\ PointersGiven'
    BY <2>1
  <2>5. OwnNode'
    BY <2>1, <2>2
  <2>6. FreedIsOver'
    BY <2>1, <2>2, <2>3
  <2>7. JoinKnows'
    BY <2>1, <2>2, <2>3
  <2> QED
    BY <2>4, <2>5, <2>6, <2>7
<1> QED
  BY <1>1, <1>2, <1>3, <1>4, <1>5, <1>6

(* remove_thread redirects a next and changes no other field.              *)
LEMMA UnlinkKeeps ==
  ASSUME IInv, NEW c \in Conns, Unlink(c)
  PROVE  IInv'
<1> DEFINE follower == node[current[c]].next
<1>1. /\ pc[c] = "unlink" /\ pc' = [pc EXCEPT ![c] = "free"]
      /\ UNCHANGED <<alloc, prev, current, run, main, tid, local, joined, raced>>
      /\ \/ prev[c] = NULL /\ head' = follower /\ node' = node
         \/ /\ prev[c] # NULL /\ head' = head
            /\ node' = [node EXCEPT ![prev[c]].next = follower]
  BY DEF Unlink, server
<1>2. follower \in Node \cup {NULL} /\ Given(follower)
  BY <1>1 DEF IInv, TypeOK, OwnNode, PointersGiven, Struct
<1> HIDE DEF follower
<1>3. /\ node' \in [Node -> Struct]
      /\ \A n \in Node : /\ node'[n].tid = node[n].tid
                         /\ node'[n].next \in {node[n].next, follower}
      /\ head' \in {head, follower}
  BY <1>1, <1>2 DEF IInv, TypeOK, Struct
<1>4. TypeOK'
  BY <1>1, <1>2, <1>3 DEF IInv, TypeOK
<1>5. \A p \in Node \cup {NULL} : Given(p) => Given(p)'
  BY <1>3 DEF Given
<1>6. PointersGiven'
  <2>1. /\ head \in Node \cup {NULL} /\ local \in Node \cup {NULL}
        /\ \A m \in Node : node[m].next \in Node \cup {NULL}
        /\ \A d \in Conns : prev[d] \in Node \cup {NULL}
                            /\ current[d] \in Node \cup {NULL}
    BY DEF IInv, TypeOK, Struct
  <2>2. Given(head)' /\ Given(local)'
    BY <1>1, <1>2, <1>3, <1>5, <2>1 DEF IInv, PointersGiven, Given
  <2>3. \A m \in Node : Given(node[m].next)'
    BY <1>2, <1>3, <1>5, <2>1 DEF IInv, PointersGiven, Given
  <2>4. \A d \in Conns : Given(prev[d])' /\ Given(current[d])'
    BY <1>1, <1>5, <2>1 DEF IInv, PointersGiven, Given
  <2> QED
    BY <1>1, <2>2, <2>3, <2>4 DEF IInv, PointersGiven
<1>7. OwnNode'
  <2>1. \A d \in Conns : pc'[d] \in {"unlink", "free"} =>
                           pc[d] \in {"unlink", "free"}
    BY <1>1 DEF IInv, TypeOK
  <2>2. \A d \in Conns : current[d] \in Node \cup {NULL}
    BY DEF IInv, TypeOK
  <2> QED
    BY <1>1, <1>3, <2>1, <2>2 DEF IInv, OwnNode
<1>8. FreedIsOver'
  <2>1. \A d \in Conns : pc[d] = "over" => pc'[d] = "over"
    BY <1>1 DEF IInv, TypeOK
  <2>2. \A n \in Node : node[n].tid \in Conns \cup {NULL}
    BY DEF IInv, TypeOK, Struct
  <2> QED
    BY <1>1, <1>3, <2>1, <2>2 DEF IInv, FreedIsOver, Joining
<1>9. JoinKnows'
  <2>1. \A d \in Conns : pc[d] = "over" => pc'[d] = "over"
    BY <1>1 DEF IInv, TypeOK
  <2>2. main \in {"wait", "next"} => local \in Node /\ node[local].tid \in Conns
    BY DEF IInv, TypeOK, Struct, PointersGiven, Given
  <2> QED
    BY <1>1, <1>3, <2>1, <2>2 DEF IInv, JoinKnows
<1> QED
  BY <1>4, <1>6, <1>7, <1>8, <1>9 DEF IInv

LEMMA FreeKeeps ==
  ASSUME IInv, NEW c \in Conns, FreeNode(c)
  PROVE  IInv'
<1>1. /\ pc[c] = "free" /\ pc' = [pc EXCEPT ![c] = "over"]
      /\ alloc' = alloc \ {current[c]}
      /\ UNCHANGED <<head, node, prev, current, run, main, tid, local,
                     joined, raced>>
  BY DEF FreeNode, server
<1>2. TypeOK' /\ PointersGiven'
  BY <1>1 DEF IInv, TypeOK, PointersGiven, Given
<1>3. \A d \in Conns : /\ pc[d] = "over" => pc'[d] = "over"
                       /\ pc'[d] \in {"unlink", "free"} =>
                            pc[d] \in {"unlink", "free"}
  BY <1>1 DEF IInv, TypeOK
<1>4. OwnNode'
  BY <1>1, <1>3 DEF IInv, OwnNode
<1>5. \A n \in Node : node[n].tid \in Conns \cup {NULL}
  BY DEF IInv, TypeOK, Struct
<1>6. FreedIsOver'
  BY <1>1, <1>3, <1>5 DEF IInv, TypeOK, FreedIsOver, Joining, OwnNode
<1>7. JoinKnows'
  BY <1>1, <1>3, <1>5 DEF IInv, TypeOK, JoinKnows, PointersGiven, Given
<1> QED
  BY <1>2, <1>4, <1>6, <1>7 DEF IInv

LEMMA NextIInv == IInv /\ [Next]_vars => IInv'
<1> SUFFICES ASSUME IInv, [Next]_vars PROVE IInv'
  OBVIOUS
<1>1. CASE UNCHANGED vars
  BY <1>1 DEF vars, list, client, server, IInv, TypeOK, PointersGiven, Given,
              OwnNode, FreedIsOver, JoinKnows, Joining
<1> QED
  BY <1>1, MainKeeps, AddKeeps, JoinNextKeeps, ClientKeeps, UnlinkKeeps,
     FreeKeeps DEF Next, MainStep, ClientStep

LEMMA Inductive == Spec => []IInv
BY InitIInv, NextIInv, PTL DEF Spec

(* Whatever overlaps, main's and the threads' pointers lead to nodes or    *)
(* nowhere, and main joins threads it created.                             *)
THEOREM TypeCorrect == Spec => []TypeOK
<1>1. IInv => TypeOK
  BY DEF IInv
<1> QED
  BY <1>1, Inductive, PTL

(* Whatever overlaps, a node is freed by its own thread as the last thing  *)
(* it does, or by main after it has waited for that thread.                *)
THEOREM FreedByItsOwn == Spec => FreedAfterItsThread
<1> DEFINE Over == \A n \in alloc \ alloc' : pc'[node[n].tid] = "over"
<1>1. IInv /\ [Next]_vars => Over
  <2> SUFFICES ASSUME IInv, [Next]_vars, NEW n \in alloc, n \notin alloc'
               PROVE  pc'[node[n].tid] = "over"
    OBVIOUS
  <2>1. CASE JoinNext
    BY <2>1 DEF JoinNext, client, IInv, JoinKnows
  <2>2. ASSUME NEW c \in Conns, FreeNode(c) PROVE pc'[node[n].tid] = "over"
    BY <2>2 DEF FreeNode, IInv, TypeOK, OwnNode
  <2>3. ASSUME \/ TestRun \/ LinkNode \/ AddFails \/ CallJoin \/ Join
               \/ JoinEnds \/ Cleanup \/ Signal \/ Dies \/ AddThread
               \/ UNCHANGED vars
        PROVE  alloc \subseteq alloc'
    BY <2>3 DEF TestRun, LinkNode, AddFails, CallJoin, Join, JoinEnds, Cleanup,
                Signal, Dies, AddThread, vars, list
  <2>4. ASSUME NEW c \in Conns,
               \/ Create(c) \/ CreateFails(c) \/ SessionFails(c)
               \/ RemoveThread(c) \/ SearchOn(c) \/ SearchEnds(c) \/ Unlink(c)
        PROVE  alloc \subseteq alloc'
    BY <2>4 DEF Create, CreateFails, SessionFails, RemoveThread, SearchOn,
                SearchEnds, Unlink, list
  <2> QED
    BY <2>1, <2>2, <2>3, <2>4 DEF Next, MainStep, ClientStep
<1> HIDE DEF Over
<1>2. Spec => [][Over]_vars
  BY <1>1, Inductive, PTL DEF Spec
<1> QED
  BY <1>2 DEF FreedAfterItsThread, Over
-----------------------------------------------------------------------------
(* The list as long as no two operations on it overlapped: the nodes s[1]  *)
(* to s[n], each leading to the next one and the last one nowhere.         *)
Follower(n, s, i) == IF i = n THEN NULL ELSE s[i + 1]

Chained(n, s) ==
  /\ head = Follower(n, s, 0)
  /\ \A i \in 1 .. n : node[s[i]].next = Follower(n, s, i)

(* The threads that must be in the list, ...                               *)
Listed ==
  {c \in Conns : /\ pc[c] \in {"serve", "search", "unlink"}
                 /\ main \in {"add", "link"} => c # tid}

NamesThreads(n, s) ==
  /\ \A i \in 1 .. n : node[s[i]].tid \in Listed
  /\ \A c \in Listed : \E i \in 1 .. n : node[s[i]].tid = c
  /\ \A i, j \in 1 .. n : node[s[i]].tid = node[s[j]].tid => i = j

(* ... and the blocks: all but the one that is being added or freed.       *)
InList ==
  {m \in alloc : /\ main = "link" => m # local
                 /\ \A c \in Conns : pc[c] = "free" => m # current[c]}

HoldsBlocks(n, s) ==
  /\ \A i \in 1 .. n : s[i] \in InList
  /\ \A m \in InList : \E i \in 1 .. n : s[i] = m

(* A search has reached the i-th node and not passed its own.              *)
Reached(n, s, c, i) ==
  /\ current[c] = s[i]
  /\ prev[c] = IF i = 1 THEN NULL ELSE s[i - 1]
  /\ \A j \in 1 .. n : j < i => node[s[j]].tid # c

Searches(n, s) ==
  \A c \in Conns :
    pc[c] \in {"search", "unlink"} => \E i \in 1 .. n : Reached(n, s, c, i)

IsTheList(n, s) ==
  Chained(n, s) /\ NamesThreads(n, s) /\ HoldsBlocks(n, s) /\ Searches(n, s)

(* Operations take turns, and main waits for the thread of the first node, *)
(* which takes itself out of the list before it is over.                   *)
InTurn ==
  /\ \A c, d \in Conns : Removing(c) /\ Removing(d) => c = d
  /\ MainInList => \A c \in Conns : ~Removing(c)
  /\ main \in {"add", "link"} => pc[tid] = "serve"
  /\ main = "link" => node[local] = NewNode /\ local \in alloc
  /\ main \in {"join", "wait"} => local = head
  /\ main = "cleanup" => head = NULL
  /\ main # "next"

LInv ==
  Running /\ ~raced =>
    InTurn /\ \E n \in Nat : \E s \in [1 .. n -> Node] : IsTheList(n, s)

LEMMA InitLInv == Init => LInv
<1> SUFFICES ASSUME Init PROVE LInv
  OBVIOUS
<1> DEFINE s == [i \in 1 .. 0 |-> NULL]
<1>1. s \in [1 .. 0 -> Node] /\ \A i \in 1 .. 0 : FALSE
  OBVIOUS
<1> HIDE DEF s
<1>2. Chained(0, s)
  BY <1>1 DEF Init, Chained, Follower
<1>3. Listed = {} /\ InList = {}
  BY DEF Init, Listed, InList
<1>4. NamesThreads(0, s) /\ HoldsBlocks(0, s)
  BY <1>1, <1>3 DEF NamesThreads, HoldsBlocks
<1>5. Searches(0, s)
  BY DEF Init, Searches
<1>6. InTurn
  BY DEF Init, InTurn, Removing, MainInList
<1>7. IsTheList(0, s)
  BY <1>2, <1>4, <1>5 DEF IsTheList
<1> QED
  BY <1>1, <1>6, <1>7 DEF LInv

(* The same nodes are the list when none of them changed.                  *)
LEMMA SameNodes ==
  ASSUME NEW n \in Nat, NEW s \in [1 .. n -> Node],
         Chained(n, s), NamesThreads(n, s), HoldsBlocks(n, s),
         head' = head, Listed' = Listed, InList' = InList,
         \A m \in InList : node'[m] = node[m]
  PROVE  Chained(n, s)' /\ NamesThreads(n, s)' /\ HoldsBlocks(n, s)'
<1>1. \A i \in 1 .. n : node'[s[i]] = node[s[i]]
  BY DEF HoldsBlocks
<1>2. Chained(n, s)'
  BY <1>1 DEF Chained, Follower
<1>3. NamesThreads(n, s)'
  BY <1>1 DEF NamesThreads
<1>4. HoldsBlocks(n, s)'
  BY DEF HoldsBlocks
<1> QED
  BY <1>2, <1>3, <1>4

LEMMA SameSearches ==
  ASSUME NEW n \in Nat, NEW s \in [1 .. n -> Node],
         Searches(n, s), HoldsBlocks(n, s), prev' = prev, current' = current,
         \A m \in InList : node'[m].tid = node[m].tid,
         \A c \in Conns : pc'[c] \in {"search", "unlink"} =>
                            pc[c] \in {"search", "unlink"}
  PROVE  Searches(n, s)'
<1>1. \A i \in 1 .. n : node'[s[i]].tid = node[s[i]].tid
  BY DEF HoldsBlocks
<1>2. \A c \in Conns : \A i \in 1 .. n : Reached(n, s, c, i) =>
                                           Reached(n, s, c, i)'
  BY <1>1 DEF Reached
<1> QED
  BY <1>2 DEF Searches

LEMMA SameList ==
  ASSUME NEW n \in Nat, NEW s \in [1 .. n -> Node], IsTheList(n, s),
         head' = head, prev' = prev, current' = current,
         Listed' = Listed, InList' = InList,
         \A m \in InList : node'[m] = node[m],
         \A c \in Conns : pc'[c] \in {"search", "unlink"} =>
                            pc[c] \in {"search", "unlink"}
  PROVE  IsTheList(n, s)'
<1>1. \A m \in InList : node'[m].tid = node[m].tid
  OBVIOUS
<1>2. Chained(n, s)' /\ NamesThreads(n, s)' /\ HoldsBlocks(n, s)'
  BY SameNodes DEF IsTheList
<1>3. Searches(n, s)'
  BY <1>1, SameSearches DEF IsTheList
<1> QED
  BY <1>2, <1>3 DEF IsTheList

(* main takes its next step in between the operations on the list.         *)
LEMMA TurnsKeep ==
  ASSUME IInv, InTurn, Running', ~raced', ~raced,
         NEW n \in Nat, NEW s \in [1 .. n -> Node], IsTheList(n, s),
         TestRun \/ CallJoin \/ JoinEnds \/ Signal
  PROVE  InTurn' /\ IsTheList(n, s)'
<1>1. /\ UNCHANGED <<pc, prev, current, node, alloc, joined>>
      /\ head' = head
  BY DEF TestRun, CallJoin, JoinEnds, Signal, list, client, InTurn
<1>2. \/ main \notin {"add", "link"}
      \/ main' = main /\ tid' = tid /\ local' = local
  BY DEF TestRun, CallJoin, JoinEnds, Signal
<1>3. \/ main' \notin {"add", "link"}
      \/ main' = main /\ tid' = tid /\ local' = local
  BY DEF TestRun, CallJoin, JoinEnds, Signal
<1>4. Listed' = Listed /\ InList' = InList
  BY <1>1, <1>2, <1>3 DEF Listed, InList
<1>5. IsTheList(n, s)'
  BY <1>1, <1>4, SameList
<1>6. InTurn'
  <2>1. CASE TestRun
    BY <2>1 DEF TestRun, InTurn, Removing, MainInList, list, client, NewNode
  <2>2. CASE CallJoin \/ JoinEnds
    BY <2>2, <1>1 DEF CallJoin, JoinEnds, InTurn, Removing, MainInList, NewNode
  <2>3. CASE Signal
    BY <2>3, <1>1 DEF Signal, InTurn, Removing, MainInList, NewNode, list, client,
                      Running
  <2> QED
    BY <2>1, <2>2, <2>3
<1> QED
  BY <1>5, <1>6

(* main does not get past the wait: the thread it waits for is in the list.*)
LEMMA NoJoin ==
  ASSUME IInv, InTurn, NEW n \in Nat, NEW s \in [1 .. n -> Node],
         IsTheList(n, s)
  PROVE  ~Join /\ ~JoinNext
<1>1. ~JoinNext
  BY DEF JoinNext, InTurn
<1>2. ASSUME Join PROVE FALSE
  <2>1. main = "wait" /\ pc[tid] = "over" /\ tid = node[local].tid
        /\ local = head /\ local # NULL
    BY <1>2 DEF Join, IInv, JoinKnows, InTurn, TypeOK
  <2>2. 0 # n /\ head = s[1]
    BY <2>1 DEF IsTheList, Chained, Follower
  <2>3. tid \in Listed
    BY <2>1, <2>2 DEF IsTheList, NamesThreads
  <2> QED
    BY <2>1, <2>3 DEF Listed
<1> QED
  BY <1>1, <1>2

LEMMA CreateKeeps ==
  ASSUME IInv, InTurn, ~raced', NEW c \in Conns, Create(c) \/ CreateFails(c),
         NEW n \in Nat, NEW s \in [1 .. n -> Node], IsTheList(n, s)
  PROVE  InTurn' /\ IsTheList(n, s)'
<1>1. /\ main = "accept" /\ pc[c] = "none"
      /\ UNCHANGED <<head, node, alloc, prev, current>>
      /\ \/ /\ pc' = [pc EXCEPT ![c] = "serve"] /\ tid' = c /\ main' = "add"
            /\ \A d \in Conns : ~Removing(d)
         \/ pc' = [pc EXCEPT ![c] = "refused"] /\ main' = "test"
  BY DEF Create, CreateFails, list
<1>2. \A d \in Conns : pc'[d] = pc[d] \/ d = c
  BY <1>1 DEF IInv, TypeOK
<1>3. \/ pc'[c] = "serve" /\ tid' = c /\ main' = "add"
      \/ pc'[c] = "refused" /\ main' = "test"
  BY <1>1 DEF IInv, TypeOK
<1>4. Listed' = Listed
  BY <1>1, <1>2, <1>3 DEF Listed
<1>5. InList' = InList
  BY <1>1, <1>2, <1>3 DEF InList
<1>6. \A d \in Conns : pc'[d] \in {"search", "unlink", "free"} =>
                         pc[d] \in {"search", "unlink", "free"} /\ pc'[d] = pc[d]
  BY <1>2, <1>3
<1>7. IsTheList(n, s)'
  BY <1>1, <1>4, <1>5, <1>6, SameList
<1>8. InTurn'
  BY <1>1, <1>3, <1>6 DEF InTurn, Removing, MainInList
<1> QED
  BY <1>7, <1>8

LEMMA AddKeepsList ==
  ASSUME IInv, InTurn, AddThread,
         NEW n \in Nat, NEW s \in [1 .. n -> Node], IsTheList(n, s)
  PROVE  InTurn' /\ IsTheList(n, s)'
<1>1. PICK m \in Node \ alloc :
        /\ main = "add" /\ main' = "link"
        /\ alloc' = alloc \cup {m}
        /\ node' = [node EXCEPT ![m] = NewNode]
        /\ local' = m
        /\ UNCHANGED <<tid, head, pc, prev, current>>
  BY DEF AddThread, client
<1>2. \A c \in Conns : pc[c] # "free"
  BY <1>1 DEF InTurn, Removing, MainInList
<1>3. InList' = InList
  BY <1>1, <1>2 DEF InList
<1>4. Listed' = Listed
  BY <1>1 DEF Listed
<1>5. /\ \A q \in InList : node'[q] = node[q]
      /\ node'[m] = NewNode
  BY <1>1 DEF InList, IInv, TypeOK
<1>6. IsTheList(n, s)'
  BY <1>1, <1>3, <1>4, <1>5, SameList
<1>7. InTurn'
  BY <1>1, <1>5 DEF InTurn, Removing, MainInList, NewNode
<1> QED
  BY <1>6, <1>7

(* The new node leads to the list that was there.                          *)
LEMMA LinkKeepsList ==
  ASSUME IInv, InTurn, LinkNode,
         NEW n \in Nat, NEW s \in [1 .. n -> Node], IsTheList(n, s)
  PROVE  InTurn' /\ \E t \in [1 .. n + 1 -> Node] : IsTheList(n + 1, t)'
<1>1. /\ main = "link" /\ main' = "test" /\ head' = local
      /\ UNCHANGED <<tid, node, alloc, pc, prev, current>>
  BY DEF LinkNode, client
<1>2. /\ local \in Node /\ local \in alloc /\ node[local] = NewNode
      /\ node[local].tid = tid /\ node[local].next = head /\ pc[tid] = "serve"
      /\ tid \in Conns
  <2>1. local \in Node /\ node[local] = NewNode /\ local \in alloc
        /\ pc[tid] = "serve"
    BY <1>1 DEF IInv, TypeOK, InTurn
  <2>2. node[local].tid = tid /\ node[local].next = head /\ tid # NULL
    BY <2>1, ThreadsAssumption DEF NewNode, IInv, PointersGiven, Given
  <2> QED
    BY <2>1, <2>2 DEF IInv, TypeOK
<1>3. \A c \in Conns : ~Removing(c)
  BY <1>1 DEF InTurn, MainInList
<1>4. InTurn'
  BY <1>1, <1>3 DEF InTurn, Removing, MainInList
<1>5. PICK t \in [1 .. n + 1 -> Node] :
        /\ t[1] = local
        /\ \A i \in 1 .. n : t[i + 1] = s[i] /\ i + 1 \in 1 .. n + 1
        /\ \A i \in 1 .. n + 1 : i = 1 \/ (i - 1 \in 1 .. n /\ t[i] = s[i - 1])
  <2> DEFINE t == [i \in 1 .. n + 1 |-> IF i = 1 THEN local ELSE s[i - 1]]
  <2>1. /\ t \in [1 .. n + 1 -> Node]
        /\ t[1] = local
        /\ \A i \in 1 .. n : t[i + 1] = s[i] /\ i + 1 \in 1 .. n + 1
        /\ \A i \in 1 .. n + 1 : i = 1 \/ (i - 1 \in 1 .. n /\ t[i] = s[i - 1])
    BY <1>2
  <2> HIDE DEF t
  <2> QED
    BY <2>1
<1>6. Listed' = Listed \cup {tid} /\ tid \notin Listed
  BY <1>1, <1>2 DEF Listed
<1>7. InList' = InList \cup {local}
  BY <1>1, <1>2, <1>3 DEF InList, Removing
<1>8. Chained(n + 1, t)'
  <2>1. head' = Follower(n + 1, t, 0)
    BY <1>1, <1>5 DEF Follower
  <2>2. ASSUME NEW i \in 1 .. n + 1
        PROVE  node[t[i]].next = Follower(n + 1, t, i)
    <3>1. CASE i = 1
      <4>1. node[t[i]].next = Follower(n, s, 0)
        BY <1>2, <1>5, <3>1 DEF IsTheList, Chained
      <4>2. n = 0 \/ (1 \in 1 .. n /\ t[2] = s[1])
        BY <1>5
      <4> QED
        BY <3>1, <4>1, <4>2 DEF Follower
    <3>2. CASE i # 1
      <4>1. i - 1 \in 1 .. n /\ t[i] = s[i - 1]
        BY <1>5, <3>2
      <4>2. node[t[i]].next = Follower(n, s, i - 1)
        BY <4>1 DEF IsTheList, Chained
      <4>3. i = n + 1 \/ (i \in 1 .. n /\ t[i + 1] = s[i])
        BY <1>5
      <4> QED
        BY <4>1, <4>2, <4>3 DEF Follower
    <3> QED
      BY <3>1, <3>2
  <2> QED
    BY <1>1, <2>1, <2>2 DEF Chained, Follower
<1>9. NamesThreads(n + 1, t)'
  <2>1. \A i \in 1 .. n + 1 : node[t[i]].tid \in Listed \cup {tid}
    BY <1>2, <1>5 DEF IsTheList, NamesThreads
  <2>2. ASSUME NEW c \in Listed \cup {tid}
        PROVE  \E i \in 1 .. n + 1 : node[t[i]].tid = c
    <3>1. CASE c = tid
      BY <1>2, <1>5, <3>1, 1 \in 1 .. n + 1
    <3>2. CASE c \in Listed
      BY <1>5, <3>2 DEF IsTheList, NamesThreads
    <3> QED
      BY <3>1, <3>2
  <2>3. ASSUME NEW i \in 1 .. n + 1, NEW j \in 1 .. n + 1,
               node[t[i]].tid = node[t[j]].tid
        PROVE  i = j
    <3>1. \A k \in 1 .. n : node[s[k]].tid # tid
      BY <1>6 DEF IsTheList, NamesThreads
    <3>2. CASE i = 1 \/ j = 1
      BY <1>2, <1>5, <2>3, <3>1, <3>2
    <3>3. CASE i # 1 /\ j # 1
      <4>1. /\ i - 1 \in 1 .. n /\ t[i] = s[i - 1]
            /\ j - 1 \in 1 .. n /\ t[j] = s[j - 1]
        BY <1>5, <3>3
      <4>2. i - 1 = j - 1
        BY <2>3, <4>1 DEF IsTheList, NamesThreads
      <4> QED
        BY <4>2
    <3> QED
      BY <3>2, <3>3
  <2> QED
    BY <1>1, <1>6, <2>1, <2>2, <2>3 DEF NamesThreads
<1>10. HoldsBlocks(n + 1, t)'
  <2>1. \A i \in 1 .. n + 1 : t[i] \in InList \cup {local}
    BY <1>5 DEF IsTheList, HoldsBlocks
  <2>2. ASSUME NEW m \in InList \cup {local}
        PROVE  \E i \in 1 .. n + 1 : t[i] = m
    <3>1. CASE m = local
      BY <1>5, <3>1, 1 \in 1 .. n + 1
    <3>2. CASE m \in InList
      BY <1>5, <3>2 DEF IsTheList, HoldsBlocks
    <3> QED
      BY <3>1, <3>2
  <2> QED
    BY <1>7, <2>1, <2>2 DEF HoldsBlocks
<1>11. Searches(n + 1, t)'
  BY <1>1, <1>3 DEF Searches, Removing
<1> QED
  BY <1>4, <1>5, <1>8, <1>9, <1>10, <1>11 DEF IsTheList

(* remove_thread begins: the thread's node is in the list.                 *)
LEMMA RemoveKeepsList ==
  ASSUME IInv, InTurn, NEW c \in Conns, RemoveThread(c), ~raced',
         NEW n \in Nat, NEW s \in [1 .. n -> Node], IsTheList(n, s)
  PROVE  InTurn' /\ IsTheList(n, s)'
<1>1. /\ pc[c] = "serve" /\ ~MainInList /\ \A d \in Conns : ~Removing(d)
      /\ pc' = [pc EXCEPT ![c] = "search"]
      /\ prev' = [prev EXCEPT ![c] = NULL]
      /\ current' = [current EXCEPT ![c] = head]
      /\ UNCHANGED <<main, tid, local, head, node, alloc>>
  BY DEF RemoveThread, server, list
<1>2. /\ \A d \in Conns : d # c => pc'[d] = pc[d]
      /\ pc'[c] = "search" /\ prev'[c] = NULL /\ current'[c] = head
  BY <1>1 DEF IInv, TypeOK
<1>3. Listed' = Listed /\ c \in Listed
  BY <1>1, <1>2 DEF Listed, MainInList
<1>4. InList' = InList
  <2>1. \A d \in Conns : pc[d] # "free" /\ pc'[d] # "free"
    BY <1>1, <1>2 DEF Removing
  <2> QED
    BY <1>1, <2>1 DEF InList
<1>5. Chained(n, s)' /\ NamesThreads(n, s)' /\ HoldsBlocks(n, s)'
  BY <1>1, <1>3, <1>4, SameNodes DEF IsTheList
<1>6. Searches(n, s)'
  <2>1. 1 \in 1 .. n
    BY <1>3 DEF IsTheList, NamesThreads
  <2>2. current'[c] = s[1]
    BY <1>2, <2>1 DEF IsTheList, Chained, Follower
  <2>3. Reached(n, s, c, 1)'
    BY <1>2, <2>1, <2>2 DEF Reached
  <2>4. \A d \in Conns : pc'[d] \in {"search", "unlink"} => d = c
    BY <1>1, <1>2 DEF Removing
  <2> QED
    BY <2>1, <2>3, <2>4 DEF Searches
<1>7. InTurn'
  BY <1>1, <1>2 DEF InTurn, Removing, MainInList
<1> QED
  BY <1>5, <1>6, <1>7 DEF IsTheList

(* A search goes on, and cannot run off the end of the list.               *)
LEMMA SearchKeepsList ==
  ASSUME IInv, InTurn, NEW c \in Conns, SearchOn(c),
         NEW n \in Nat, NEW s \in [1 .. n -> Node], IsTheList(n, s)
  PROVE  InTurn' /\ IsTheList(n, s)'
<1>1. /\ pc[c] = "search" /\ node[current[c]].tid # c
      /\ prev' = [prev EXCEPT ![c] = current[c]]
      /\ current' = [current EXCEPT ![c] = node[current[c]].next]
      /\ UNCHANGED <<pc, main, tid, local, head, node, alloc>>
  BY DEF SearchOn, server, list
<1>2. /\ prev'[c] = current[c] /\ current'[c] = node[current[c]].next
      /\ \A d \in Conns : d # c => prev'[d] = prev[d] /\ current'[d] = current[d]
  BY <1>1 DEF IInv, TypeOK
<1>3. InTurn'
  BY <1>1 DEF InTurn, Removing, MainInList, NewNode
<1>4. \A d \in Conns : d # c => pc[d] \notin {"search", "unlink", "free"}
  BY <1>1 DEF InTurn, Removing
<1>5. c \in Listed
  BY <1>1 DEF Listed, InTurn, MainInList, Removing
<1>6. Listed' = Listed /\ InList' = InList
  BY <1>1, <1>2, <1>4 DEF Listed, InList
<1>7. Chained(n, s)' /\ NamesThreads(n, s)' /\ HoldsBlocks(n, s)'
  BY <1>1, <1>6, SameNodes DEF IsTheList
<1>8. PICK i \in 1 .. n : Reached(n, s, c, i)
  BY <1>1 DEF IsTheList, Searches
<1>9. PICK k \in 1 .. n : node[s[k]].tid = c
  BY <1>5 DEF IsTheList, NamesThreads
<1>10. k > i /\ i # n /\ i + 1 \in 1 .. n
  <2>1. ~(k < i) /\ k # i
    BY <1>1, <1>8, <1>9 DEF Reached
  <2> QED
    BY <2>1
<1>11. node[current[c]].next = s[i + 1]
  BY <1>8, <1>10 DEF Reached, IsTheList, Chained, Follower
<1>12. \A j \in 1 .. n : j < i + 1 => node[s[j]].tid # c
  <2> SUFFICES ASSUME NEW j \in 1 .. n, j < i + 1 PROVE node[s[j]].tid # c
    OBVIOUS
  <2>1. j < i \/ j = i
    OBVIOUS
  <2> QED
    BY <1>1, <1>8, <2>1 DEF Reached
<1>13. Reached(n, s, c, i + 1)'
  <2>1. i + 1 # 1 /\ (i + 1) - 1 = i
    OBVIOUS
  <2> QED
    BY <1>1, <1>2, <1>8, <1>11, <1>12, <2>1 DEF Reached
<1>14. Searches(n, s)'
  BY <1>1, <1>4, <1>10, <1>13 DEF Searches
<1> QED
  BY <1>3, <1>7, <1>14 DEF IsTheList

(* A search finds the thread's own node.                                   *)
LEMMA SearchEndKeepsList ==
  ASSUME IInv, InTurn, NEW c \in Conns, SearchEnds(c),
         NEW n \in Nat, NEW s \in [1 .. n -> Node], IsTheList(n, s)
  PROVE  InTurn' /\ IsTheList(n, s)'
<1>1. /\ pc[c] = "search"
      /\ current[c] = NULL \/ pc' = [pc EXCEPT ![c] = "unlink"]
      /\ UNCHANGED <<main, tid, local, head, node, alloc, prev, current>>
  BY DEF SearchEnds, server, list
<1>2. current[c] # NULL
  <2>1. PICK i \in 1 .. n : Reached(n, s, c, i)
    BY <1>1 DEF IsTheList, Searches
  <2> QED
    BY <2>1, ThreadsAssumption DEF Reached
<1>3. pc'[c] = "unlink" /\ \A d \in Conns : d # c => pc'[d] = pc[d]
  BY <1>1, <1>2 DEF IInv, TypeOK
<1>4. Listed' = Listed /\ InList' = InList
  BY <1>1, <1>3 DEF Listed, InList
<1>5. IsTheList(n, s)'
  BY <1>1, <1>3, <1>4, SameList
<1>6. InTurn'
  <2>1. \A d \in Conns : Removing(d)' = Removing(d)
    BY <1>1, <1>3 DEF Removing
  <2>2. main \notin {"add", "link"}
    BY <1>1 DEF InTurn, Removing, MainInList
  <2> QED
    BY <1>1, <2>1, <2>2 DEF InTurn, MainInList
<1> QED
  BY <1>5, <1>6

(* The node is taken out: the one before it leads to the one after it.     *)
LEMMA UnlinkKeepsList ==
  ASSUME IInv, InTurn, NEW c \in Conns, Unlink(c),
         NEW n \in Nat, NEW s \in [1 .. n -> Node], IsTheList(n, s)
  PROVE  InTurn' /\ \E p \in Nat : \E t \in [1 .. p -> Node] : IsTheList(p, t)'
<1>1. /\ pc[c] = "unlink" /\ pc' = [pc EXCEPT ![c] = "free"]
      /\ UNCHANGED <<alloc, prev, current, main, tid, local>>
      /\ \/ /\ prev[c] = NULL /\ node' = node
            /\ head' = node[current[c]].next
         \/ /\ prev[c] # NULL /\ head' = head
            /\ node' = [node EXCEPT ![prev[c]].next = node[current[c]].next]
  BY DEF Unlink, server
<1>2. PICK i \in 1 .. n : Reached(n, s, c, i)
  BY <1>1 DEF IsTheList, Searches
<1>3. /\ current[c] = s[i] /\ s[i] \in Node /\ node[s[i]].tid = c
      /\ node[s[i]].next = Follower(n, s, i)
  BY <1>1, <1>2 DEF Reached, IInv, OwnNode, IsTheList, Chained
<1>4. /\ pc'[c] = "free"
      /\ \A d \in Conns : d # c =>
           pc'[d] = pc[d] /\ pc[d] \notin {"search", "unlink", "free"}
  BY <1>1 DEF IInv, TypeOK, InTurn, Removing
<1>5. main \notin {"add", "link"}
  BY <1>1 DEF InTurn, Removing, MainInList
<1>6. Listed' = Listed \ {c}
  BY <1>1, <1>4, <1>5 DEF Listed
<1>7. InList' = InList \ {s[i]}
  BY <1>1, <1>3, <1>4, <1>5 DEF InList
<1>8. \A j, k \in 1 .. n : s[j] = s[k] => j = k
  BY DEF IsTheList, NamesThreads
<1>9. /\ \A m \in Node : node'[m].tid = node[m].tid
      /\ i = 1 => head' = Follower(n, s, i) /\ node' = node
      /\ i # 1 => /\ head' = head
                  /\ i - 1 \in 1 .. n
                  /\ node'[s[i - 1]].next = Follower(n, s, i)
                  /\ \A m \in Node : m # s[i - 1] => node'[m] = node[m]
  <2>1. CASE i = 1
    BY <1>1, <1>2, <1>3, <2>1 DEF Reached
  <2>2. CASE i # 1
    <3>1. prev[c] = s[i - 1] /\ i - 1 \in 1 .. n /\ s[i - 1] \in Node
      BY <1>2, <2>2 DEF Reached
    <3>2. head' = head
          /\ node' = [node EXCEPT ![s[i - 1]].next = Follower(n, s, i)]
      BY <1>1, <1>3, <3>1, ThreadsAssumption
    <3>3. node \in [Node -> Struct]
      BY DEF IInv, TypeOK
    <3> QED
      BY <2>2, <3>1, <3>2, <3>3 DEF Struct
  <2> QED
    BY <2>1, <2>2
<1>10. PICK p \in Nat : n = p + 1
  <2>1. n - 1 \in Nat /\ n = (n - 1) + 1
    OBVIOUS
  <2> QED
    BY <2>1
<1>11. PICK t \in [1 .. p -> Node] :
         \A j \in 1 .. p :
           /\ j < i => j \in 1 .. n /\ t[j] = s[j]
           /\ ~(j < i) => j + 1 \in 1 .. n /\ t[j] = s[j + 1]
  <2> DEFINE t == [j \in 1 .. p |-> IF j < i THEN s[j] ELSE s[j + 1]]
  <2>1. \A j \in 1 .. p : j \in 1 .. n /\ j + 1 \in 1 .. n
    BY <1>10
  <2>2. t \in [1 .. p -> Node]
    BY <2>1
  <2>3. \A j \in 1 .. p :
          /\ j < i => j \in 1 .. n /\ t[j] = s[j]
          /\ ~(j < i) => j + 1 \in 1 .. n /\ t[j] = s[j + 1]
    BY <2>1
  <2> HIDE DEF t
  <2> QED
    BY <2>2, <2>3
<1>12. \A k \in 1 .. n : k # i => \E j \in 1 .. p : t[j] = s[k]
  <2> SUFFICES ASSUME NEW k \in 1 .. n, k # i
               PROVE  \E j \in 1 .. p : t[j] = s[k]
    OBVIOUS
  <2>1. CASE k < i
    <3>1. k \in 1 .. p
      BY <1>10, <2>1
    <3> QED
      BY <1>11, <2>1, <3>1
  <2>2. CASE ~(k < i)
    <3>1. k - 1 \in 1 .. p /\ ~(k - 1 < i) /\ (k - 1) + 1 = k
      BY <1>10, <2>2
    <3> QED
      BY <1>11, <3>1
  <2> QED
    BY <2>1, <2>2
<1>13. \A j \in 1 .. p : \E k \in 1 .. n :
         k # i /\ t[j] = s[k] /\ k = IF j < i THEN j ELSE j + 1
  BY <1>11
<1>14. Chained(p, t)'
  <2>1. \A j \in 1 .. n : node[s[j]].next = Follower(n, s, j) /\ s[j] \in Node
    BY DEF IsTheList, Chained
  <2>2. head' = Follower(p, t, 0)
    <3>1. CASE i = 1
      <4>1. p = 0 \/ (1 \in 1 .. p /\ t[1] = s[2])
        BY <1>10, <1>11, <3>1
      <4> QED
        BY <1>9, <1>10, <3>1, <4>1 DEF Follower
    <3>2. CASE i # 1
      <4>1. 1 \in 1 .. p /\ t[1] = s[1] /\ 0 # n
        BY <1>10, <1>11, <3>2
      <4> QED
        BY <1>9, <3>2, <4>1 DEF Follower, IsTheList, Chained
    <3> QED
      BY <3>1, <3>2
  <2>3. ASSUME NEW j \in 1 .. p
        PROVE  node'[t[j]].next = Follower(p, t, j)
    <3>1. CASE ~(j < i)
      <4>1. j + 1 \in 1 .. n /\ t[j] = s[j + 1]
        BY <1>11, <3>1
      <4>2. node'[t[j]] = node[s[j + 1]]
        <5>1. i # 1 => s[j + 1] # s[i - 1]
          BY <1>8, <1>9, <3>1, <4>1
        <5> QED
          BY <1>9, <2>1, <4>1, <5>1
      <4>3. j = p \/ (j + 1 \in 1 .. p /\ ~(j + 1 < i)
                      /\ t[j + 1] = s[(j + 1) + 1])
        BY <1>11, <3>1
      <4> QED
        BY <1>10, <2>1, <4>1, <4>2, <4>3 DEF Follower
    <3>2. CASE j < i /\ j # i - 1
      <4>1. j \in 1 .. n /\ t[j] = s[j] /\ j # n /\ i # 1
        BY <1>11, <3>2
      <4>2. node'[t[j]] = node[s[j]]
        <5>1. s[j] # s[i - 1]
          BY <1>8, <1>9, <3>2, <4>1
        <5> QED
          BY <1>9, <2>1, <4>1, <5>1
      <4>3. j # p /\ j + 1 \in 1 .. p /\ j + 1 < i /\ t[j + 1] = s[j + 1]
        BY <1>10, <1>11, <3>2
      <4> QED
        BY <2>1, <4>1, <4>2, <4>3 DEF Follower
    <3>3. CASE j = i - 1
      <4>1. t[j] = s[i - 1] /\ i # 1
        BY <1>11, <3>3
      <4>2. node'[t[j]].next = Follower(n, s, i)
        BY <1>9, <4>1
      <4>3. (j = p) = (i = n)
        BY <1>10, <3>3
      <4>4. j = p \/ (i \in 1 .. p /\ t[i] = s[i + 1])
        BY <1>11, <3>3
      <4>5. j + 1 = i
        BY <3>3
      <4> QED
        BY <4>2, <4>3, <4>4, <4>5 DEF Follower
    <3> QED
      BY <3>1, <3>2, <3>3
  <2> QED
    BY <2>2, <2>3 DEF Chained, Follower
<1>15. NamesThreads(p, t)'
  <2>1. ASSUME NEW j \in 1 .. p PROVE node[t[j]].tid \in Listed \ {c}
    BY <1>3, <1>13 DEF IsTheList, NamesThreads
  <2>2. ASSUME NEW d \in Listed \ {c} PROVE \E j \in 1 .. p : node[t[j]].tid = d
    <3>1. PICK k \in 1 .. n : node[s[k]].tid = d
      BY DEF IsTheList, NamesThreads
    <3> QED
      BY <1>3, <1>12, <3>1
  <2>3. ASSUME NEW j \in 1 .. p, NEW k \in 1 .. p,
               node[t[j]].tid = node[t[k]].tid
        PROVE  j = k
    <3>1. PICK x \in 1 .. n : /\ x # i /\ t[j] = s[x]
                              /\ x = IF j < i THEN j ELSE j + 1
      BY <1>13
    <3>2. PICK y \in 1 .. n : /\ y # i /\ t[k] = s[y]
                              /\ y = IF k < i THEN k ELSE k + 1
      BY <1>13
    <3>3. x = y
      BY <2>3, <3>1, <3>2 DEF IsTheList, NamesThreads
    <3> QED
      BY <3>1, <3>2, <3>3
  <2>4. \A j \in 1 .. p : t[j] \in Node
    OBVIOUS
  <2> QED
    BY <1>6, <1>9, <2>1, <2>2, <2>3, <2>4 DEF NamesThreads
<1>16. HoldsBlocks(p, t)'
  <2>1. ASSUME NEW j \in 1 .. p PROVE t[j] \in InList \ {s[i]}
    BY <1>8, <1>13 DEF IsTheList, HoldsBlocks
  <2>2. ASSUME NEW m \in InList \ {s[i]} PROVE \E j \in 1 .. p : t[j] = m
    <3>1. PICK k \in 1 .. n : s[k] = m
      BY DEF IsTheList, HoldsBlocks
    <3> QED
      BY <1>12, <3>1
  <2> QED
    BY <1>7, <2>1, <2>2 DEF HoldsBlocks
<1>17. Searches(p, t)'
  BY <1>4 DEF Searches
<1>18. InTurn'
  <2>1. \A d \in Conns : Removing(d)' = Removing(d)
    BY <1>1, <1>4 DEF Removing
  <2>2. ~MainInList
    BY <1>1 DEF InTurn, Removing
  <2>3. main # "cleanup"
    BY <1>3, ThreadsAssumption DEF InTurn, IsTheList, Chained, Follower
  <2> QED
    BY <1>1, <2>1, <2>2, <2>3 DEF InTurn, MainInList
<1> QED
  BY <1>14, <1>15, <1>16, <1>17, <1>18 DEF IsTheList

(* The node that is freed is no longer in the list.                        *)
LEMMA FreeKeepsList ==
  ASSUME IInv, InTurn, NEW c \in Conns, FreeNode(c),
         NEW n \in Nat, NEW s \in [1 .. n -> Node], IsTheList(n, s)
  PROVE  InTurn' /\ IsTheList(n, s)'
<1>1. /\ pc[c] = "free" /\ pc' = [pc EXCEPT ![c] = "over"]
      /\ alloc' = alloc \ {current[c]}
      /\ UNCHANGED <<head, node, prev, current, main, tid, local>>
  BY DEF FreeNode, server
<1>2. pc'[c] = "over" /\ \A d \in Conns : d # c => pc'[d] = pc[d]
  BY <1>1 DEF IInv, TypeOK
<1>3. Listed' = Listed
  BY <1>1, <1>2 DEF Listed
<1>4. \A d \in Conns : d # c => pc[d] # "free"
  BY <1>1 DEF InTurn, Removing
<1>5. InList' = InList
  BY <1>1, <1>2, <1>4 DEF InList
<1>6. IsTheList(n, s)'
  BY <1>1, <1>2, <1>3, <1>5, SameList
<1>7. InTurn'
  <2>1. \A d \in Conns : Removing(d)' => Removing(d)
    BY <1>1, <1>2 DEF Removing
  <2>2. ~MainInList
    BY <1>1 DEF InTurn, Removing
  <2> QED
    BY <1>1, <2>1, <2>2 DEF InTurn, MainInList
<1> QED
  BY <1>6, <1>7

LEMMA NextLInv == IInv /\ LInv /\ [Next]_vars => LInv'
<1> SUFFICES ASSUME IInv, LInv, [Next]_vars, Running', ~raced'
             PROVE  InTurn' /\ \E n \in Nat : \E s \in [1 .. n -> Node] :
                                 IsTheList(n, s)'
  BY DEF LInv
<1>1. CASE UNCHANGED vars
  <2>1. Running /\ ~raced
    BY <1>1 DEF vars, server, Running
  <2>2. PICK n \in Nat : \E s \in [1 .. n -> Node] : IsTheList(n, s)
    BY <2>1 DEF LInv
  <2>3. PICK s \in [1 .. n -> Node] : IsTheList(n, s)
    BY <2>2
  <2>4. Listed' = Listed /\ InList' = InList
    BY <1>1 DEF vars, list, client, server, Listed, InList
  <2>5. IsTheList(n, s)'
    BY <1>1, <2>3, <2>4, SameList DEF vars, list, client
  <2>6. InTurn'
    BY <1>1, <2>1 DEF vars, list, client, server, LInv, InTurn, Removing,
                      MainInList, NewNode
  <2> QED
    BY <2>5, <2>6
<1>2. CASE Next
  <2>1. Running /\ ~raced
    <3>0. raced \in BOOLEAN
      BY DEF IInv, TypeOK
    <3>1. CASE MainStep \/ AddFails \/ Signal \/ Dies
      BY <3>0, <3>1 DEF MainStep, Running, TestRun, AddThread, LinkNode, CallJoin,
                  Join, JoinNext, JoinEnds, Cleanup, AddFails, Signal, Dies
    <3>2. ASSUME NEW c \in Conns, Create(c) \/ CreateFails(c) \/ SessionFails(c)
          PROVE  Running /\ ~raced
      BY <3>0, <3>2 DEF Running, list, Create, CreateFails, SessionFails
    <3>3. ASSUME NEW c \in Conns, ClientStep(c)
          PROVE  Running /\ ~raced
      BY <3>0, <3>3 DEF Running, list, server, ClientStep, RemoveThread,
                        SearchOn, SearchEnds, Unlink, FreeNode
    <3> QED
      BY <1>2, <3>1, <3>2, <3>3 DEF Next
  <2>2. InTurn
    BY <2>1 DEF LInv
  <2>3. PICK n \in Nat : \E s \in [1 .. n -> Node] : IsTheList(n, s)
    BY <2>1 DEF LInv
  <2>4. PICK s \in [1 .. n -> Node] : IsTheList(n, s)
    BY <2>3
  <2>5. ~Join /\ ~JoinNext
    BY <2>2, <2>4, NoJoin
  <2>6. ~Cleanup /\ ~AddFails /\ ~Dies /\ \A c \in Conns : ~SessionFails(c)
    BY DEF Cleanup, AddFails, Dies, SessionFails, Running
  <2>7. CASE TestRun \/ CallJoin \/ JoinEnds \/ Signal
    BY <2>1, <2>2, <2>4, <2>7, TurnsKeep
  <2>8. CASE AddThread
    BY <2>2, <2>4, <2>8, AddKeepsList
  <2>9. CASE LinkNode
    <3>1. n + 1 \in Nat
      OBVIOUS
    <3> QED
      BY <2>2, <2>4, <2>9, <3>1, LinkKeepsList
  <2>10. ASSUME NEW c \in Conns, Create(c) \/ CreateFails(c) \/ ClientStep(c)
        PROVE  InTurn' /\ \E m \in Nat : \E t \in [1 .. m -> Node] :
                            IsTheList(m, t)'
    <3>1. CASE Create(c) \/ CreateFails(c)
      BY <2>2, <2>4, <3>1, CreateKeeps
    <3>2. CASE RemoveThread(c)
      BY <2>2, <2>4, <3>2, RemoveKeepsList
    <3>3. CASE SearchOn(c)
      BY <2>2, <2>4, <3>3, SearchKeepsList
    <3>4. CASE SearchEnds(c)
      BY <2>2, <2>4, <3>4, SearchEndKeepsList
    <3>5. CASE Unlink(c)
      BY <2>2, <2>4, <3>5, UnlinkKeepsList
    <3>6. CASE FreeNode(c)
      BY <2>2, <2>4, <3>6, FreeKeepsList
    <3> QED
      BY <2>10, <3>1, <3>2, <3>3, <3>4, <3>5, <3>6 DEF ClientStep
  <2> QED
    BY <1>2, <2>5, <2>6, <2>7, <2>8, <2>9, <2>10 DEF Next, MainStep
<1> QED
  BY <1>1, <1>2

LEMMA InductiveList == Spec => [](IInv /\ LInv)
<1>1. Init => IInv /\ LInv
  BY InitIInv, InitLInv
<1>2. (IInv /\ LInv) /\ [Next]_vars => (IInv /\ LInv)'
  BY NextIInv, NextLInv
<1> QED
  BY <1>1, <1>2, PTL DEF Spec

-----------------------------------------------------------------------------
(* The list as At walks it.  The recursion has the solution that follows   *)
(* the nodes s[1] to s[n], and no other.                                   *)
LEMMA AtSteps ==
  ASSUME NEW n \in Nat, NEW s \in [1 .. n -> Node], Chained(n, s)
  PROVE  LET N == Cardinality(Node)
         IN  /\ N \in Nat
             /\ DOMAIN At = 0 .. N
             /\ \A k \in 0 .. N :
                  At[k] = IF k = 0 THEN head
                          ELSE IF At[k - 1] = NULL THEN NULL
                          ELSE node[At[k - 1]].next
<1> DEFINE N == Cardinality(Node)
           F(f) == [k \in 0 .. N |->
                      IF k = 0 THEN head
                      ELSE IF f[k - 1] = NULL THEN NULL
                      ELSE node[f[k - 1]].next]
           g == [k \in 0 .. N |-> IF k < n THEN s[k + 1] ELSE NULL]
<1>1. N \in Nat
  BY ThreadsAssumption, FS_CardinalityType
<1> HIDE DEF N
<1>2. ASSUME NEW k \in 0 .. N
      PROVE  g[k] = IF k = 0 THEN head
                    ELSE IF g[k - 1] = NULL THEN NULL ELSE node[g[k - 1]].next
  <2>1. CASE k = 0
    BY <1>1, <2>1 DEF Chained, Follower
  <2>2. CASE k # 0 /\ ~(k - 1 < n)
    BY <1>1, <2>2
  <2>3. CASE k # 0 /\ k - 1 < n
    <3>1. /\ k \in 1 .. n /\ k - 1 \in 0 .. N /\ (k - 1) + 1 = k
          /\ g[k - 1] = s[k] /\ s[k] # NULL
      BY <1>1, <2>3, ThreadsAssumption
    <3>2. node[s[k]].next = IF k = n THEN NULL ELSE s[k + 1]
      BY <3>1 DEF Chained, Follower
    <3>3. g[k] = IF k = n THEN NULL ELSE s[k + 1]
      BY <1>1, <3>1
    <3> HIDE DEF g
    <3> QED
      BY <2>3, <3>1, <3>2, <3>3
  <2> QED
    BY <2>1, <2>2, <2>3
<1>3. g = F(g)
  <2>1. \A k \in 0 .. N : g[k] = F(g)[k]
    <3> HIDE DEF g
    <3> QED
      BY <1>2
  <2> QED
    BY <2>1
<1>4. At = CHOOSE f : f = F(f)
  BY DEF At, N
<1> HIDE DEF g
<1>5. At = F(At)
  <2> HIDE DEF F
  <2> QED
    BY <1>3, <1>4
<1>6. DOMAIN At = 0 .. N
  BY <1>5
<1>7. \A k \in 0 .. N :
        At[k] = IF k = 0 THEN head
                ELSE IF At[k - 1] = NULL THEN NULL ELSE node[At[k - 1]].next
  BY <1>5
<1> QED
  BY <1>1, <1>6, <1>7 DEF N

LEMMA AtFollows ==
  ASSUME NEW n \in Nat, NEW s \in [1 .. n -> Node], Chained(n, s)
  PROVE  \A k \in 0 .. Cardinality(Node) :
           At[k] = IF k < n THEN s[k + 1] ELSE NULL
<1> DEFINE N == Cardinality(Node)
           Good(k) == At[k] = IF k < n THEN s[k + 1] ELSE NULL
           T == {k \in Nat : k \in 0 .. N => Good(k)}
<1>1. /\ N \in Nat
      /\ \A k \in 0 .. N :
           At[k] = IF k = 0 THEN head
                   ELSE IF At[k - 1] = NULL THEN NULL
                   ELSE node[At[k - 1]].next
  BY AtSteps
<1> HIDE DEF N
<1>2. 0 \in T
  BY <1>1 DEF Chained, Follower
<1>3. ASSUME NEW k \in T PROVE k + 1 \in T
  <2> SUFFICES ASSUME k + 1 \in 0 .. N PROVE Good(k + 1)
    OBVIOUS
  <2>1. k \in 0 .. N /\ k + 1 # 0 /\ (k + 1) - 1 = k /\ k \in Nat
    BY <1>1
  <2>2. At[k] = IF k < n THEN s[k + 1] ELSE NULL
    BY <2>1
  <2>3. At[k + 1] = IF At[k] = NULL THEN NULL ELSE node[At[k]].next
    BY <1>1, <2>1
  <2>4. CASE k < n
    <3>1. k + 1 \in 1 .. n /\ s[k + 1] # NULL
      BY <2>1, <2>4, ThreadsAssumption
    <3>2. node[s[k + 1]].next = Follower(n, s, k + 1)
      BY <3>1 DEF Chained
    <3> QED
      BY <2>1, <2>2, <2>3, <2>4, <3>1, <3>2 DEF Follower
  <2>5. CASE ~(k < n)
    BY <2>1, <2>2, <2>3, <2>5
  <2> QED
    BY <2>4, <2>5
<1>4. T \in SUBSET Nat
  OBVIOUS
<1> HIDE DEF T
<1>5. \A k \in Nat : k \in T
  BY <1>2, <1>3, <1>4, Lemmas!SetInduction
<1> QED
  BY <1>1, <1>5 DEF T, N

(* A list without a node twice is no longer than there are nodes.          *)
LEMMA ListFits ==
  ASSUME NEW n \in Nat, NEW s \in [1 .. n -> Node],
         \A i, j \in 1 .. n : s[i] = s[j] => i = j
  PROVE  n <= Cardinality(Node)
<1>1. IsFiniteSet(1 .. n) /\ Cardinality(1 .. n) = n
  BY FS_Interval
<1>2. s \in Injection(1 .. n, Node)
  BY DEF Injection, IsInjective
<1> QED
  BY <1>1, <1>2, ThreadsAssumption, FS_Injection

(* As long as no two operations on the list overlapped, the list has a     *)
(* node for each thread that serves and every allocated node, whatever the *)
(* number of connections and of blocks: adding and removing are wrong only *)
(* in that nothing keeps them apart.                                       *)
THEOREM ListKept == Spec => []ListIsExact
<1>1. IInv /\ LInv => ListIsExact
  <2> SUFFICES ASSUME LInv, Quiescent, ~raced
               PROVE  /\ At[Cardinality(Node)] = NULL
                      /\ Linked = alloc
                      /\ {node[m].tid : m \in Linked} =
                           {c \in Conns : pc[c] = "serve"}
                      /\ \A m, q \in Linked : node[m].tid = node[q].tid => m = q
    BY DEF ListIsExact
  <2>1. PICK n \in Nat : \E s \in [1 .. n -> Node] : IsTheList(n, s)
    BY DEF LInv, Quiescent
  <2>2. PICK s \in [1 .. n -> Node] : IsTheList(n, s)
    BY <2>1
  <2> DEFINE N == Cardinality(Node)
  <2>3. N \in Nat /\ DOMAIN At = 0 .. N
    BY <2>2, AtSteps DEF IsTheList
  <2>4. \A k \in 0 .. N : At[k] = IF k < n THEN s[k + 1] ELSE NULL
    BY <2>2, AtFollows DEF IsTheList
  <2>5. n <= N
    BY <2>2, ListFits DEF IsTheList, NamesThreads
  <2> HIDE DEF N
  <2>6. At[N] = NULL
    BY <2>3, <2>4, <2>5
  <2>7. Linked = {s[i] : i \in 1 .. n}
    <3>1. ASSUME NEW m \in Linked PROVE m \in {s[i] : i \in 1 .. n}
      <4>1. PICK k \in 0 .. N : m = At[k] /\ m # NULL
        BY <2>3 DEF Linked
      <4>2. k < n /\ m = s[k + 1] /\ k + 1 \in 1 .. n
        BY <2>3, <2>4, <4>1
      <4> QED
        BY <4>2
    <3>2. ASSUME NEW i \in 1 .. n PROVE s[i] \in Linked
      <4>1. i - 1 \in 0 .. N /\ i - 1 < n /\ (i - 1) + 1 = i
        BY <2>3, <2>5
      <4>2. At[i - 1] = s[i]
        BY <2>4, <4>1
      <4>3. s[i] # NULL
        BY ThreadsAssumption
      <4> QED
        BY <2>3, <4>1, <4>2, <4>3 DEF Linked
    <3> QED
      BY <3>1, <3>2
  <2>8. InList = alloc
    BY DEF InList, Quiescent, Removing, MainInList
  <2>9. Listed = {c \in Conns : pc[c] = "serve"}
    BY DEF Listed, Quiescent, Removing, MainInList
  <2>10. Linked = alloc
    BY <2>2, <2>7, <2>8 DEF IsTheList, HoldsBlocks
  <2>11. {node[m].tid : m \in Linked} = Listed
    BY <2>2, <2>7 DEF IsTheList, NamesThreads
  <2>12. \A m, q \in Linked : node[m].tid = node[q].tid => m = q
    BY <2>2, <2>7 DEF IsTheList, NamesThreads
  <2> QED
    BY <2>6, <2>9, <2>10, <2>11, <2>12 DEF N
<1> QED
  BY <1>1, InductiveList, PTL
=============================================================================
