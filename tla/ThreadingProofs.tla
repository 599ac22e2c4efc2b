--------------------------- MODULE ThreadingProofs ---------------------------
(***************************************************************************)
(* What a joiner may rely on, for every number of threads and mutexes and  *)
(* all times, under every failure.                                         *)
(***************************************************************************)
EXTENDS Threading, TLAPS

(* A thread that has a mutex is between obtaining and releasing it.        *)
OwnerHolds ==
  \A t \in Threads, m \in Mutexes :
    owner[m] = t => pc[t] = "hold" /\ data[t].mutex = m

(* The time slept with the mutex and the time still to sleep add up.       *)
HeldSoFar ==
  \A t \in Threads :
    pc[t] = "hold" =>
      interrupted[t] \/ held[t] + left[t] >= HoldsFor(t)

IInv ==
  /\ TypeOK
  /\ DataLivesWithItsThread
  /\ OwnerHolds
  /\ HeldSoFar
  /\ SuccessIsEarned

LEMMA SecondsType == ASSUME NEW ms \in Nat PROVE Seconds(ms) \in Nat
BY DEF Seconds

LEMMA DataFields ==
  ASSUME NEW d \in ThreadData, ThreadingAssumption
  PROVE  /\ d # NULL
         /\ d.mutex \in Mutexes
         /\ Seconds(d.wait_to_obtain_ms) \in Nat
         /\ Seconds(d.wait_to_release_ms) \in 0 .. MaxHeld
<1>1. /\ d.wait_to_obtain_ms \in Waits
      /\ d.wait_to_release_ms \in Waits
      /\ d.mutex \in Mutexes
  BY DEF ThreadData
<1>2. \A ms \in Waits : Seconds(ms) \in Nat /\ Seconds(ms) <= MaxHeld
  BY SecondsType DEF ThreadingAssumption
<1>3. d # NULL /\ MaxHeld \in Nat
  BY DEF ThreadingAssumption
<1>4. Seconds(d.wait_to_obtain_ms) \in Nat
  BY <1>1, <1>2
<1>5. /\ Seconds(d.wait_to_release_ms) \in Nat
      /\ Seconds(d.wait_to_release_ms) <= MaxHeld
  BY <1>1, <1>2
<1>6. Seconds(d.wait_to_release_ms) \in 0 .. MaxHeld
  BY <1>3, <1>5
<1> QED
  BY <1>1, <1>3, <1>4, <1>6

-----------------------------------------------------------------------------
LEMMA InitIInv == ASSUME ThreadingAssumption, Init PROVE IInv
<1> USE DEF Init, ThreadingAssumption
<1>1. TypeOK
  BY DEF TypeOK
<1>2. DataLivesWithItsThread
  BY DEF DataLivesWithItsThread
<1>3. OwnerHolds
  BY DEF OwnerHolds
<1>4. HeldSoFar /\ SuccessIsEarned
  BY DEF HeldSoFar, SuccessIsEarned
<1> QED
  BY <1>1, <1>2, <1>3, <1>4 DEF IInv

LEMMA NextIInv == ASSUME ThreadingAssumption, IInv, [Next]_vars PROVE IInv'
<1> USE DEF IInv, TypeOK, DataLivesWithItsThread, OwnerHolds, HeldSoFar,
            SuccessIsEarned, ThreadingAssumption, HoldsFor
<1>1. CASE Tick
  <2>1. \A t \in Threads :
          pc[t] = "hold" => Seconds(data[t].wait_to_release_ms) \in 0 .. MaxHeld
    BY DataFields
  <2> QED
    BY <1>1, <2>1 DEF Tick, Sleeping
<1>2. ASSUME NEW t \in Threads, Allocate(t) PROVE IInv'
  <2>1. PICK d \in ThreadData : data' = [data EXCEPT ![t] = d]
    BY <1>2 DEF Allocate, NewData, ThreadData
  <2> QED
    BY <1>2, <2>1 DEF Allocate
<1>3. ASSUME NEW t \in Threads, MallocFails(t) PROVE IInv'
  BY <1>3 DEF MallocFails
<1>4. ASSUME NEW t \in Threads, Create(t) PROVE IInv'
  <2>1. Seconds(data[t].wait_to_obtain_ms) \in Nat
    BY <1>4, DataFields DEF Create
  <2> QED
    BY <1>4, <2>1 DEF Create
<1>5. ASSUME NEW t \in Threads, CreateFails(t) PROVE IInv'
  BY <1>5 DEF CreateFails
<1>6. ASSUME NEW t \in Threads, Interrupt(t) PROVE IInv'
  BY <1>6 DEF Interrupt, Sleeping
<1>7. ASSUME NEW t \in Threads, Obtain(t) PROVE IInv'
  <2>1. /\ data[t].mutex \in Mutexes
        /\ Seconds(data[t].wait_to_release_ms) \in Nat
    BY <1>7, DataFields DEF Obtain, Awake
  <2> QED
    BY <1>7, <2>1 DEF Obtain, Awake
<1>8. ASSUME NEW t \in Threads, ObtainFails(t) PROVE IInv'
  <2>1. /\ data[t] \in ThreadData
        /\ data[t].mutex \in Mutexes
        /\ Seconds(data[t].wait_to_release_ms) \in Nat
    BY <1>8, DataFields DEF ObtainFails, Awake
  <2>2. PICK d \in ThreadData :
          /\ data' = [data EXCEPT ![t] = d]
          /\ d.mutex = data[t].mutex
          /\ d.wait_to_release_ms = data[t].wait_to_release_ms
          /\ d.thread_complete_success = FALSE
    <3> DEFINE d == [data[t] EXCEPT !.thread_complete_success = FALSE]
    <3>1. data' = [data EXCEPT ![t] = d]
      BY <1>8 DEF ObtainFails, Exit
    <3>2. /\ d \in ThreadData
          /\ d.mutex = data[t].mutex
          /\ d.wait_to_release_ms = data[t].wait_to_release_ms
          /\ d.thread_complete_success = FALSE
      BY <2>1 DEF ThreadData
    <3> QED
      BY <3>1, <3>2
  <2>3. d # NULL
    BY DataFields
  <2>4. /\ pc[t] = "wait" /\ left[t] = 0
        /\ pc' = [pc EXCEPT ![t] = "over"]
        /\ left' = left /\ held' = held /\ interrupted' = interrupted
        /\ UNCHANGED owner
    BY <1>8 DEF ObtainFails, Awake, Exit
  <2>5. TypeOK'
    BY <2>1, <2>2, <2>4
  <2>6. DataLivesWithItsThread'
    BY <2>2, <2>3, <2>4
  <2>7. OwnerHolds'
    BY <2>1, <2>2, <2>4
  <2>8. HeldSoFar'
    BY <2>2, <2>4
  <2>9. SuccessIsEarned'
    BY <2>1, <2>2, <2>4, <2>7
  <2> QED
    BY <2>5, <2>6, <2>7, <2>8, <2>9
<1>9. ASSUME NEW t \in Threads, Release(t) PROVE IInv'
  <2>1. /\ data[t] \in ThreadData
        /\ data[t].mutex \in Mutexes
        /\ Seconds(data[t].wait_to_release_ms) \in Nat
    BY <1>9, DataFields DEF Release, Awake
  <2>2. PICK d \in ThreadData :
          /\ data' = [data EXCEPT ![t] = d]
          /\ d.mutex = data[t].mutex
          /\ d.wait_to_release_ms = data[t].wait_to_release_ms
          /\ d.thread_complete_success = TRUE
    <3> DEFINE d == [data[t] EXCEPT !.thread_complete_success = TRUE]
    <3>1. data' = [data EXCEPT ![t] = d]
      BY <1>9 DEF Release, Exit
    <3>2. /\ d \in ThreadData
          /\ d.mutex = data[t].mutex
          /\ d.wait_to_release_ms = data[t].wait_to_release_ms
          /\ d.thread_complete_success = TRUE
      BY <2>1 DEF ThreadData
    <3> QED
      BY <3>1, <3>2
  <2>3. d # NULL
    BY DataFields
  <2>4. /\ pc[t] = "hold" /\ left[t] = 0
        /\ pc' = [pc EXCEPT ![t] = "over"]
        /\ left' = left /\ held' = held /\ interrupted' = interrupted
        /\ owner' = [owner EXCEPT ![data[t].mutex] = "nobody"]
    BY <1>9 DEF Release, Awake, Exit
  <2>5. TypeOK'
    BY <2>1, <2>2, <2>4
  <2>6. DataLivesWithItsThread'
    BY <2>2, <2>3, <2>4
  <2>7. OwnerHolds'
    BY <2>1, <2>2, <2>4
  <2>8. HeldSoFar'
    BY <2>2, <2>4
  <2>9. SuccessIsEarned'
    BY <2>1, <2>2, <2>4, <2>7
  <2> QED
    BY <2>5, <2>6, <2>7, <2>8, <2>9
<1>10. ASSUME NEW t \in Threads, ReleaseFails(t) PROVE IInv'
  <2>1. /\ data[t] \in ThreadData
        /\ data[t].mutex \in Mutexes
        /\ Seconds(data[t].wait_to_release_ms) \in Nat
    BY <1>10, DataFields DEF ReleaseFails, Awake
  <2>2. PICK d \in ThreadData :
          /\ data' = [data EXCEPT ![t] = d]
          /\ d.mutex = data[t].mutex
          /\ d.wait_to_release_ms = data[t].wait_to_release_ms
          /\ d.thread_complete_success = FALSE
    <3> DEFINE d == [data[t] EXCEPT !.thread_complete_success = FALSE]
    <3>1. data' = [data EXCEPT ![t] = d]
      BY <1>10 DEF ReleaseFails, Exit
    <3>2. /\ d \in ThreadData
          /\ d.mutex = data[t].mutex
          /\ d.wait_to_release_ms = data[t].wait_to_release_ms
          /\ d.thread_complete_success = FALSE
      BY <2>1 DEF ThreadData
    <3> QED
      BY <3>1, <3>2
  <2>3. d # NULL
    BY DataFields
  <2>4. /\ pc[t] = "hold" /\ left[t] = 0
        /\ pc' = [pc EXCEPT ![t] = "over"]
        /\ left' = left /\ held' = held /\ interrupted' = interrupted
        /\ owner' = [owner EXCEPT ![data[t].mutex] = "gone"]
    BY <1>10 DEF ReleaseFails, Awake, Exit
  <2>5. TypeOK'
    BY <2>1, <2>2, <2>4
  <2>6. DataLivesWithItsThread'
    BY <2>2, <2>3, <2>4
  <2>7. OwnerHolds'
    BY <2>1, <2>2, <2>4
  <2>8. HeldSoFar'
    BY <2>2, <2>4
  <2>9. SuccessIsEarned'
    BY <2>1, <2>2, <2>4, <2>7
  <2> QED
    BY <2>5, <2>6, <2>7, <2>8, <2>9
<1>11. ASSUME NEW t \in Threads, Join(t) PROVE IInv'
  BY <1>11 DEF Join
<1>12. ASSUME NEW m \in Mutexes, CallerLocks(m) \/ CallerUnlocks(m) PROVE IInv'
  BY <1>12 DEF CallerLocks, CallerUnlocks
<1>13. CASE UNCHANGED vars
  BY <1>13 DEF vars
<1> QED
  BY <1>1, <1>2, <1>3, <1>4, <1>5, <1>6, <1>7, <1>8, <1>9, <1>10, <1>11,
     <1>12, <1>13 DEF Next

LEMMA Inductive == Spec => []IInv
<1>1. Init => IInv
  BY InitIInv, ThreadingAssumption
<1>2. IInv /\ [Next]_vars => IInv'
  BY NextIInv, ThreadingAssumption
<1> QED
  BY <1>1, <1>2, PTL DEF Spec

(* A thread_data is complete, and no call leaves a thread, a sleep or the  *)
(* holder of a mutex in a state the code does not know.                    *)
THEOREM TypeCorrect == Spec => []TypeOK
<1>1. IInv => TypeOK
  BY DEF IInv
<1> QED
  BY <1>1, Inductive, PTL

(* thread_data is allocated exactly while a thread needs it: no failure of *)
(* start_thread_obtaining_mutex leaks it or frees it too early.            *)
THEOREM DataIsKept == Spec => []DataLivesWithItsThread
<1>1. IInv => DataLivesWithItsThread
  BY DEF IInv
<1> QED
  BY <1>1, Inductive, PTL

(* thread_complete_success tells a joiner the truth: the mutex was held for *)
(* its whole seconds unless a signal intervened, and was released.          *)
THEOREM SuccessIsTrue == Spec => []SuccessIsEarned
<1>1. IInv => SuccessIsEarned
  BY DEF IInv
<1> QED
  BY <1>1, Inductive, PTL
=============================================================================
