----------------------------- MODULE Threading -----------------------------
(***************************************************************************)
(* The threads of examples/threading/threading.c: each sleeps, obtains the *)
(* mutex it was given, sleeps, releases it and reports in its thread_data, *)
(* which whoever joins the thread frees.  Callers start threads over and   *)
(* over, use the mutexes themselves and join.                              *)
(***************************************************************************)
EXTENDS Integers

CONSTANTS
  Threads,  \* the pthread_t, each with the thread_data of its thread
  Mutexes,  \* the mutexes callers pass
  NULL,     \* no thread_data
  Waits,    \* the milliseconds callers pass
  MaxHeld,  \* bound on the history variable held
  Faults    \* which of "malloc", "create", "lock", "unlock", "signal"
            \* may happen

(* struct thread_data.                                                     *)
ThreadData ==
  [wait_to_obtain_ms : Waits, wait_to_release_ms : Waits, mutex : Mutexes,
   thread_complete_success : BOOLEAN]

(* sleep takes whole seconds: what is left of the milliseconds is dropped. *)
Seconds(ms) == ms \div 1000

ASSUME ThreadingAssumption ==
  /\ NULL \notin ThreadData
  /\ Waits \subseteq Nat
  /\ MaxHeld \in Nat
  /\ \A ms \in Waits : Seconds(ms) <= MaxHeld
  /\ Threads \cap {"nobody", "caller", "gone"} = {}

VARIABLES
  pc,           \* where a thread, or the call that starts it, is
  data,         \* its struct thread_data, NULL when none is allocated
  left,         \* seconds a sleep still takes
  owner,        \* who holds a mutex; "gone" when its unlock failed
  held,         \* history: seconds a thread slept with its mutex
  interrupted   \* history: a signal cut one of its sleeps short

vars == <<pc, data, left, owner, held, interrupted>>

Init ==
  /\ pc = [t \in Threads |-> "none"]
  /\ data = [t \in Threads |-> NULL]
  /\ left = [t \in Threads |-> 0]
  /\ owner = [m \in Mutexes |-> "nobody"]
  /\ held = [t \in Threads |-> 0]
  /\ interrupted = [t \in Threads |-> FALSE]

-----------------------------------------------------------------------------
(* start_thread_obtaining_mutex.                                           *)

(* Mutant: thread_complete_success is left as malloc gives it.             *)
NewDataUnset(obtain_ms, release_ms, m) ==
  [wait_to_obtain_ms |-> obtain_ms, wait_to_release_ms |-> release_ms,
   mutex |-> m, thread_complete_success |-> NULL]

NewData(obtain_ms, release_ms, m) ==
  [wait_to_obtain_ms |-> obtain_ms, wait_to_release_ms |-> release_ms,
   mutex |-> m, thread_complete_success |-> FALSE]

Allocate(t) ==
  /\ pc[t] = "none"
  /\ \E obtain_ms, release_ms \in Waits, m \in Mutexes :
       data' = [data EXCEPT ![t] = NewData(obtain_ms, release_ms, m)]
  /\ pc' = [pc EXCEPT ![t] = "create"]
  /\ UNCHANGED <<left, owner, held, interrupted>>

(* The result of malloc is not looked at: the process dies, and with it    *)
(* everything here; the next one starts from the beginning.                *)
MallocFails(t) ==
  /\ "malloc" \in Faults
  /\ pc[t] = "none"
  /\ pc' = [u \in Threads |-> "none"]
  /\ data' = [u \in Threads |-> NULL]
  /\ left' = [u \in Threads |-> 0]
  /\ owner' = [m \in Mutexes |-> "nobody"]
  /\ held' = [u \in Threads |-> 0]
  /\ interrupted' = [u \in Threads |-> FALSE]

(* threadfunc begins, with its first sleep.                                *)
Create(t) ==
  /\ pc[t] = "create"
  /\ pc' = [pc EXCEPT ![t] = "wait"]
  /\ left' = [left EXCEPT ![t] = Seconds(data[t].wait_to_obtain_ms)]
  /\ UNCHANGED <<data, owner, held, interrupted>>

(* Mutant: the call returns false and keeps t_data.                        *)
CreateFailsKeepsData(t) ==
  /\ pc[t] = "create"
  /\ pc' = [pc EXCEPT ![t] = "none"]
  /\ UNCHANGED <<data, left, owner, held, interrupted>>

CreateFails(t) ==
  /\ "create" \in Faults
  /\ pc[t] = "create"
  /\ pc' = [pc EXCEPT ![t] = "none"]
  /\ data' = [data EXCEPT ![t] = NULL]
  /\ UNCHANGED <<left, owner, held, interrupted>>

-----------------------------------------------------------------------------
(* threadfunc.                                                             *)
Sleeping(t) == pc[t] \in {"wait", "hold"} /\ left[t] > 0

(* A second passes for everybody who sleeps.                               *)
Tick ==
  /\ \E t \in Threads : Sleeping(t)
  /\ left' = [t \in Threads |-> IF Sleeping(t) THEN left[t] - 1 ELSE left[t]]
  /\ held' = [t \in Threads |->
                IF pc[t] = "hold" /\ held[t] < MaxHeld THEN held[t] + 1
                                                       ELSE held[t]]
  /\ UNCHANGED <<pc, data, owner, interrupted>>

(* A handled signal ends a sleep early; threadfunc does not sleep again.   *)
Interrupt(t) ==
  /\ "signal" \in Faults
  /\ Sleeping(t)
  /\ left' = [left EXCEPT ![t] = 0]
  /\ interrupted' = [interrupted EXCEPT ![t] = TRUE]
  /\ UNCHANGED <<pc, data, owner, held>>

Awake(t, label) == pc[t] = label /\ left[t] = 0

Exit(t, success) ==
  /\ pc' = [pc EXCEPT ![t] = "over"]
  /\ data' = [data EXCEPT ![t].thread_complete_success = success]
  /\ UNCHANGED <<left, held, interrupted>>

(* Mutant: the time to obtain is slept again.                              *)
HoldsForObtain(t) == Seconds(data[t].wait_to_obtain_ms)

HoldsFor(t) == Seconds(data[t].wait_to_release_ms)

Obtain(t) ==
  /\ Awake(t, "wait")
  /\ owner[data[t].mutex] = "nobody"
  /\ owner' = [owner EXCEPT ![data[t].mutex] = t]
  /\ pc' = [pc EXCEPT ![t] = "hold"]
  /\ left' = [left EXCEPT ![t] = HoldsFor(t)]
  /\ UNCHANGED <<data, held, interrupted>>

ObtainFails(t) ==
  /\ "lock" \in Faults
  /\ Awake(t, "wait")
  /\ Exit(t, FALSE)
  /\ UNCHANGED owner

(* Mutant: the thread exits with the mutex.                                *)
ReleaseMissing(t) ==
  /\ Awake(t, "hold")
  /\ Exit(t, TRUE)
  /\ UNCHANGED owner

Release(t) ==
  /\ Awake(t, "hold")
  /\ owner' = [owner EXCEPT ![data[t].mutex] = "nobody"]
  /\ Exit(t, TRUE)

(* Nobody can obtain this mutex any more.                                  *)
ReleaseFails(t) ==
  /\ "unlock" \in Faults
  /\ Awake(t, "hold")
  /\ owner' = [owner EXCEPT ![data[t].mutex] = "gone"]
  /\ Exit(t, FALSE)

-----------------------------------------------------------------------------
(* The callers, as threading.h describes them.                             *)
Join(t) ==
  /\ pc[t] = "over"
  /\ pc' = [pc EXCEPT ![t] = "none"]
  /\ data' = [data EXCEPT ![t] = NULL]
  /\ held' = [held EXCEPT ![t] = 0]
  /\ interrupted' = [interrupted EXCEPT ![t] = FALSE]
  /\ UNCHANGED <<left, owner>>

CallerLocks(m) ==
  /\ owner[m] = "nobody"
  /\ owner' = [owner EXCEPT ![m] = "caller"]
  /\ UNCHANGED <<pc, data, left, held, interrupted>>

CallerUnlocks(m) ==
  /\ owner[m] = "caller"
  /\ owner' = [owner EXCEPT ![m] = "nobody"]
  /\ UNCHANGED <<pc, data, left, held, interrupted>>

Next ==
  \/ Tick
  \/ \E t \in Threads :
       \/ Allocate(t) \/ MallocFails(t) \/ Create(t) \/ CreateFails(t)
       \/ Interrupt(t) \/ Obtain(t) \/ ObtainFails(t)
       \/ Release(t) \/ ReleaseFails(t) \/ Join(t)
  \/ \E m \in Mutexes : CallerLocks(m) \/ CallerUnlocks(m)

Spec == Init /\ [][Next]_vars

(* Time passes, a started thread runs, a mutex that is free again and      *)
(* again is not withheld from one waiter for ever, and callers release the *)
(* mutexes they took.  Nobody has to start or join a thread.               *)
FairSpec ==
  /\ Spec
  /\ WF_vars(Tick)
  /\ \A t \in Threads : WF_vars(Create(t)) /\ WF_vars(Release(t))
                        /\ SF_vars(Obtain(t))
  /\ \A m \in Mutexes : WF_vars(CallerUnlocks(m))

-----------------------------------------------------------------------------
(* The types of the variables; a thread_data is filled in completely.      *)
TypeOK ==
  /\ pc \in [Threads -> {"none", "create", "wait", "hold", "over"}]
  /\ data \in [Threads -> ThreadData \cup {NULL}]
  /\ left \in [Threads -> Nat]
  /\ owner \in [Mutexes -> Threads \cup {"nobody", "caller", "gone"}]
  /\ held \in [Threads -> 0 .. MaxHeld]
  /\ interrupted \in [Threads -> BOOLEAN]

(* A thread has its thread_data from before it exists until it is joined,  *)
(* and a call that could not create the thread leaves none behind.         *)
DataLivesWithItsThread == \A t \in Threads : pc[t] = "none" <=> data[t] = NULL

(* A joiner that finds thread_complete_success knows that the thread slept *)
(* with its mutex for the whole seconds threadfunc computes from           *)
(* wait_to_release_ms (threading.c:18-19), which is less than threading.h  *)
(* asks for (HeldAsLongAsAsked below), unless a signal cut a sleep short,  *)
(* and that it does not hold a mutex any more.                             *)
SuccessIsEarned ==
  \A t \in Threads :
    pc[t] = "over" /\ data[t].thread_complete_success =>
      /\ held[t] >= Seconds(data[t].wait_to_release_ms) \/ interrupted[t]
      /\ \A m \in Mutexes : owner[m] # t

(* threading.h:28-30: the thread holds the mutex for wait_to_release_ms    *)
(* milliseconds; a thread that reports success has done so, unless a       *)
(* signal cut a sleep short.                                               *)
HeldAsLongAsAsked ==
  \A t \in Threads :
    pc[t] = "over" /\ data[t].thread_complete_success =>
      1000 * held[t] >= data[t].wait_to_release_ms \/ interrupted[t]

Settled(t) ==
  pc[t] \in {"none", "over"} \/ owner[data[t].mutex] = "gone"

(* A thread that was started ends, whatever others do with its mutex; only *)
(* a mutex that a thread failed to release keeps it.                       *)
EveryThreadEnds == \A t \in Threads : pc[t] = "wait" ~> Settled(t)
=============================================================================
