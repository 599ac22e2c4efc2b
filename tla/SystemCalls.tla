----------------------------- MODULE SystemCalls -----------------------------
(***************************************************************************)
(* examples/systemcalls/systemcalls.c: do_system, do_exec and              *)
(* do_exec_redirect, called by any number of threads of one process that   *)
(* may have children of its own.  do_exec waits with wait(), which returns *)
(* for any child of the process; system() waits for its own.               *)
(***************************************************************************)
EXTENDS FiniteSets, Integers

CONSTANTS
  Threads,   \* callers
  Pid,       \* processes fork can create; bounds the number of calls
  NULL,      \* no process, no answer yet
  Ops,       \* the functions called: "system", "exec", "redirect"
  Outcomes,  \* how commands end: "ok"; "fails" with a non-zero status (an
             \* execv that fails too); "killed" by a signal (dup2's abort too)
  Fd,        \* descriptors the process may use for files
  Faults     \* which of "fork", "signal", "background" may happen

ASSUME CallsAssumption == NULL \notin Pid /\ NULL \notin Fd

VARIABLES
  alive,    \* the calling process
  pc,       \* "idle", "fork" or "wait", for each thread
  op,       \* the function a thread is in
  child,    \* what fork returned
  fd,       \* do_exec_redirect's local of that name
  files,    \* descriptors the calls opened and did not close
  answer,   \* what the last call returned
  proc,     \* "unused", "running", "zombie" or "reaped"
  outcome,  \* how the command of a process ends
  alone     \* history: no other process was around since the fork

caller == <<alive, pc, op, child, fd, files, answer>>
vars   == <<caller, proc, outcome, alone>>

Unreaped == {p \in Pid : proc[p] \in {"running", "zombie"}}

Return(t, value) ==
  /\ pc'     = [pc EXCEPT ![t] = "idle"]
  /\ answer' = [answer EXCEPT ![t] = value]

(* close(fd), in do_exec_redirect.                                         *)
CloseFile(t) ==
  files' = IF op[t] = "redirect" THEN files \ {fd[t]} ELSE files

-----------------------------------------------------------------------------
(* open: descriptors are interchangeable, so which free one does not matter. *)
OpenFile(t) ==
  LET new == CHOOSE f \in Fd \ files : TRUE
  IN  /\ files # Fd
      /\ files' = files \cup {new}
      /\ fd' = [fd EXCEPT ![t] = new]

Call(t) ==
  /\ alive
  /\ pc[t] = "idle"
  /\ \E o \in Ops :
       /\ op' = [op EXCEPT ![t] = o]
       /\ IF o = "redirect" THEN OpenFile(t) ELSE UNCHANGED <<fd, files>>
  /\ pc' = [pc EXCEPT ![t] = "fork"]
  /\ UNCHANGED <<alive, child, answer, proc, outcome, alone>>

(* open fails: abort.                                                      *)
OpenFails(t) ==
  /\ alive
  /\ pc[t] = "idle"
  /\ "redirect" \in Ops
  /\ files = Fd
  /\ alive' = FALSE
  /\ UNCHANGED <<pc, op, child, fd, files, answer, proc, outcome, alone>>

(* A new process, which runs a command that will end in some way.          *)
Create(p) ==
  /\ alive
  /\ proc[p] = "unused"
  /\ proc' = [proc EXCEPT ![p] = "running"]
  /\ \E o \in Outcomes : outcome' = [outcome EXCEPT ![p] = o]

Fork(t) ==
  /\ pc[t] = "fork"
  /\ \E p \in Pid : Create(p) /\ child' = [child EXCEPT ![t] = p]
  /\ alone' = [u \in Threads |-> u = t /\ Unreaped = {}]
  /\ pc' = [pc EXCEPT ![t] = "wait"]
  /\ UNCHANGED <<alive, op, fd, files, answer>>

(* Mutant: a failure of fork is not looked at.                             *)
ForkFailureIgnored(t) ==
  /\ alive
  /\ "fork" \in Faults
  /\ pc[t] = "fork"
  /\ pc' = [pc EXCEPT ![t] = "wait"]
  /\ child' = [child EXCEPT ![t] = NULL]
  /\ UNCHANGED <<alive, op, fd, files, answer, proc, outcome, alone>>

(* do_exec_redirect returns here without close(fd).                        *)
ForkFails(t) ==
  /\ alive
  /\ "fork" \in Faults
  /\ pc[t] = "fork"
  /\ Return(t, FALSE)
  /\ UNCHANGED <<alive, op, child, fd, files, proc, outcome, alone>>

ChildEnds(p) ==
  /\ proc[p] = "running"
  /\ proc' = [proc EXCEPT ![p] = "zombie"]
  /\ UNCHANGED <<caller, outcome, alone>>

(* The caller starts a process of its own.                                 *)
Background(p) ==
  /\ "background" \in Faults
  /\ Create(p)
  /\ alone' = [t \in Threads |-> FALSE]
  /\ UNCHANGED caller

(* Mutant: the status is not looked at.                                    *)
SucceededAlways(o) == TRUE

Succeeded(o) == o # "fails"

(* Mutant: the file stays open.                                            *)
WaitKeepsFile(t) ==
  /\ alive
  /\ pc[t] = "wait"
  /\ op[t] # "system"
  /\ \E p \in Pid :
       /\ proc[p] = "zombie"
       /\ proc' = [proc EXCEPT ![p] = "reaped"]
       /\ Return(t, Succeeded(outcome[p]))
  /\ UNCHANGED <<alive, op, child, fd, files, outcome, alone>>

(* wait returns for whichever child has ended.                             *)
Wait(t) ==
  /\ alive
  /\ pc[t] = "wait"
  /\ op[t] # "system"
  /\ \E p \in Pid :
       /\ proc[p] = "zombie"
       /\ proc' = [proc EXCEPT ![p] = "reaped"]
       /\ Return(t, Succeeded(outcome[p]))
  /\ CloseFile(t)
  /\ UNCHANGED <<alive, op, child, fd, outcome, alone>>

(* wait fails: a signal, or no child.                                      *)
WaitFails(t) ==
  /\ alive
  /\ pc[t] = "wait"
  /\ op[t] # "system"
  /\ "signal" \in Faults \/ Unreaped = {}
  /\ Return(t, FALSE)
  /\ CloseFile(t)
  /\ UNCHANGED <<alive, op, child, fd, proc, outcome, alone>>

(* Mutant: system() waits on when another call took its child.             *)
SystemWaitsOn(t) ==
  /\ alive
  /\ pc[t] = "wait"
  /\ op[t] = "system"
  /\ proc[child[t]] = "zombie"
  /\ proc' = [proc EXCEPT ![child[t]] = "reaped"]
  /\ Return(t, TRUE)
  /\ UNCHANGED <<alive, op, child, fd, files, outcome, alone>>

(* system() waits for its own child and fails if another call took it;     *)
(* do_system looks at nothing but the failure.                             *)
SystemReturns(t) ==
  /\ alive
  /\ pc[t] = "wait"
  /\ op[t] = "system"
  /\ proc[child[t]] \in {"zombie", "reaped"}
  /\ proc' = [proc EXCEPT ![child[t]] = "reaped"]
  /\ Return(t, proc[child[t]] = "zombie")
  /\ UNCHANGED <<alive, op, child, fd, files, outcome, alone>>

-----------------------------------------------------------------------------
Init ==
  /\ alive = TRUE
  /\ pc      = [t \in Threads |-> "idle"]
  /\ op      = [t \in Threads |-> "none"]
  /\ child   = [t \in Threads |-> NULL]
  /\ fd      = [t \in Threads |-> NULL]
  /\ files   = {}
  /\ answer  = [t \in Threads |-> NULL]
  /\ proc    = [p \in Pid |-> "unused"]
  /\ outcome = [p \in Pid |-> NULL]
  /\ alone   = [t \in Threads |-> FALSE]

Next ==
  \/ \E t \in Threads :
       \/ Call(t) \/ OpenFails(t)
       \/ Fork(t) \/ ForkFails(t)
       \/ Wait(t) \/ WaitFails(t) \/ SystemReturns(t)
  \/ \E p \in Pid : ChildEnds(p) \/ Background(p)

Spec == Init /\ [][Next]_vars

(* Commands end, and the scheduler runs every call that can go on.         *)
FairSpec ==
  /\ Spec
  /\ \A t \in Threads :
       WF_vars(Fork(t) \/ ForkFails(t) \/ Wait(t) \/ SystemReturns(t))
  /\ \A p \in Pid : WF_vars(ChildEnds(p))

-----------------------------------------------------------------------------
Waiters(ops) == {t \in Threads : pc[t] = "wait" /\ op[t] \in ops}

(* The variables of the calls; a call that waits has forked.               *)
TypeOK ==
  /\ alive \in BOOLEAN
  /\ pc \in [Threads -> {"idle", "fork", "wait"}]
  /\ op \in [Threads -> Ops \cup {"none"}]
  /\ child \in [Threads -> Pid \cup {NULL}]
  /\ \A t \in Threads : pc[t] = "wait" => child[t] \in Pid
  /\ fd \in [Threads -> Fd \cup {NULL}]
  /\ files \subseteq Fd
  /\ answer \in [Threads -> BOOLEAN \cup {NULL}]
  /\ proc \in [Pid -> {"unused", "running", "zombie", "reaped"}]
  /\ outcome \in [Pid -> Outcomes \cup {NULL}]
  /\ alone \in [Threads -> BOOLEAN]

(* However the calls take each other's children, there is one for every    *)
(* wait: a call of do_exec does not fail, or wait for ever, for lack of it. *)
EveryWaitHasAChild ==
  Cardinality(Waiters({"exec", "redirect"})) <= Cardinality(Unreaped)

(* Whoever takes whose child, every call that waits returns: the commands  *)
(* end, and system() notices that another call took its child.             *)
EveryCallReturns ==
  \A t \in Threads : pc[t] = "wait" ~> pc[t] # "wait" \/ ~alive

(* When the process had no other child since its fork, a call whose wait   *)
(* does not fail reaps the child it created.  do_exec and do_exec_redirect *)
(* then answer false exactly for a non-zero exit status, so true for a     *)
(* command that a signal killed; do_system looks at no status at all       *)
(* (systemcalls.c:26-32) and answers true for every command, against       *)
(* systemcalls.c:12-15.                                                    *)
AloneAnswersItself ==
  [][\A t \in Threads :
       /\ pc[t] = "wait" /\ pc'[t] = "idle"
       /\ alone[t]
       /\ answer'[t] \/ proc' # proc
       => /\ proc'[child[t]] = "reaped"
          /\ answer'[t] <=> op[t] = "system" \/ outcome[child[t]] # "fails"]_vars

Redirecting == {t \in Threads : pc[t] # "idle" /\ op[t] = "redirect"}

(* Descriptors that are open and that no call will close.                  *)
Leaked == files \ {fd[t] : t \in Redirecting}

(* do_exec_redirect returns without close(fd) when fork fails              *)
(* (systemcalls.c:136-138), against systemcalls.c:102: each such return    *)
(* leaks the file of its call and no other.  No other step of any call     *)
(* leaks a file, and none ever closes a leaked one.                        *)
FileLeakIsConfined ==
  [][IF \E t \in Redirecting : pc[t] = "fork" /\ pc'[t] = "idle"
     THEN \E t \in Redirecting : /\ pc[t] = "fork" /\ pc'[t] = "idle"
                                /\ Leaked' = Leaked \cup {fd[t]}
                                /\ fd[t] \notin Leaked
     ELSE Leaked' = Leaked]_vars
=============================================================================
