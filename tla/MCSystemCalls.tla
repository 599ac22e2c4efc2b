---------------------------- MODULE MCSystemCalls ----------------------------
(***************************************************************************)
(* The instance of SystemCalls for TLC.                                    *)
(***************************************************************************)
EXTENDS SystemCalls

Busy(t) == pc[t] # "idle"

(* The state without what nothing reads before it is written again: op,    *)
(* child, fd and alone of a thread outside of a call, answers, and how the *)
(* commands of reaped processes ended.  Descriptors are interchangeable:   *)
(* what counts is how many are open and how many of them are leaked.       *)
Relevant ==
  <<alive, pc, Cardinality(files), Cardinality(Leaked), proc,
    [t \in Threads |-> IF Busy(t) THEN op[t] ELSE "none"],
    [t \in Threads |-> IF pc[t] = "wait" THEN child[t] ELSE NULL],
    [t \in Threads |-> pc[t] = "wait" /\ alone[t]],
    [p \in Pid |-> IF \/ proc[p] \in {"running", "zombie"}
                      \/ \E t \in Threads : pc[t] = "wait" /\ child[t] = p
                   THEN outcome[p] ELSE NULL]>>
=============================================================================
