------------------------- MODULE SystemCallsProofs -------------------------
(***************************************************************************)
(* What SystemCalls promises, for every number of threads, processes and   *)
(* descriptors.                                                            *)
(***************************************************************************)
EXTENDS SystemCalls, FiniteSetTheorems, TLAPS

(* The file of a call of do_exec_redirect is open and nobody else's.       *)
FilesAreOwned ==
  \A t \in Redirecting :
    /\ fd[t] \in files
    /\ \A u \in Redirecting \ {t} : fd[u] # fd[t]

(* A call that waits has forked a process.                                 *)
ForkedOne == \A t \in Threads : pc[t] = "wait" => proc[child[t]] # "unused"

(* The calls that want a process to reap: do_exec takes any, system() its  *)
(* own as long as nobody else took it.                                     *)
Claimants ==
  {t \in Threads : /\ pc[t] = "wait"
                   /\ op[t] = "system" => child[t] \in Unreaped}

EnoughChildren ==
  /\ IsFiniteSet(Claimants)
  /\ IsFiniteSet(Unreaped)
  /\ Cardinality(Claimants) <= Cardinality(Unreaped)

AloneIsAlone ==
  \A t \in Threads : pc[t] = "wait" /\ alone[t] => Unreaped \subseteq {child[t]}

IInv ==
  /\ TypeOK
  /\ ForkedOne
  /\ EnoughChildren
  /\ AloneIsAlone
  /\ FilesAreOwned

-----------------------------------------------------------------------------
(* One more claimant comes with one more process.                          *)
LEMMA BothGrow ==
  ASSUME NEW C, NEW U, IsFiniteSet(C), IsFiniteSet(U),
         Cardinality(C) <= Cardinality(U),
         NEW t, NEW p, p \notin U,
         NEW D, D \subseteq C \cup {t}
  PROVE  /\ IsFiniteSet(D)
         /\ IsFiniteSet(U \cup {p})
         /\ Cardinality(D) <= Cardinality(U \cup {p})
<1>1. /\ IsFiniteSet(C \cup {t})
      /\ Cardinality(C \cup {t}) \in {Cardinality(C), Cardinality(C) + 1}
  BY FS_AddElement
<1>2. /\ IsFiniteSet(U \cup {p})
      /\ Cardinality(U \cup {p}) = Cardinality(U) + 1
  BY FS_AddElement
<1>3. IsFiniteSet(D) /\ Cardinality(D) <= Cardinality(C \cup {t})
  BY <1>1, FS_Subset
<1>4. Cardinality(C) \in Nat /\ Cardinality(U) \in Nat /\ Cardinality(D) \in Nat
  BY <1>3, FS_CardinalityType
<1> QED
  BY <1>1, <1>2, <1>3, <1>4

(* A claimant leaves with a process, at most.                              *)
LEMMA BothShrink ==
  ASSUME NEW C, NEW U, IsFiniteSet(C), IsFiniteSet(U),
         Cardinality(C) <= Cardinality(U),
         NEW t \in C, NEW p,
         NEW D, D \subseteq C \ {t}
  PROVE  /\ IsFiniteSet(D)
         /\ IsFiniteSet(U \ {p})
         /\ Cardinality(D) <= Cardinality(U \ {p})
<1>1. IsFiniteSet(C \ {t}) /\ Cardinality(C \ {t}) = Cardinality(C) - 1
  BY FS_RemoveElement
<1>2. /\ IsFiniteSet(U \ {p})
      /\ Cardinality(U \ {p}) \in {Cardinality(U), Cardinality(U) - 1}
  BY FS_RemoveElement
<1>3. IsFiniteSet(D) /\ Cardinality(D) <= Cardinality(C \ {t})
  BY <1>1, FS_Subset
<1>4. Cardinality(C) \in Nat /\ Cardinality(U) \in Nat /\ Cardinality(D) \in Nat
  BY <1>3, FS_CardinalityType
<1> QED
  BY <1>1, <1>2, <1>3, <1>4

LEMMA FewerClaim ==
  ASSUME NEW C, NEW U, IsFiniteSet(C), IsFiniteSet(U),
         Cardinality(C) <= Cardinality(U),
         NEW D, D \subseteq C
  PROVE  IsFiniteSet(D) /\ Cardinality(D) <= Cardinality(U)
<1>1. IsFiniteSet(D) /\ Cardinality(D) <= Cardinality(C)
  BY FS_Subset
<1>2. Cardinality(C) \in Nat /\ Cardinality(U) \in Nat /\ Cardinality(D) \in Nat
  BY <1>1, FS_CardinalityType
<1> QED
  BY <1>1, <1>2

-----------------------------------------------------------------------------
LEMMA InitIInv == Init => IInv
<1> SUFFICES ASSUME Init PROVE IInv
  OBVIOUS
<1>1. TypeOK /\ ForkedOne /\ AloneIsAlone
  BY CallsAssumption DEF Init, TypeOK, ForkedOne, AloneIsAlone
<1>4. FilesAreOwned
  BY DEF Init, FilesAreOwned, Redirecting
<1>2. Claimants = {} /\ Unreaped = {}
  BY DEF Init, Claimants, Unreaped
<1>3. EnoughChildren
  BY <1>2, FS_EmptySet DEF EnoughChildren
<1> QED
  BY <1>1, <1>3, <1>4 DEF IInv

(* A step outside of wait: nobody comes to wait, no process changes.       *)
Elsewhere(t) == Call(t) \/ OpenFails(t) \/ ForkFails(t)

LEMMA ElsewhereKeeps ==
  ASSUME TypeOK, NEW t \in Threads, Elsewhere(t)
  PROVE  /\ UNCHANGED <<child, proc, outcome, alone>>
         /\ pc[t] # "wait" /\ pc'[t] # "wait"
         /\ \A u \in Threads \ {t} : pc'[u] = pc[u] /\ op'[u] = op[u]
BY DEF TypeOK, Elsewhere, Call, OpenFails, ForkFails, Return

(* A wait that ends: the call returns and reaps a zombie, or none.         *)
WaitEnds(t) == Wait(t) \/ WaitFails(t) \/ SystemReturns(t)

LEMMA WaitEndsWith ==
  ASSUME TypeOK, NEW t \in Threads, WaitEnds(t)
  PROVE  /\ pc[t] = "wait" /\ pc' = [pc EXCEPT ![t] = "idle"]
         /\ \E value \in BOOLEAN : answer' = [answer EXCEPT ![t] = value]
         /\ files' \subseteq files
         /\ UNCHANGED <<alive, op, child, fd, outcome, alone>>
         /\ \/ proc' = proc
            \/ \E p \in Pid : /\ proc[p] = "zombie"
                             /\ proc' = [proc EXCEPT ![p] = "reaped"]
<1>1. CASE Wait(t)
  <2>1. PICK p \in Pid : /\ proc[p] = "zombie"
                         /\ proc' = [proc EXCEPT ![p] = "reaped"]
                         /\ Return(t, Succeeded(outcome[p]))
    BY <1>1 DEF Wait
  <2>2. Succeeded(outcome[p]) \in BOOLEAN
    BY DEF Succeeded
  <2>3. \E value \in BOOLEAN : answer' = [answer EXCEPT ![t] = value]
    BY <2>1, <2>2 DEF Return
  <2> QED
    BY <1>1, <2>1, <2>3 DEF Wait, Return, CloseFile
<1>2. CASE WaitFails(t)
  BY <1>2 DEF WaitFails, Return, CloseFile
<1>3. CASE SystemReturns(t)
  <2>1. child[t] \in Pid /\ proc[child[t]] \in {"zombie", "reaped"}
    BY <1>3 DEF SystemReturns, TypeOK
  <2>2. proc' = [proc EXCEPT ![child[t]] = "reaped"]
    BY <1>3 DEF SystemReturns
  <2>3. CASE proc[child[t]] = "reaped"
    <3>1. proc' = proc
      BY <2>1, <2>2, <2>3 DEF TypeOK
    <3> QED
      BY <1>3, <3>1 DEF SystemReturns, Return
  <2>4. CASE proc[child[t]] = "zombie"
    BY <1>3, <2>1, <2>2, <2>4 DEF SystemReturns, Return
  <2> QED
    BY <2>1, <2>3, <2>4
<1> QED
  BY <1>1, <1>2, <1>3 DEF WaitEnds

LEMMA NextCases ==
  ASSUME [Next]_vars
  PROVE  \/ \E t \in Threads : \/ Elsewhere(t) \/ Fork(t)
                               \/ WaitEnds(t)
         \/ \E p \in Pid : ChildEnds(p) \/ Background(p)
         \/ UNCHANGED vars
BY Zenon DEF Next, Elsewhere, WaitEnds

LEMMA OpenFileType ==
  ASSUME TypeOK, NEW t \in Threads, OpenFile(t)
  PROVE  files' \subseteq Fd /\ fd' \in [Threads -> Fd \cup {NULL}]
<1>1. \E f \in Fd \ files : TRUE
  BY DEF TypeOK, OpenFile
<1> DEFINE new == CHOOSE f \in Fd \ files : TRUE
<1>2. new \in Fd
  BY <1>1
<1>3. files' = files \cup {new} /\ fd' = [fd EXCEPT ![t] = new]
  BY DEF OpenFile
<1> HIDE DEF new
<1> QED
  BY <1>2, <1>3 DEF TypeOK

LEMMA TypeNext == IInv /\ [Next]_vars => TypeOK'
<1> SUFFICES ASSUME IInv, [Next]_vars PROVE TypeOK'
  OBVIOUS
<1> USE DEF IInv, TypeOK
<1>1. ASSUME NEW t \in Threads, Call(t) PROVE TypeOK'
  <2>1. PICK o \in Ops :
          /\ op' = [op EXCEPT ![t] = o]
          /\ IF o = "redirect" THEN OpenFile(t) ELSE UNCHANGED <<fd, files>>
    BY <1>1 DEF Call
  <2>2. files' \subseteq Fd /\ fd' \in [Threads -> Fd \cup {NULL}]
    BY <2>1, OpenFileType
  <2>3. /\ pc' = [pc EXCEPT ![t] = "fork"]
        /\ UNCHANGED <<alive, child, answer, proc, outcome, alone>>
    BY <1>1 DEF Call
  <2>4. pc' \in [Threads -> {"idle", "fork", "wait"}]
    BY <2>3
  <2> QED
    BY <2>1, <2>2, <2>3, <2>4
<1>2. ASSUME NEW t \in Threads, OpenFails(t) \/ ForkFails(t) PROVE TypeOK'
  BY <1>2 DEF OpenFails, ForkFails, Return
<1>3. ASSUME NEW t \in Threads, Fork(t) PROVE TypeOK'
  BY <1>3 DEF Fork, Create
<1>4. ASSUME NEW t \in Threads, WaitEnds(t) PROVE TypeOK'
  <2>1. answer' \in [Threads -> BOOLEAN \cup {NULL}]
    BY <1>4, WaitEndsWith
  <2>2. proc' \in [Pid -> {"unused", "running", "zombie", "reaped"}]
    BY <1>4, WaitEndsWith
  <2> QED
    BY <1>4, <2>1, <2>2, WaitEndsWith
<1>5. ASSUME NEW p \in Pid, ChildEnds(p) \/ Background(p) PROVE TypeOK'
  BY <1>5 DEF ChildEnds, Background, Create, caller
<1>6. CASE UNCHANGED vars
  BY <1>6 DEF vars, caller
<1> QED
  BY <1>1, <1>2, <1>3, <1>4, <1>5, <1>6, NextCases DEF Elsewhere

LEMMA ForkedNext == IInv /\ [Next]_vars => ForkedOne'
<1> SUFFICES ASSUME IInv, [Next]_vars PROVE ForkedOne'
  OBVIOUS
<1> USE DEF IInv, TypeOK
<1>1. ASSUME NEW t \in Threads, Elsewhere(t) PROVE ForkedOne'
  BY <1>1, ElsewhereKeeps DEF ForkedOne
<1>2. ASSUME NEW t \in Threads, Fork(t) PROVE ForkedOne'
  BY <1>2 DEF Fork, Create, ForkedOne
<1>3. ASSUME NEW t \in Threads, WaitEnds(t) PROVE ForkedOne'
  BY <1>3, WaitEndsWith DEF ForkedOne
<1>4. ASSUME NEW p \in Pid, ChildEnds(p) \/ Background(p) PROVE ForkedOne'
  BY <1>4 DEF ChildEnds, Background, Create, caller, ForkedOne
<1>5. CASE UNCHANGED vars
  BY <1>5 DEF vars, caller, ForkedOne
<1> QED
  BY <1>1, <1>2, <1>3, <1>4, <1>5, NextCases

(* Who claims and what is there change together.                           *)
LEMMA EnoughNext == IInv /\ [Next]_vars => EnoughChildren'
<1> SUFFICES ASSUME IInv, [Next]_vars PROVE EnoughChildren'
  OBVIOUS
<1>0. /\ TypeOK /\ ForkedOne
      /\ IsFiniteSet(Claimants) /\ IsFiniteSet(Unreaped)
      /\ Cardinality(Claimants) <= Cardinality(Unreaped)
  BY DEF IInv, EnoughChildren
<1>1. ASSUME Claimants' \subseteq Claimants, Unreaped' = Unreaped
      PROVE  EnoughChildren'
  BY <1>0, <1>1, FewerClaim DEF EnoughChildren
<1>2. ASSUME NEW t, NEW p, p \notin Unreaped,
             Claimants' \subseteq Claimants \cup {t},
             Unreaped' = Unreaped \cup {p}
      PROVE  EnoughChildren'
  BY <1>0, <1>2, BothGrow DEF EnoughChildren
<1>3. ASSUME NEW t \in Claimants, NEW p,
             Claimants' \subseteq Claimants \ {t}, Unreaped' = Unreaped \ {p}
      PROVE  EnoughChildren'
  BY <1>0, <1>3, BothShrink DEF EnoughChildren
<1>4. ASSUME NEW t \in Threads, Elsewhere(t) PROVE EnoughChildren'
  <2>1. Unreaped' = Unreaped
    BY <1>0, <1>4, ElsewhereKeeps DEF Unreaped
  <2>2. Claimants' \subseteq Claimants
    BY <1>0, <1>4, <2>1, ElsewhereKeeps DEF Claimants
  <2> QED
    BY <1>1, <2>1, <2>2
<1>5. ASSUME NEW t \in Threads, Fork(t) PROVE EnoughChildren'
  <2>1. PICK p \in Pid : Create(p) /\ child' = [child EXCEPT ![t] = p]
    BY <1>5 DEF Fork
  <2>2. p \notin Unreaped /\ Unreaped' = Unreaped \cup {p}
    BY <1>0, <2>1 DEF Create, Unreaped, TypeOK
  <2>3. Claimants' \subseteq Claimants \cup {t}
    <3> SUFFICES ASSUME NEW u \in Threads, u # t, u \in Claimants'
                 PROVE  u \in Claimants
      BY DEF Claimants
    <3>1. pc[u] = "wait" /\ op[u] = op'[u] /\ child[u] = child'[u]
      BY <1>0, <1>5, <2>1 DEF Fork, TypeOK, Claimants
    <3>2. child[u] # p
      BY <1>0, <2>1, <3>1 DEF ForkedOne, Create
    <3> QED
      BY <2>2, <3>1, <3>2 DEF Claimants
  <2> QED
    BY <1>2, <2>2, <2>3
<1>6. ASSUME NEW t \in Threads, WaitEnds(t) PROVE EnoughChildren'
  <2>1. Claimants' \subseteq Claimants \ {t}
    <3>1. Unreaped' \subseteq Unreaped
      BY <1>0, <1>6, WaitEndsWith DEF Unreaped, TypeOK
    <3> QED
      BY <1>0, <1>6, <3>1, WaitEndsWith DEF Claimants, TypeOK
  <2>2. CASE proc' = proc
    <3>1. Unreaped' = Unreaped
      BY <2>2 DEF Unreaped
    <3> QED
      BY <1>1, <2>1, <3>1
  <2>3. CASE proc' # proc
    <3>1. PICK p \in Pid : /\ proc[p] = "zombie"
                           /\ proc' = [proc EXCEPT ![p] = "reaped"]
      BY <1>0, <1>6, <2>3, WaitEndsWith
    <3>2. Unreaped' = Unreaped \ {p}
      BY <1>0, <3>1 DEF Unreaped, TypeOK
    <3>3. t \in Claimants
      <4>1. CASE op[t] # "system"
        BY <1>0, <1>6, <4>1, WaitEndsWith DEF Claimants
      <4>2. CASE op[t] = "system"
        <5>1. /\ proc[child[t]] \in {"zombie", "reaped"}
              /\ proc' = [proc EXCEPT ![child[t]] = "reaped"]
              /\ pc[t] = "wait"
          BY <1>6, <4>2 DEF WaitEnds, Wait, WaitFails, SystemReturns
        <5>2. proc[child[t]] = "zombie" /\ child[t] \in Pid
          BY <1>0, <2>3, <5>1 DEF TypeOK
        <5> QED
          BY <5>1, <5>2 DEF Claimants, Unreaped
      <4> QED
        BY <4>1, <4>2
    <3> QED
      BY <1>3, <2>1, <3>2, <3>3
  <2> QED
    BY <2>2, <2>3
<1>7. ASSUME NEW p \in Pid, ChildEnds(p) PROVE EnoughChildren'
  <2>1. Unreaped' = Unreaped
    BY <1>0, <1>7 DEF ChildEnds, Unreaped, TypeOK
  <2>2. Claimants' = Claimants
    BY <1>7, <2>1 DEF ChildEnds, caller, Claimants
  <2> QED
    BY <1>1, <2>1, <2>2
<1>8. ASSUME NEW p \in Pid, Background(p) PROVE EnoughChildren'
  <2>1. p \notin Unreaped /\ Unreaped' = Unreaped \cup {p}
    BY <1>0, <1>8 DEF Background, Create, Unreaped, TypeOK
  <2>2. Claimants' \subseteq Claimants
    BY <1>0, <1>8, <2>1
       DEF Background, Create, caller, Claimants, ForkedOne
  <2>3. Claimants' \subseteq Claimants \cup {NULL}
    BY <2>2
  <2> QED
    BY <1>2, <2>1, <2>3
<1>9. CASE UNCHANGED vars
  <2>1. Unreaped' = Unreaped /\ Claimants' = Claimants
    BY <1>9 DEF vars, caller, Unreaped, Claimants
  <2> QED
    BY <1>1, <2>1
<1> QED
  BY <1>4, <1>5, <1>6, <1>7, <1>8, <1>9, NextCases

LEMMA AloneNext == IInv /\ [Next]_vars => AloneIsAlone'
<1> SUFFICES ASSUME IInv, [Next]_vars PROVE AloneIsAlone'
  OBVIOUS
<1> USE DEF IInv, TypeOK
<1>1. ASSUME NEW t \in Threads, Elsewhere(t) PROVE AloneIsAlone'
  BY <1>1, ElsewhereKeeps DEF AloneIsAlone, Unreaped
<1>2. ASSUME NEW t \in Threads, Fork(t) PROVE AloneIsAlone'
  <2>1. PICK p \in Pid : Create(p) /\ child' = [child EXCEPT ![t] = p]
    BY <1>2 DEF Fork
  <2>2. Unreaped' = Unreaped \cup {p}
    BY <2>1 DEF Create, Unreaped
  <2>3. alone' = [u \in Threads |-> u = t /\ Unreaped = {}]
    BY <1>2 DEF Fork
  <2>4. child'[t] = p
    BY <2>1
  <2> QED
    BY <2>2, <2>3, <2>4 DEF AloneIsAlone
<1>3. ASSUME NEW t \in Threads, WaitEnds(t) PROVE AloneIsAlone'
  <2>1. Unreaped' \subseteq Unreaped
    BY <1>3, WaitEndsWith DEF Unreaped
  <2> QED
    BY <1>3, <2>1, WaitEndsWith DEF AloneIsAlone
<1>4. ASSUME NEW p \in Pid, ChildEnds(p) PROVE AloneIsAlone'
  <2>1. Unreaped' = Unreaped
    BY <1>4 DEF ChildEnds, Unreaped
  <2> QED
    BY <1>4, <2>1 DEF ChildEnds, caller, AloneIsAlone
<1>5. ASSUME NEW p \in Pid, Background(p) PROVE AloneIsAlone'
  BY <1>5 DEF Background, caller, AloneIsAlone
<1>6. CASE UNCHANGED vars
  BY <1>6 DEF vars, caller, AloneIsAlone, Unreaped
<1> QED
  BY <1>1, <1>2, <1>3, <1>4, <1>5, <1>6, NextCases

(* open returns a descriptor that is free.                                 *)
LEMMA CallOpens ==
  ASSUME TypeOK, NEW t \in Threads, Call(t)
  PROVE  /\ pc[t] = "idle" /\ pc' = [pc EXCEPT ![t] = "fork"]
         /\ \/ /\ UNCHANGED <<fd, files>>
               /\ Redirecting' = Redirecting
            \/ \E new \in Fd \ files :
                 /\ files' = files \cup {new}
                 /\ fd' = [fd EXCEPT ![t] = new]
                 /\ Redirecting' = Redirecting \cup {t}
<1>1. PICK o \in Ops :
        /\ op' = [op EXCEPT ![t] = o]
        /\ IF o = "redirect" THEN OpenFile(t) ELSE UNCHANGED <<fd, files>>
  BY DEF Call
<1>2. pc[t] = "idle" /\ pc' = [pc EXCEPT ![t] = "fork"]
  BY DEF Call
<1>3. CASE o # "redirect"
  <2>1. Redirecting' = Redirecting
    BY <1>1, <1>2, <1>3 DEF Redirecting, TypeOK
  <2> QED
    BY <1>1, <1>2, <1>3, <2>1
<1>4. CASE o = "redirect"
  <2>1. Redirecting' = Redirecting \cup {t}
    BY <1>1, <1>2, <1>4 DEF Redirecting, TypeOK
  <2> DEFINE new == CHOOSE f \in Fd \ files : TRUE
  <2>2. OpenFile(t)
    BY <1>1, <1>4
  <2>3. \E f \in Fd \ files : TRUE
    BY <2>2 DEF TypeOK, OpenFile
  <2>4. new \in Fd \ files
    BY <2>3
  <2>5. files' = files \cup {new} /\ fd' = [fd EXCEPT ![t] = new]
    BY <2>2 DEF OpenFile
  <2> HIDE DEF new
  <2> QED
    BY <1>2, <2>1, <2>4, <2>5
<1> QED
  BY <1>3, <1>4

(* A call that returns: of do_exec_redirect or not, with its file or not.  *)
LEMMA ReturnLeaves ==
  ASSUME TypeOK, NEW t \in Threads, ForkFails(t) \/ WaitEnds(t)
  PROVE  /\ UNCHANGED <<op, fd>>
         /\ pc' = [pc EXCEPT ![t] = "idle"]
         /\ Redirecting' = Redirecting \ {t}
         /\ \/ pc[t] = "fork" /\ files' = files
            \/ /\ pc[t] = "wait" /\ t \in Redirecting
               /\ files' = files \ {fd[t]}
            \/ /\ pc[t] = "wait" /\ t \notin Redirecting
               /\ files' = files
<1>1. UNCHANGED <<op, fd>> /\ pc' = [pc EXCEPT ![t] = "idle"]
  BY DEF ForkFails, WaitEnds, Wait, WaitFails, SystemReturns, Return
<1>2. Redirecting' = Redirecting \ {t}
  BY <1>1 DEF Redirecting, TypeOK
<1>3. CASE ForkFails(t)
  BY <1>1, <1>2, <1>3 DEF ForkFails
<1>4. CASE WaitEnds(t)
  <2>1. /\ pc[t] = "wait"
        /\ files' = IF op[t] = "redirect" THEN files \ {fd[t]} ELSE files
    BY <1>4 DEF WaitEnds, Wait, WaitFails, SystemReturns, CloseFile
  <2> QED
    BY <1>1, <1>2, <2>1 DEF Redirecting
<1> QED
  BY <1>3, <1>4

(* A step that neither opens a file nor returns.                           *)
LEMMA OthersKeepFiles ==
  ASSUME TypeOK,
         \/ \E t \in Threads : OpenFails(t) \/ Fork(t)
         \/ \E p \in Pid : ChildEnds(p) \/ Background(p)
         \/ UNCHANGED vars
  PROVE  /\ UNCHANGED <<files, fd>> /\ Redirecting' = Redirecting
         /\ \A t \in Threads : pc'[t] = "idle" => pc[t] = "idle"
<1>1. ASSUME NEW t \in Threads, OpenFails(t) \/ Fork(t)
      PROVE  /\ UNCHANGED <<op, files, fd>>
             /\ \/ pc' = pc
                \/ pc[t] = "fork" /\ pc' = [pc EXCEPT ![t] = "wait"]
  BY <1>1 DEF OpenFails, Fork
<1>2. ASSUME NEW p \in Pid, ChildEnds(p) \/ Background(p)
      PROVE  UNCHANGED <<pc, op, files, fd>>
  BY <1>2 DEF ChildEnds, Background, caller
<1>3. CASE UNCHANGED vars
  BY <1>3 DEF vars, caller, Redirecting
<1>4. ASSUME NEW t \in Threads, OpenFails(t) \/ Fork(t)
      PROVE  /\ UNCHANGED <<files, fd>> /\ Redirecting' = Redirecting
             /\ \A u \in Threads : pc'[u] = "idle" => pc[u] = "idle"
  BY <1>1, <1>4 DEF Redirecting, TypeOK
<1>5. ASSUME NEW p \in Pid, ChildEnds(p) \/ Background(p)
      PROVE  /\ UNCHANGED <<files, fd>> /\ Redirecting' = Redirecting
             /\ \A u \in Threads : pc'[u] = "idle" => pc[u] = "idle"
  BY <1>2, <1>5 DEF Redirecting
<1> QED
  BY <1>3, <1>4, <1>5

(* The three kinds of step, for the files.                                 *)
LEMMA FileCases ==
  ASSUME [Next]_vars
  PROVE  \/ \E t \in Threads : Call(t)
         \/ \E t \in Threads : ForkFails(t) \/ WaitEnds(t)
         \/ \/ \E t \in Threads : OpenFails(t) \/ Fork(t)
            \/ \E p \in Pid : ChildEnds(p) \/ Background(p)
            \/ UNCHANGED vars
BY NextCases, Zenon DEF Elsewhere

LEMMA OwnedNext == IInv /\ [Next]_vars => FilesAreOwned'
<1> SUFFICES ASSUME IInv, [Next]_vars PROVE FilesAreOwned'
  OBVIOUS
<1>0. TypeOK /\ FilesAreOwned /\ Redirecting \subseteq Threads
  BY DEF IInv, Redirecting
<1>1. ASSUME NEW t \in Threads, Call(t) PROVE FilesAreOwned'
  <2>1. t \notin Redirecting
    BY <1>0, <1>1, CallOpens DEF Redirecting
  <2> QED
    BY <1>0, <1>1, <2>1, CallOpens DEF FilesAreOwned, TypeOK
<1>2. ASSUME NEW t \in Threads, ForkFails(t) \/ WaitEnds(t)
      PROVE  FilesAreOwned'
  BY <1>0, <1>2, ReturnLeaves DEF FilesAreOwned
<1>3. ASSUME \/ \E t \in Threads : OpenFails(t) \/ Fork(t)
             \/ \E p \in Pid : ChildEnds(p) \/ Background(p)
             \/ UNCHANGED vars
      PROVE  FilesAreOwned'
  BY <1>0, <1>3, OthersKeepFiles DEF FilesAreOwned
<1> QED
  BY <1>1, <1>2, <1>3, FileCases

LEMMA Inductive == Spec => []IInv
<1>1. IInv /\ [Next]_vars => IInv'
  BY TypeNext, ForkedNext, EnoughNext, AloneNext, OwnedNext DEF IInv
<1> QED
  BY <1>1, InitIInv, PTL DEF Spec

(* The variables of the calls keep their types, and a call that waits has  *)
(* a process that fork returned.                                           *)
THEOREM TypeCorrect == Spec => []TypeOK
BY Inductive, PTL DEF IInv

(* Whichever child a wait() takes, do_exec and do_exec_redirect never      *)
(* wait for a child that is not there.                                     *)
THEOREM WaitsHaveChildren == Spec => []EveryWaitHasAChild
<1>1. IInv => EveryWaitHasAChild
  <2> SUFFICES ASSUME IInv PROVE EveryWaitHasAChild
    OBVIOUS
  <2>1. Waiters({"exec", "redirect"}) \subseteq Claimants
    BY DEF Waiters, Claimants
  <2> QED
    BY <2>1, FewerClaim DEF IInv, EnoughChildren, EveryWaitHasAChild
<1> QED
  BY <1>1, Inductive, PTL

-----------------------------------------------------------------------------
(* One step, as AloneAnswersItself sees it.                                *)
AnswersItself(t) ==
  /\ pc[t] = "wait" /\ pc'[t] = "idle"
  /\ alone[t]
  /\ answer'[t] \/ proc' # proc
  => /\ proc'[child[t]] = "reaped"
     /\ answer'[t] <=> op[t] = "system" \/ outcome[child[t]] # "fails"

LEMMA StepAnswers ==
  ASSUME IInv, [Next]_vars, NEW t \in Threads
  PROVE  AnswersItself(t)
<1> SUFFICES ASSUME pc[t] = "wait", pc'[t] = "idle", alone[t],
                    answer'[t] \/ proc' # proc
             PROVE  /\ proc'[child[t]] = "reaped"
                    /\ answer'[t] <=> \/ op[t] = "system"
                                      \/ outcome[child[t]] # "fails"
  BY DEF AnswersItself
<1> USE DEF IInv, TypeOK
<1>1. WaitEnds(t)
  <2>1. ASSUME NEW u \in Threads, Elsewhere(u) \/ Fork(u) PROVE FALSE
    BY <2>1, ElsewhereKeeps DEF Fork
  <2>2. ASSUME NEW u \in Threads \ {t}, WaitEnds(u) PROVE FALSE
    BY <2>2, WaitEndsWith
  <2>3. ASSUME NEW p \in Pid, ChildEnds(p) \/ Background(p) PROVE FALSE
    BY <2>3 DEF ChildEnds, Background, caller
  <2>4. CASE UNCHANGED vars
    BY <2>4 DEF vars, caller
  <2> QED
    BY <2>1, <2>2, <2>3, <2>4, NextCases
<1>2. CASE Wait(t)
  <2>1. PICK p \in Pid : /\ proc[p] = "zombie"
                         /\ proc' = [proc EXCEPT ![p] = "reaped"]
                         /\ Return(t, Succeeded(outcome[p]))
    BY <1>2 DEF Wait
  <2>2. p = child[t]
    BY <2>1 DEF AloneIsAlone, Unreaped
  <2>3. answer'[t] = Succeeded(outcome[p])
    BY <2>1 DEF Return
  <2>4. answer'[t] <=> outcome[p] # "fails"
    BY <2>3 DEF Succeeded
  <2>5. proc'[p] = "reaped"
    BY <2>1
  <2>6. op[t] # "system"
    BY <1>2 DEF Wait
  <2> QED
    BY <2>2, <2>4, <2>5, <2>6
<1>3. CASE WaitFails(t)
  BY <1>3 DEF WaitFails, Return
<1>4. CASE SystemReturns(t)
  <2>1. /\ child[t] \in Pid
        /\ proc' = [proc EXCEPT ![child[t]] = "reaped"]
        /\ op[t] = "system"
        /\ answer'[t] = (proc[child[t]] = "zombie")
        /\ proc[child[t]] \in {"zombie", "reaped"}
    BY <1>4 DEF SystemReturns, Return
  <2>2. proc[child[t]] = "zombie"
    BY <2>1
  <2> QED
    BY <2>1, <2>2
<1> QED
  BY <1>1, <1>2, <1>3, <1>4 DEF WaitEnds

(* When nothing else runs in the process since the fork, a call whose wait *)
(* does not fail reaps its own child; do_exec and do_exec_redirect answer  *)
(* false exactly when that child exited with a non-zero status, do_system  *)
(* always answers true, whatever systemcalls.c:12-15 says.                 *)
THEOREM AloneIsAnswered == Spec => AloneAnswersItself
<1>1. IInv /\ [Next]_vars => [\A t \in Threads : AnswersItself(t)]_vars
  BY StepAnswers
<1>2. Spec => [][\A t \in Threads : AnswersItself(t)]_vars
  BY <1>1, Inductive, PTL DEF Spec
<1> QED
  BY <1>2 DEF AloneAnswersItself, AnswersItself

-----------------------------------------------------------------------------
(* One step, as FileLeakIsConfined sees it.                                *)
LeakIsConfined ==
  IF \E t \in Redirecting : pc[t] = "fork" /\ pc'[t] = "idle"
  THEN \E t \in Redirecting : /\ pc[t] = "fork" /\ pc'[t] = "idle"
                             /\ Leaked' = Leaked \cup {fd[t]}
                             /\ fd[t] \notin Leaked
  ELSE Leaked' = Leaked

LEMMA StepLeaks ==
  ASSUME IInv, [Next]_vars
  PROVE  LeakIsConfined
<1>0. TypeOK /\ FilesAreOwned /\ Redirecting \subseteq Threads
  BY DEF IInv, Redirecting
<1>1. ASSUME NEW t \in Threads, Call(t) PROVE LeakIsConfined
  <2>1. /\ t \notin Redirecting
        /\ \A u \in Threads : pc'[u] = "idle" => pc[u] = "idle"
    BY <1>0, <1>1, CallOpens DEF Redirecting, TypeOK
  <2>2. CASE UNCHANGED <<fd, files>> /\ Redirecting' = Redirecting
    BY <2>1, <2>2, <1>0 DEF LeakIsConfined, Leaked
  <2>3. CASE \E new \in Fd \ files :
               /\ files' = files \cup {new}
               /\ fd' = [fd EXCEPT ![t] = new]
               /\ Redirecting' = Redirecting \cup {t}
    <3>1. PICK new \in Fd \ files :
            /\ files' = files \cup {new}
            /\ fd' = [fd EXCEPT ![t] = new]
            /\ Redirecting' = Redirecting \cup {t}
      BY <2>3
    <3>2. fd'[t] = new /\ \A u \in Redirecting : fd'[u] = fd[u]
      BY <1>0, <2>1, <3>1 DEF TypeOK
    <3>3. Leaked' = Leaked
      BY <3>1, <3>2 DEF Leaked
    <3> QED
      BY <1>0, <2>1, <3>3 DEF LeakIsConfined
  <2> QED
    BY <1>0, <1>1, <2>2, <2>3, CallOpens
<1>2. ASSUME NEW t \in Threads, ForkFails(t) \/ WaitEnds(t)
      PROVE  LeakIsConfined
  <2>1. /\ fd' = fd /\ pc' = [pc EXCEPT ![t] = "idle"]
        /\ Redirecting' = Redirecting \ {t}
    BY <1>0, <1>2, ReturnLeaves
  <2>2. \A u \in Threads \ {t} : pc'[u] = pc[u]
    BY <1>0, <2>1 DEF TypeOK
  <2>3. CASE /\ pc[t] = "fork" /\ files' = files
             /\ t \in Redirecting
    <3>1. fd[t] \in files /\ \A u \in Redirecting \ {t} : fd[u] # fd[t]
      BY <1>0, <2>3 DEF FilesAreOwned
    <3>2. Leaked' = Leaked \cup {fd[t]}
      BY <2>1, <2>3, <3>1 DEF Leaked
    <3>3. fd[t] \notin Leaked
      BY <2>3 DEF Leaked
    <3>4. pc'[t] = "idle"
      BY <1>0, <2>1 DEF TypeOK
    <3> QED
      BY <2>3, <3>2, <3>3, <3>4 DEF LeakIsConfined
  <2>4. CASE t \notin Redirecting /\ files' = files
    <3>1. Leaked' = Leaked
      BY <2>1, <2>4 DEF Leaked
    <3> QED
      BY <1>0, <2>2, <2>4, <3>1 DEF LeakIsConfined
  <2>5. CASE /\ pc[t] = "wait" /\ t \in Redirecting
             /\ files' = files \ {fd[t]}
    <3>1. Leaked' = Leaked
      BY <2>1, <2>5 DEF Leaked
    <3> QED
      BY <1>0, <2>2, <2>5, <3>1 DEF LeakIsConfined
  <2> QED
    BY <1>0, <1>2, <2>3, <2>4, <2>5, ReturnLeaves
<1>3. ASSUME \/ \E t \in Threads : OpenFails(t) \/ Fork(t)
             \/ \E p \in Pid : ChildEnds(p) \/ Background(p)
             \/ UNCHANGED vars
      PROVE  LeakIsConfined
  <2>1. /\ UNCHANGED <<files, fd>> /\ Redirecting' = Redirecting
        /\ \A t \in Threads : pc'[t] = "idle" => pc[t] = "idle"
    BY <1>0, <1>3, OthersKeepFiles
  <2>2. Leaked' = Leaked
    BY <2>1 DEF Leaked
  <2> QED
    BY <1>0, <2>1, <2>2 DEF LeakIsConfined
<1> QED
  BY <1>1, <1>2, <1>3, FileCases

(* A do_exec_redirect that returns because fork failed leaks exactly its   *)
(* own file; no other step of any call leaks one or closes a leaked one.   *)
THEOREM LeakConfined == Spec => FileLeakIsConfined
<1>1. IInv /\ [Next]_vars => [LeakIsConfined]_vars
  BY StepLeaks
<1>2. Spec => [][LeakIsConfined]_vars
  BY <1>1, Inductive, PTL DEF Spec
<1> QED
  BY <1>2 DEF FileLeakIsConfined, LeakIsConfined
=============================================================================
