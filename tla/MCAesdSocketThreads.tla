------------------------ MODULE MCAesdSocketThreads ------------------------
(***************************************************************************)
(* Instances of AesdSocketThreads for TLC.                                 *)
(***************************************************************************)
EXTENDS AesdSocketThreads, TLC

(* Connections and addresses are interchangeable.                          *)
Symmetry == Permutations(Conns) \cup Permutations(Node)
=============================================================================
