------------------------ MODULE MCAesdCircularBuffer ------------------------
(***************************************************************************)
(* An instance of AesdCircularBuffer for TLC.                             *)
(***************************************************************************)
EXTENDS AesdCircularBuffer

CONSTANTS p1, p2  \* addresses of entries

(* Two entries of different size tell every order of ten slots apart.      *)
TwoEntries ==
  {[buffptr |-> p1, size |-> 1], [buffptr |-> p2, size |-> 3]}
=============================================================================
