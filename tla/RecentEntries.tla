--------------------------- MODULE RecentEntries ---------------------------
(***************************************************************************)
(* What a circular buffer promises its caller: it holds the last MaxOps    *)
(* entries handed to it, in the order they came.  Abstract specification   *)
(* of aesd-circular-buffer.c.                                              *)
(***************************************************************************)
EXTENDS Integers, Sequences

CONSTANTS
  MaxOps,  \* how many entries are kept
  Entries  \* the entries callers may add

VARIABLE log  \* the entries held, oldest first

Init == log = <<>>

Keep(s) == IF Len(s) > MaxOps THEN Tail(s) ELSE s

Add(e) == log' = Keep(Append(log, e))

Next == \E e \in Entries : Add(e)

Spec == Init /\ [][Next]_log
=============================================================================
