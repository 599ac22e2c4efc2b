----------------------------- MODULE CommandLog -----------------------------
(***************************************************************************)
(* What /dev/aesdchar promises the programs that write to it: the bytes of *)
(* all writers gather in one pending command; when it holds a newline it   *)
(* joins the log as one command; the log keeps the last MaxOps commands in *)
(* order.  Abstract specification of the write path of                     *)
(* aesd-char-driver/main.c.                                                *)
(***************************************************************************)
EXTENDS Integers, Sequences

CONSTANTS
  MaxOps,    \* how many commands are kept
  Payloads,  \* what one write may carry
  NL         \* the byte that ends a command

VARIABLES
  loaded,  \* whether the device exists
  log,     \* the commands held, oldest first
  pending  \* the bytes of the command not yet ended

vars == <<loaded, log, pending>>

Holds(s, byte) == \E i \in DOMAIN s : s[i] = byte

Keep(s) == IF Len(s) > MaxOps THEN Tail(s) ELSE s

Init == ~loaded /\ log = <<>> /\ pending = <<>>

Load ==
  /\ ~loaded
  /\ loaded' = TRUE
  /\ UNCHANGED <<log, pending>>

(* One write, whole: never while an ended command waits to join the log.   *)
Accept(data) ==
  /\ loaded
  /\ ~Holds(pending, NL)
  /\ pending' = pending \o data
  /\ UNCHANGED <<loaded, log>>

Commit ==
  /\ Holds(pending, NL)
  /\ log' = Keep(Append(log, pending))
  /\ pending' = <<>>
  /\ UNCHANGED loaded

(* The allocator refuses a command that ended: it is gone.                 *)
Drop ==
  /\ Holds(pending, NL)
  /\ pending' = <<>>
  /\ UNCHANGED <<loaded, log>>

(* Nothing survives the device.                                            *)
Unload ==
  /\ loaded
  /\ ~Holds(pending, NL)
  /\ loaded' = FALSE
  /\ log' = <<>>
  /\ pending' = <<>>

Next ==
  \/ Load \/ Commit \/ Drop \/ Unload
  \/ \E data \in Payloads : Accept(data)

Spec == Init /\ [][Next]_vars
=============================================================================
