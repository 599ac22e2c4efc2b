------------------------- MODULE CircularBufferOps -------------------------
(***************************************************************************)
(* The functions of aesd-char-driver/aesd-circular-buffer.c as operators   *)
(* on a value of struct aesd_circular_buffer.  The functions do no locking *)
(* ("any necessary locking must be handled by the caller"), so each is one *)
(* step of whoever calls it; the modules that keep a buffer as state       *)
(* extend this one.                                                        *)
(***************************************************************************)
EXTENDS Integers, Sequences, FiniteSetsExt

CONSTANTS
  MaxOps,  \* AESDCHAR_MAX_WRITE_OPERATIONS_SUPPORTED
  NULL     \* the null pointer

ASSUME MaxOpsAssumption == MaxOps \in Nat \ {0}

Slots == 0 .. MaxOps - 1

EmptyEntry == [buffptr |-> NULL, size |-> 0]

(* aesd_circular_buffer_init: the structure zeroed by memset.              *)
EmptyBuffer ==
  [entry    |-> [i \in Slots |-> EmptyEntry],
   in_offs  |-> 0,
   out_offs |-> 0,
   full     |-> FALSE]

(* Mutant: the index runs off the end of the array.                        *)
AdvanceWithoutWrap(i) == i + 1

Advance(i) == (i + 1) % MaxOps

(* The slot of the k-th oldest command, the oldest being number 0.         *)
Slot(b, k) == (b.out_offs + k) % MaxOps

(* The number of commands a search visits.                                 *)
Count(b) ==
  IF b.full THEN MaxOps
  ELSE IF b.in_offs >= b.out_offs
       THEN b.in_offs - b.out_offs
       ELSE MaxOps - b.out_offs + b.in_offs

(* Bytes in the k slots that follow out_offs.                              *)
Offset(b, k) ==
  MapThenSumSet(LAMBDA j : b.entry[Slot(b, j)].size, 0 .. k - 1)

(* aesd_circular_buffer_size: the sum over every slot, used or not.        *)
Size(b) == MapThenSumSet(LAMBDA i : b.entry[i].size, Slots)

NotFound == [slot |-> -1, entry_offset |-> 0]

(* Mutant: <= for <, the byte behind the end of a command is its own.      *)
FindEntryOffByOne(b, char_offset) ==
  LET behind == {k \in 0 .. Count(b) - 1 : char_offset <= Offset(b, k + 1)}
      first  == Min(behind)
  IN  IF behind = {}
      THEN NotFound
      ELSE [slot         |-> Slot(b, first),
            entry_offset |-> char_offset - Offset(b, first)]

(* aesd_circular_buffer_find_entry_offset_for_fpos: the first command that *)
(* ends behind char_offset, and the byte of it that char_offset names.     *)
FindEntry(b, char_offset) ==
  LET behind == {k \in 0 .. Count(b) - 1 : char_offset < Offset(b, k + 1)}
      first  == Min(behind)
  IN  IF behind = {}
      THEN NotFound
      ELSE [slot         |-> Slot(b, first),
            entry_offset |-> char_offset - Offset(b, first)]

(* Mutant: out_offs stays behind when the oldest entry is overwritten.     *)
AddEntryKeepsOut(b, add_entry) ==
  LET in == Advance(b.in_offs)
  IN  [entry    |-> [b.entry EXCEPT ![b.in_offs] = add_entry],
       in_offs  |-> in,
       out_offs |-> b.out_offs,
       full     |-> in = b.out_offs]

(* Mutant: full is never set, so that in_offs = out_offs reads as empty.   *)
AddEntryNeverFull(b, add_entry) ==
  [b EXCEPT !.entry[b.in_offs] = add_entry, !.in_offs = Advance(@)]

(* aesd_circular_buffer_add_entry when its own allocation succeeds.  What  *)
(* is left in the slot is *add_entry itself: the copy made first is stored *)
(* and at once overwritten.                                                *)
AddEntry(b, add_entry) ==
  LET in  == Advance(b.in_offs)
      out == IF b.full THEN Advance(b.out_offs) ELSE b.out_offs
  IN  [entry    |-> [b.entry EXCEPT ![b.in_offs] = add_entry],
       in_offs  |-> in,
       out_offs |-> out,
       full     |-> in = out]

(* Mutant: the oldest entry is handed back while it is still in use.       *)
OverwrittenAlways(b) == b.entry[b.out_offs].buffptr

(* Mutant: out_offs is read after it was advanced.                         *)
OverwrittenNext(b) ==
  IF b.full THEN b.entry[Advance(b.out_offs)].buffptr ELSE NULL

(* The pointer aesd_circular_buffer_add_entry returns.                     *)
Overwritten(b) == IF b.full THEN b.entry[b.out_offs].buffptr ELSE NULL

-----------------------------------------------------------------------------
(* What the structure stands for: its entries, oldest first.               *)
Live(b) == [k \in 1 .. Count(b) |-> b.entry[Slot(b, k - 1)]]

Used(b, i) == b.full \/ i < b.in_offs

(* The shapes the operations produce: out_offs stays 0 until the buffer is *)
(* full, a full buffer stays full, and a slot not yet used is still as     *)
(* memset left it (aesd_circular_buffer_size and the NULL test of the      *)
(* driver's ioctl rely on that).                                           *)
WellFormed(b) ==
  /\ IF b.full THEN b.in_offs = b.out_offs ELSE b.out_offs = 0
  /\ \A i \in Slots : IF Used(b, i) THEN b.entry[i].buffptr # NULL
                                    ELSE b.entry[i] = EmptyEntry

BufferType(Pointer) ==
  [entry    : [Slots -> [buffptr : Pointer \cup {NULL}, size : Nat]],
   in_offs  : Slots,
   out_offs : Slots,
   full     : BOOLEAN]
=============================================================================
