------------------------- MODULE AesdCircularBuffer -------------------------
(***************************************************************************)
(* The circular buffer of aesd-char-driver/aesd-circular-buffer.c used on  *)
(* its own, as the userspace tests use it: one caller adds entries, each   *)
(* add may fail to allocate.                                               *)
(***************************************************************************)
EXTENDS CircularBufferOps, SequencesExt

CONSTANT Entries  \* the entries callers may add

ASSUME EntriesAssumption ==
  \A e \in Entries : /\ e.buffptr # NULL
                     /\ e.size \in Nat \ {0}
                     /\ e = [buffptr |-> e.buffptr, size |-> e.size]

VARIABLES
  buffer,   \* struct aesd_circular_buffer
  returned  \* what the last aesd_circular_buffer_add_entry returned

vars == <<buffer, returned>>

Pointers == {e.buffptr : e \in Entries}

Init == buffer = EmptyBuffer /\ returned = NULL

Add(e) ==
  /\ buffer'   = AddEntry(buffer, e)
  /\ returned' = Overwritten(buffer)

(* malloc refuses the copy: nothing is stored and NULL is returned.        *)
AddFails ==
  /\ returned' = NULL
  /\ UNCHANGED buffer

Next == AddFails \/ \E e \in Entries : Add(e)

Spec == Init /\ [][Next]_vars

-----------------------------------------------------------------------------
(* The fields of the structure keep their C types and the indices stay     *)
(* below AESDCHAR_MAX_WRITE_OPERATIONS_SUPPORTED.                          *)
TypeOK ==
  /\ buffer \in BufferType(Pointers)
  /\ returned \in Pointers \cup {NULL}

(* No sequence of adds leaves the shapes that size, find and the driver's  *)
(* ioctl take for granted (in_offs, out_offs and full agree; unused slots  *)
(* are zero).                                                              *)
ShapeOK == WellFormed(buffer)

(* The bytes of all commands end to end, each named by its slot and its    *)
(* place there: the concatenation the comment of find_entry speaks of.     *)
Bytes(b) ==
  FlattenSeq([k \in 1 .. Count(b) |->
    [j \in 1 .. b.entry[Slot(b, k - 1)].size |->
      [slot |-> Slot(b, k - 1), entry_offset |-> j - 1]]])

(* aesd_circular_buffer_size is the number of readable bytes, and find     *)
(* returns byte n of the concatenation for every n below it and NULL from  *)
(* there on, wherever out_offs stands.                                     *)
FindMatchesConcatenation ==
  LET bytes == Bytes(buffer)
  IN  /\ Size(buffer) = Len(bytes)
      /\ \A n \in 0 .. Len(bytes) + 1 :
           FindEntry(buffer, n) =
             IF n < Len(bytes) THEN bytes[n + 1] ELSE NotFound

(* An add returns the pointer of the oldest command exactly when that      *)
(* command is no longer in the buffer afterwards, so that a caller that    *)
(* frees what it gets frees each block once.                               *)
ReturnsWhatItDrops ==
  [][LET dropped == Count(buffer) = MaxOps /\ buffer' # buffer
     IN  returned' = IF dropped THEN Live(buffer)[1].buffptr ELSE NULL]_vars

(* The buffer implements "the last MaxOps entries in order".               *)
Log == INSTANCE RecentEntries WITH log <- Live(buffer)

ImplementsRecentEntries == Log!Spec
=============================================================================
