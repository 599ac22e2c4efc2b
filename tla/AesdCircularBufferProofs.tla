---------------------- MODULE AesdCircularBufferProofs ----------------------
(***************************************************************************)
(* What AesdCircularBuffer promises, for every number of slots and every   *)
(* set of entries.                                                         *)
(***************************************************************************)
EXTENDS AesdCircularBuffer, DataLemmas

Inv == TypeOK /\ ShapeOK

(* An entry a caller may add has the type of struct aesd_buffer_entry.     *)
LEMMA EntryTyped ==
  ASSUME NEW e \in Entries
  PROVE  /\ e \in [buffptr : Pointers \cup {NULL}, size : Nat]
         /\ e.buffptr # NULL
<1>1. /\ e = [buffptr |-> e.buffptr, size |-> e.size]
      /\ e.buffptr # NULL
      /\ e.size \in Nat
  BY EntriesAssumption
<1>2. e.buffptr \in Pointers
  BY DEF Pointers
<1> QED
  BY <1>1, <1>2

LEMMA InitInv == Init => Inv
BY EmptyBufferGood DEF Init, Inv, TypeOK, ShapeOK

LEMMA NextInv == Inv /\ [Next]_vars => Inv'
<1> SUFFICES ASSUME Inv, [Next]_vars PROVE Inv'
  OBVIOUS
<1> USE DEF Inv, TypeOK, ShapeOK
<1>1. ASSUME NEW e \in Entries, Add(e) PROVE Inv'
  <2>1. buffer' = AddEntry(buffer, e) /\ returned' = Overwritten(buffer)
    BY <1>1 DEF Add
  <2>2. buffer' \in BufferType(Pointers)
    BY <2>1, EntryTyped, AddEntryType
  <2>3. WellFormed(buffer')
    BY <2>1, EntryTyped, AddEntryWellFormed
  <2>4. returned' \in Pointers \cup {NULL}
    BY <2>1 DEF Overwritten, BufferType
  <2> QED
    BY <2>2, <2>3, <2>4
<1>2. CASE AddFails
  BY <1>2 DEF AddFails
<1>3. CASE UNCHANGED vars
  BY <1>3 DEF vars
<1> QED
  BY <1>1, <1>2, <1>3 DEF Next

(* The fields keep their types and the indices stay in the array, however  *)
(* many entries are added.                                                 *)
THEOREM TypeCorrect == Spec => []TypeOK
<1>1. Inv => TypeOK
  BY DEF Inv
<1> QED
  BY <1>1, InitInv, NextInv, PTL DEF Spec

(* in_offs, out_offs and full always agree and slots never used are zero.  *)
THEOREM ShapeKept == Spec => []ShapeOK
<1>1. Inv => ShapeOK
  BY DEF Inv
<1> QED
  BY <1>1, InitInv, NextInv, PTL DEF Spec

-----------------------------------------------------------------------------
(* aesd_circular_buffer_add_entry appends to the sequence of entries and   *)
(* drops the oldest when there were MaxOps.                                *)
LEMMA LiveAppends ==
  ASSUME NEW b \in BufferType(Pointers),
         WellFormed(b),
         NEW e \in Entries
  PROVE  Live(AddEntry(b, e)) = Log!Keep(Append(Live(b), e))
<1> DEFINE c == AddEntry(b, e)
<1>1. e \in EntryType(Pointers) /\ e.buffptr # NULL
  BY EntryTyped DEF EntryType
<1>2. b.entry \in [Slots -> EntryType(Pointers)]
  BY DEF BufferType, EntryType
<1>3. InOrder(c, c.entry) = LastOps(Append(InOrder(b, b.entry), e))
  <2>1. /\ c.entry \in [Slots -> EntryType(Pointers)]
        /\ \A i \in Slots : c.entry[i] = IF i = b.in_offs THEN e
                                                        ELSE b.entry[i]
    BY <1>1, <1>2 DEF AddEntry
  <2> QED
    BY <1>1, <1>2, <2>1, AddEntryAppends
<1>4. Live(b) = InOrder(b, b.entry)
  BY DEF Live, InOrder
<1>5. Live(c) = InOrder(c, c.entry)
  BY DEF Live, InOrder
<1> QED
  BY <1>3, <1>4, <1>5 DEF LastOps, Log!Keep

(* The buffer implements the log of the last MaxOps entries: an add is an  *)
(* Add of the log, an add that fails to allocate a stuttering step.        *)
THEOREM Refinement == Spec => ImplementsRecentEntries
<1>1. Init => Log!Init
  <2> SUFFICES ASSUME Init PROVE Live(buffer) = << >>
    BY DEF Log!Init
  <2>1. buffer \in BufferType(Pointers) /\ WellFormed(buffer)
    BY EmptyBufferGood DEF Init
  <2>2. Count(buffer) = 0
    BY MaxOpsAssumption DEF Init, EmptyBuffer, Count
  <2> QED
    BY <2>1, <2>2, InOrderSeq DEF Live, InOrder, BufferType
<1>2. Inv /\ [Next]_vars => [Log!Next]_(Live(buffer))
  <2> SUFFICES ASSUME Inv, [Next]_vars PROVE [Log!Next]_(Live(buffer))
    OBVIOUS
  <2>1. ASSUME NEW e \in Entries, Add(e) PROVE Log!Next
    <3>1. Live(buffer)' = Live(AddEntry(buffer, e))
      BY <2>1 DEF Add, Live, Count, Slot
    <3>2. Live(AddEntry(buffer, e)) = Log!Keep(Append(Live(buffer), e))
      BY LiveAppends DEF Inv, TypeOK, ShapeOK
    <3> QED
      BY <3>1, <3>2 DEF Log!Next, Log!Add
  <2>2. CASE AddFails \/ UNCHANGED vars
    BY <2>2 DEF AddFails, vars, Live, Count, Slot
  <2> QED
    BY <2>1, <2>2 DEF Next
<1> QED
  BY <1>1, <1>2, InitInv, NextInv, PTL
     DEF Spec, ImplementsRecentEntries, Log!Spec

(* An add returns the pointer of the oldest entry exactly when that entry  *)
(* is no longer in the buffer, so that a caller that frees what it gets    *)
(* frees each block once.  (With one slot, adding the entry that is there  *)
(* already returns its pointer and changes nothing.)                       *)
THEOREM ReturnsTheDropped == MaxOps > 1 => (Spec => ReturnsWhatItDrops)
<1> SUFFICES ASSUME MaxOps > 1 PROVE Spec => ReturnsWhatItDrops
  OBVIOUS
<1> DEFINE dropped == Count(buffer) = MaxOps /\ buffer' # buffer
           Given ==
             returned' = IF dropped THEN Live(buffer)[1].buffptr ELSE NULL
<1>1. Inv /\ [Next]_vars => [Given]_vars
  <2> SUFFICES ASSUME Inv, Next PROVE Given
    OBVIOUS
  <2>1. CASE AddFails
    BY <2>1 DEF AddFails
  <2>2. ASSUME NEW e \in Entries, Add(e) PROVE Given
    <3>1. buffer' = AddEntry(buffer, e) /\ returned' = Overwritten(buffer)
      BY <2>2 DEF Add
    <3>2. /\ buffer.in_offs \in Slots /\ buffer.out_offs \in Slots
          /\ buffer.full \in BOOLEAN
          /\ IF buffer.full THEN buffer.in_offs = buffer.out_offs
             ELSE buffer.out_offs = 0
      BY DEF Inv, TypeOK, ShapeOK, WellFormed, BufferType
    <3>3. buffer' # buffer
      <4>1. buffer'.in_offs = (buffer.in_offs + 1) % MaxOps
        BY <3>1 DEF AddEntry, Advance
      <4>2. \/ buffer.in_offs + 1 < MaxOps
            \/ buffer.in_offs + 1 = MaxOps
        BY <3>2, MaxOpsAssumption DEF Slots
      <4>3. buffer'.in_offs = buffer.in_offs + 1 \/ buffer'.in_offs = 0
        BY <3>2, <4>1, <4>2, MaxOpsAssumption DEF Slots
      <4>4. buffer'.in_offs = 0 => buffer.in_offs + 1 = MaxOps
        BY <3>2, <4>1, <4>2, MaxOpsAssumption DEF Slots
      <4> QED
        BY <3>2, <4>3, <4>4, MaxOpsAssumption DEF Slots
    <3>4. Count(buffer) = MaxOps <=> buffer.full
      BY <3>2, MaxOpsAssumption DEF Count, Slots
    <3>5. CASE buffer.full
      <4>1. Slot(buffer, 0) = buffer.out_offs
        BY <3>2, MaxOpsAssumption DEF Slot, Slots
      <4>2. 1 \in 1 .. Count(buffer) /\ 1 - 1 = 0
        BY <3>4, <3>5, MaxOpsAssumption
      <4>3. Live(buffer)[1] = buffer.entry[buffer.out_offs]
        BY <4>1, <4>2 DEF Live
      <4> QED
        BY <3>1, <3>3, <3>4, <3>5, <4>3 DEF Overwritten
    <3>6. CASE ~buffer.full
      BY <3>1, <3>4, <3>6 DEF Overwritten
    <3> QED
      BY <3>2, <3>5, <3>6
  <2> QED
    BY <2>1, <2>2 DEF Next
<1> HIDE DEF Given
<1>2. Spec => [][Given]_vars
  BY <1>1, InitInv, NextInv, PTL DEF Spec
<1> QED
  BY <1>2 DEF ReturnsWhatItDrops, Given

-----------------------------------------------------------------------------
(* The bytes of the k-th command, each named by its slot and its place.    *)
Named(b, k) ==
  [j \in 1 .. b.entry[Slot(b, k - 1)].size |->
    [slot |-> Slot(b, k - 1), entry_offset |-> j - 1]]

AllNamed(b) == [k \in 1 .. Count(b) |-> Named(b, k)]

ByteNames == [slot : Slots, entry_offset : Nat]

LEMMA NamedSeq ==
  ASSUME NEW Pointer, NEW b \in BufferType(Pointer), WellFormed(b)
  PROVE  /\ AllNamed(b) \in Seq(Seq(ByteNames)) /\ Len(AllNamed(b)) = Count(b)
         /\ \A k \in 1 .. Count(b) :
              /\ AllNamed(b)[k] = Named(b, k)
              /\ Len(AllNamed(b)[k]) = b.entry[Slot(b, k - 1)].size
<1>1. Count(b) \in Nat /\ Count(b) \in 0 .. MaxOps
  BY CountRange, MaxOpsAssumption
<1>2. ASSUME NEW k \in 1 .. Count(b)
      PROVE  /\ Named(b, k) \in Seq(ByteNames)
             /\ Len(Named(b, k)) = b.entry[Slot(b, k - 1)].size
  <2> DEFINE n == b.entry[Slot(b, k - 1)].size
             S == ByteNames
  <2>1. Slot(b, k - 1) \in Slots
    <3>1. k - 1 \in Slots
      BY <1>1, MaxOpsAssumption DEF Slots
    <3> QED
      BY <3>1, SlotValue
  <2>2. n \in Nat
    BY <2>1 DEF BufferType
  <2>3. Named(b, k) \in [1 .. n -> S]
    <3>1. \A j \in 1 .. n : j - 1 \in Nat
      BY <2>2
    <3> QED
      BY <2>1, <3>1 DEF Named, ByteNames
  <2> HIDE DEF S
  <2>4. Named(b, k) \in Seq(S) /\ Len(Named(b, k)) = n
    <3> HIDE DEF n
    <3> QED
      BY <2>2, <2>3, FunctionIsSeq, Zenon
  <2> QED
    BY <2>4 DEF S
<1> DEFINE X == Seq(ByteNames)
<1>3. AllNamed(b) \in [1 .. Count(b) -> X]
  BY <1>2 DEF AllNamed
<1> HIDE DEF X
<1>4. AllNamed(b) \in Seq(X) /\ Len(AllNamed(b)) = Count(b)
  BY <1>1, <1>3, FunctionIsSeq, Zenon
<1>5. \A k \in 1 .. Count(b) : AllNamed(b)[k] = Named(b, k)
  BY DEF AllNamed
<1> QED
  BY <1>2, <1>4, <1>5 DEF X

(* The two ways through the buffer agree on a well-formed one.             *)
LEMMA FindMatches ==
  ASSUME NEW Pointer, NEW b \in BufferType(Pointer), WellFormed(b)
  PROVE  /\ Size(b) = Len(Bytes(b))
         /\ \A n \in 0 .. Len(Bytes(b)) + 1 :
              FindEntry(b, n) =
                IF n < Len(Bytes(b)) THEN Bytes(b)[n + 1] ELSE NotFound
<1> DEFINE s == AllNamed(b)
           S == ByteNames
<1>1. Count(b) \in 0 .. MaxOps /\ Count(b) \in 0 .. Count(b) /\ MaxOps \in Nat
  BY CountRange, MaxOpsAssumption
<1>2. Bytes(b) = FlattenSeq(s)
  BY DEF Bytes, AllNamed, Named
<1>3. /\ s \in Seq(Seq(S)) /\ Len(s) = Count(b)
      /\ \A k \in 1 .. Count(b) :
           s[k] = Named(b, k) /\ Len(s[k]) = b.entry[Slot(b, k - 1)].size
  BY NamedSeq, Zenon
<1> HIDE DEF s, S
<1>4. \A k \in 0 .. Count(b) : Len(FlattenSeq(SubSeq(s, 1, k))) = Offset(b, k)
  BY <1>3, OffsetIsLength
<1>5. Len(Bytes(b)) = Offset(b, Count(b))
  <2>1. SubSeq(s, 1, Len(s)) = s
    BY <1>3
  <2> QED
    BY <1>1, <1>2, <1>3, <1>4, <2>1
<1>6. Size(b) = Offset(b, Count(b))
  BY SizeIsOffset, OffsetEnds
<1>7. \A k \in 0 .. MaxOps : Offset(b, k) \in Nat
  BY OffsetStep
<1>8. ASSUME NEW n \in Nat, n < Offset(b, Count(b))
      PROVE  FindEntry(b, n) = Bytes(b)[n + 1]
  <2>1. PICK k \in 0 .. Count(b) - 1 :
          /\ Offset(b, k) <= n /\ n < Offset(b, k + 1)
          /\ FindEntry(b, n) = [slot         |-> Slot(b, k),
                                entry_offset |-> n - Offset(b, k)]
    BY <1>8, FindEntryFinds
  <2> DEFINE j == n - Offset(b, k) + 1
  <2>2. /\ k + 1 \in 1 .. Count(b) /\ (k + 1) - 1 = k /\ k \in Slots
        /\ k \in 0 .. MaxOps /\ k \in 0 .. Count(b)
    BY <1>1 DEF Slots
  <2>3. /\ Offset(b, k) \in Nat
        /\ Offset(b, k + 1) = Offset(b, k) + b.entry[Slot(b, k)].size
        /\ b.entry[Slot(b, k)].size \in Nat
    <3>1. Slot(b, k) \in Slots
      BY <2>2, SlotValue
    <3> QED
      BY <1>7, <2>2, <3>1, OffsetStep DEF BufferType
  <2>4. j \in 1 .. b.entry[Slot(b, k)].size /\ Offset(b, k) + j = n + 1
        /\ j - 1 = n - Offset(b, k)
    BY <2>1, <2>3
  <2> HIDE DEF j
  <2>5. s[k + 1] = Named(b, k + 1) /\ Len(s[k + 1]) = b.entry[Slot(b, k)].size
    BY <1>3, <2>2
  <2>6. s[k + 1][j] = [slot |-> Slot(b, k), entry_offset |-> j - 1]
    BY <2>2, <2>4, <2>5 DEF Named
  <2>7. FlattenSeq(s)[Len(FlattenSeq(SubSeq(s, 1, k))) + j] = s[k + 1][j]
    <3>1. k + 1 \in 1 .. Len(s) /\ j \in 1 .. Len(s[k + 1])
      BY <1>3, <2>2, <2>4, <2>5
    <3>2. FlattenSeq(s)[Len(FlattenSeq(SubSeq(s, 1, (k + 1) - 1))) + j]
            = s[k + 1][j]
      BY <1>3, <3>1, FlattenPlace, Zenon
    <3> QED
      BY <2>2, <3>2
  <2> QED
    BY <1>2, <1>4, <2>1, <2>2, <2>4, <2>6, <2>7
<1>9. ASSUME NEW n \in Nat, ~(n < Offset(b, Count(b)))
      PROVE  FindEntry(b, n) = NotFound
  <2>1. Offset(b, Count(b)) <= n
    BY <1>1, <1>7, <1>9
  <2> QED
    BY <2>1, FindEntryFinds
<1> QED
  <2>1. \A n \in 0 .. Len(Bytes(b)) + 1 : n \in Nat
    BY <1>1, <1>5, <1>7
  <2> QED
    BY <1>5, <1>6, <1>8, <1>9, <2>1

(* aesd_circular_buffer_size is the number of bytes of all commands, and   *)
(* for every position the search finds the byte that stands there when the *)
(* commands are laid end to end, and nothing behind the last.              *)
THEOREM FindMatchesWhatIsKept == Spec => []FindMatchesConcatenation
<1>1. Inv => FindMatchesConcatenation
  BY FindMatches DEF Inv, TypeOK, ShapeOK, FindMatchesConcatenation
<1> QED
  BY <1>1, InitInv, NextInv, PTL DEF Spec
=============================================================================
