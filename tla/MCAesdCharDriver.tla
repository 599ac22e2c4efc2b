-------------------------- MODULE MCAesdCharDriver --------------------------
(***************************************************************************)
(* Instances of AesdCharDriver for TLC.                                    *)
(***************************************************************************)
EXTENDS AesdCharDriver

CONSTANTS a, nl  \* bytes

(* What TLC compares states by.  Addresses are interchangeable, so a block *)
(* is known by its contents and by who points to it, and of the blocks     *)
(* nobody points to only the number matters.  No action reads ret, and the *)
(* properties look at it only in the step that sets it.                    *)
Block(p) ==
  IF p = NULL THEN <<>>
  ELSE <<p \in alloc, mem[p], p = write_accumulator,
         {i \in Slots : p = EntryPtr(i)}, {t \in Threads : p = kbuff[t]}>>

UpToAddresses ==
  <<loaded, lock, accumulator_size, pc, req, copied, f_pos, Cardinality(alloc),
    circular_buffer.in_offs, circular_buffer.out_offs, circular_buffer.full,
    [i \in Slots |-> circular_buffer.entry[i].size],
    [i \in Slots |-> Block(EntryPtr(i))],
    Block(write_accumulator),
    [t \in Threads |-> Block(kbuff[t])]>>

(* No packet at all, one that ends no command and one that does.  What is  *)
(* pending goes into the next command, so that commands differ in size.    *)
Packets == {<<>>, <<a>>, <<a, nl>>}

Lines == {<<nl>>, <<a, a, nl>>}

None == {}

SomeSeeks ==
  {[whence |-> "SEEK_SET", offset |-> 1],
   [whence |-> "SEEK_CUR", offset |-> -1],
   [whence |-> "SEEK_CUR", offset |-> PosLimit - 1],
   [whence |-> "SEEK_END", offset |-> 0],
   [whence |-> "SEEK_DATA", offset |-> 0]}

(* A seek and an ioctl that hit or miss, depending on what is stored.      *)
OneSeek == {[whence |-> "SEEK_SET", offset |-> 1]}

OneSeekTo == {[write_cmd |-> 1, write_cmd_offset |-> 0]}

SomeSeekTos == [write_cmd : 0 .. MaxOps, write_cmd_offset : {0, 2, 4}]
=============================================================================
