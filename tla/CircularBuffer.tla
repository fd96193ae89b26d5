--------------------------- MODULE CircularBuffer ---------------------------
(***************************************************************************)
(* The circular buffer of the char driver                                  *)
(* (aesd-char-driver/aesd-circular-buffer.c, .h) as operators on a         *)
(* `struct aesd_circular_buffer` value.  The code leaves locking to the    *)
(* caller, so each function is one operator; CircularBufferSpec and        *)
(* AesdChar are the state machines that call them.                         *)
(***************************************************************************)
EXTENDS Naturals, Sequences

CONSTANTS
  Slots,   \* AESDCHAR_MAX_WRITE_OPERATIONS_SUPPORTED
  NULL     \* the null pointer

\* in_offs and out_offs are uint8_t: a larger array could not be indexed.
ASSUME SlotsAssumption == Slots \in 1 .. 255

Slot == 0 .. Slots - 1

(* struct aesd_buffer_entry: a pointer and the number of bytes behind it. *)
NoEntry == [buffptr |-> NULL, size |-> 0]

(* The struct is zeroed as a whole. *)
aesd_circular_buffer_init ==
  [entry    |-> [i \in Slot |-> NoEntry],
   in_offs  |-> 0,
   out_offs |-> 0,
   full     |-> FALSE]

\* Mistake: without the wrap-around of lines 123-127 and 130-134.
AdvancePastEnd(offs) == offs + 1

(* Move an offset to the next slot, from the last one back to the first. *)
Advance(offs) == IF offs + 1 = Slots THEN 0 ELSE offs + 1

\* Mistake: the pointer is read after out_offs has advanced.
OverwrittenTooLate(buffer) ==
  IF buffer.full THEN buffer.entry[Advance(buffer.out_offs)].buffptr ELSE NULL

(* The pointer add_entry returns for its caller to free. *)
Overwritten(buffer) ==
  IF buffer.full THEN buffer.entry[buffer.out_offs].buffptr ELSE NULL

\* Mistake: out_offs does not advance when the oldest entry is overwritten.
AddEntryKeepingOutOffs(buffer, add_entry) ==
  [entry    |-> [buffer.entry EXCEPT ![buffer.in_offs] = add_entry],
   in_offs  |-> Advance(buffer.in_offs),
   out_offs |-> buffer.out_offs,
   full     |-> buffer.full \/ Advance(buffer.in_offs) = buffer.out_offs]

\* Mistake: full is tested before in_offs advances.
AddEntryTestingFullFirst(buffer, add_entry) ==
  [entry    |-> [buffer.entry EXCEPT ![buffer.in_offs] = add_entry],
   in_offs  |-> Advance(buffer.in_offs),
   out_offs |-> IF buffer.full THEN Advance(buffer.out_offs) ELSE buffer.out_offs,
   full     |-> buffer.full \/ buffer.in_offs = buffer.out_offs]

(* The buffer add_entry leaves behind.  Only a full buffer moves out_offs, *)
(* and full is never reset.                                                *)
aesd_circular_buffer_add_entry(buffer, add_entry) ==
  [entry    |-> [buffer.entry EXCEPT ![buffer.in_offs] = add_entry],
   in_offs  |-> Advance(buffer.in_offs),
   out_offs |-> IF buffer.full THEN Advance(buffer.out_offs) ELSE buffer.out_offs,
   full     |-> buffer.full \/ Advance(buffer.in_offs) = buffer.out_offs]

(* The index of the i-th slot of the search, starting at out_offs. *)
SlotAt(buffer, i) ==
  IF buffer.out_offs + i >= Slots
  THEN (buffer.out_offs + i) % Slots
  ELSE buffer.out_offs + i

(* aesd_circular_buffer_find_entry_offset_for_fpos is a loop: its state is *)
(* the slots passed so far, the offset less their sizes, and how far it is. *)
Searches == [at : {"searching", "found", "none"}, i : Slot, offset : Nat]

NoSearch == [at |-> "none", i |-> 0, offset |-> 0]

FindEntry(char_offset) == [at |-> "searching", i |-> 0, offset |-> char_offset]

\* The slot a search looks at, or has found.
SlotOf(buffer, s) == SlotAt(buffer, s.i)

\* Mistake: an offset equal to an entry's size is taken to be inside it.
FindIterationInclusive(buffer, s) ==
  LET size == buffer.entry[SlotOf(buffer, s)].size
  IN IF size = 0 THEN NoSearch
     ELSE IF s.offset > size
     THEN IF s.i + 1 = Slots
          THEN NoSearch
          ELSE [s EXCEPT !.i = @ + 1, !.offset = @ - size]
     ELSE [s EXCEPT !.at = "found"]

\* Mistake: the loop stops one slot short of a full buffer.
FindIterationOneShort(buffer, s) ==
  LET size == buffer.entry[SlotOf(buffer, s)].size
  IN IF size = 0 THEN NoSearch
     ELSE IF s.offset > size - 1
     THEN IF s.i + 2 = Slots
          THEN NoSearch
          ELSE [s EXCEPT !.i = @ + 1, !.offset = @ - size]
     ELSE [s EXCEPT !.at = "found"]

(* One iteration: an empty slot ends the search, one that ends before the  *)
(* offset is passed, and any other one is what it looked for.              *)
FindIteration(buffer, s) ==
  LET size == buffer.entry[SlotOf(buffer, s)].size
  IN IF size = 0 THEN NoSearch
     ELSE IF s.offset > size - 1
     THEN IF s.i + 1 = Slots
          THEN NoSearch
          ELSE [s EXCEPT !.i = @ + 1, !.offset = @ - size]
     ELSE [s EXCEPT !.at = "found"]

-----------------------------------------------------------------------------
(* What a buffer holds, oldest entry first: the view the driver and the    *)
(* abstract log share.                                                     *)
Count(buffer) ==
  IF buffer.full THEN Slots
  ELSE IF buffer.in_offs >= buffer.out_offs
       THEN buffer.in_offs - buffer.out_offs
       ELSE buffer.in_offs + Slots - buffer.out_offs

Contents(buffer) ==
  [k \in 1 .. Count(buffer) |-> buffer.entry[SlotAt(buffer, k - 1)]]

(* The buffers whose slots are empty or hold one of the entries E. *)
BuffersOf(E) ==
  [entry    : [Slot -> E \cup {NoEntry}],
   in_offs  : Slot,
   out_offs : Slot,
   full     : BOOLEAN]

(* The two offsets agree exactly when the buffer is full or empty: until   *)
(* it fills up its entries are the slots below in_offs, every other slot   *)
(* is as memset left it and out_offs has not moved; from then on every     *)
(* slot holds an entry.                                                    *)
OffsetsAgreeOn(buffer, E) ==
  IF buffer.full
  THEN /\ buffer.in_offs = buffer.out_offs
       /\ \A i \in Slot : buffer.entry[i] \in E
  ELSE /\ buffer.out_offs = 0
       /\ \A i \in Slot : IF i < buffer.in_offs
                          THEN buffer.entry[i] \in E
                          ELSE buffer.entry[i] = NoEntry

=============================================================================
