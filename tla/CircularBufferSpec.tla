------------------------- MODULE CircularBufferSpec -------------------------
(***************************************************************************)
(* One circular buffer, a caller that adds entries to it in any order and  *)
(* searches for any position.  The caller meets the contract of the code as *)
(* the driver does: it lets no call overlap another                        *)
(* (aesd-circular-buffer.c:22, 97), and an entry it adds has bytes, behind *)
(* a pointer that is not that of an entry still in the buffer.             *)
(***************************************************************************)
EXTENDS CircularBuffer

CONSTANTS
  Entries,   \* the entries the caller may add
  Offsets    \* the positions it may search for

ASSUME EntriesAssumption == \A e \in Entries : e.size \in Nat \ {0}
ASSUME OffsetsAssumption == Offsets \subseteq Nat

VARIABLES
  buffer,
  search,       \* the search under way, or the last one since an entry was added
  char_offset   \* the position it was called for

vars == <<buffer, search, char_offset>>

Init ==
  /\ buffer = aesd_circular_buffer_init
  /\ search = NoSearch
  /\ char_offset = 0

Add(e) ==
  /\ search.at # "searching"
  /\ \A k \in 1 .. Count(buffer) : Contents(buffer)[k].buffptr # e.buffptr
  /\ buffer' = aesd_circular_buffer_add_entry(buffer, e)
  /\ search' = NoSearch
  /\ char_offset' = 0

Find(offset) ==
  /\ search.at # "searching"
  /\ search' = FindEntry(offset)
  /\ char_offset' = offset
  /\ UNCHANGED buffer

Iterate ==
  /\ search.at = "searching"
  /\ search' = FindIteration(buffer, search)
  /\ UNCHANGED <<buffer, char_offset>>

Next ==
  \/ \E e \in Entries : Add(e)
  \/ \E offset \in Offsets : Find(offset)
  \/ Iterate

Spec == Init /\ [][Next]_vars

-----------------------------------------------------------------------------
(* Offsets stay inside the array and every slot is empty or holds an entry *)
(* some caller added (aesd-circular-buffer.h:29-51).                       *)
TypeOK ==
  /\ buffer \in BuffersOf(Entries)
  /\ search \in Searches
  /\ char_offset \in Nat

(* The offsets meet exactly when the buffer is full or empty, and no slot  *)
(* between them is empty: what lets add_entry tell full from empty         *)
(* (aesd-circular-buffer.c:148-152) and a search stop at the first empty   *)
(* slot (line 71).                                                         *)
OffsetsAgree == OffsetsAgreeOn(buffer, Entries)

(* The bytes of the first 0, 1, ... Len(s) entries of s. *)
SizesUpTo(s) ==
  LET upTo[k \in 0 .. Len(s)] == IF k = 0 THEN 0 ELSE upTo[k - 1] + s[k].size
  IN upTo

(* A search is over the entries laid end to end, oldest first              *)
(* (aesd-circular-buffer.c:23-29): what it has passed and what is left of  *)
(* the offset add up to the position asked for, and what it finds is a     *)
(* byte of an entry in the buffer.                                         *)
FindIsConcatenation ==
  LET s == Contents(buffer) IN
  /\ search.at # "none" => /\ search.i <= Len(s)
                           /\ char_offset = SizesUpTo(s)[search.i] + search.offset
  /\ search.at = "found" => /\ search.i < Len(s)
                            /\ search.offset < s[search.i + 1].size

(* A search fails only for a position past the last byte.                  *)
FailsOnlyPastEnd ==
  [][search.at = "searching" /\ search'.at = "none"
       => char_offset >= SizesUpTo(Contents(buffer))[Count(buffer)]]_vars

(* The pointer handed back to be freed is no longer in the buffer once     *)
(* the entry that displaced it is in (aesd-circular-buffer.c:119-122), and *)
(* every other entry still is.                                             *)
OnlyOverwrittenLeaves ==
  [][LET before == {Contents(buffer)[k].buffptr : k \in 1 .. Count(buffer)}
         after  == {Contents(buffer)'[k].buffptr : k \in 1 .. Count(buffer)'}
     IN before \ after = IF buffer.full THEN {Overwritten(buffer)} ELSE {}]_buffer

Log == INSTANCE CommandLog
         WITH Capacity <- Slots, log <- Contents(buffer)

(* The buffer is the bounded log of its last Slots entries.                *)
ImplementsLog == Log!Spec

=============================================================================
