------------------------ MODULE CircularBufferLemmas ------------------------
(***************************************************************************)
(* Facts about the operators of the circular buffer, for every number of   *)
(* slots and every set of entries: add_entry keeps a buffer consistent and *)
(* is Push on its contents.                                                *)
(***************************************************************************)
EXTENDS CircularBuffer, SequenceTheorems, TLAPS

(* The modulo of the search is a subtraction: an index of a slot counted   *)
(* from another slot wraps around at most once.                            *)
LEMMA ModIsWrap ==
  \A n \in Nat \ {0} : \A x \in n .. 2 * n - 1 : x % n = x - n
<1> TAKE n \in Nat \ {0}
<1> TAKE x \in n .. 2 * n - 1
<1>1. x = n * (x \div n) + (x % n) /\ x % n \in 0 .. n - 1 /\ x \div n \in Int
  OBVIOUS
<1>2. DEFINE q == x \div n
<1>3. CASE q = 1
  BY <1>1, <1>3
<1>4. CASE q <= 0
  <2>1. n * q <= 0
    BY <1>1, <1>4
  <2> QED BY <1>1, <2>1
<1>5. CASE q >= 2
  <2>1. n * q >= n * 2
    BY <1>1, <1>5
  <2> QED BY <1>1, <2>1
<1> QED BY <1>1, <1>3, <1>4, <1>5

(* Every position of a search (aesd-circular-buffer.c:59-66) is a slot of  *)
(* the array: out_offs + i, less the number of slots if past the last one. *)
LEMMA SlotAtProperties ==
  ASSUME NEW b, b.out_offs \in Slot, NEW i \in Slot
  PROVE  /\ SlotAt(b, i) \in Slot
         /\ SlotAt(b, i) = IF b.out_offs + i >= Slots THEN b.out_offs + i - Slots
                                                      ELSE b.out_offs + i
<1>1. CASE b.out_offs + i >= Slots
  <2>1. b.out_offs + i \in Slots .. 2 * Slots - 1
    BY <1>1, SlotsAssumption DEF Slot
  <2>2. Slots \in Nat \ {0}
    BY SlotsAssumption
  <2>3. \A x \in Slots .. 2 * Slots - 1 : x % Slots = x - Slots
    BY <2>2, ModIsWrap
  <2>4. PICK x \in Slots .. 2 * Slots - 1 : x = b.out_offs + i
    BY <2>1
  <2>5. x % Slots = x - Slots
    BY <2>3, Zenon
  <2> QED BY <1>1, <2>1, <2>4, <2>5, SlotsAssumption DEF SlotAt, Slot
<1>2. CASE ~(b.out_offs + i >= Slots)
  BY <1>2, SlotsAssumption DEF SlotAt, Slot
<1> QED BY <1>1, <1>2

-----------------------------------------------------------------------------
(* A buffer as memset leaves it is consistent and empty. *)
LEMMA InitConsistent ==
  ASSUME NEW E
  PROVE  /\ aesd_circular_buffer_init \in BuffersOf(E)
         /\ OffsetsAgreeOn(aesd_circular_buffer_init, E)
         /\ Count(aesd_circular_buffer_init) = 0
         /\ Contents(aesd_circular_buffer_init) = << >>
<1>1. /\ aesd_circular_buffer_init \in BuffersOf(E)
      /\ OffsetsAgreeOn(aesd_circular_buffer_init, E)
  BY SlotsAssumption
     DEF BuffersOf, OffsetsAgreeOn, aesd_circular_buffer_init, Slot
<1>2. Count(aesd_circular_buffer_init) = 0
  BY SlotsAssumption DEF Count, aesd_circular_buffer_init
<1>3. Contents(aesd_circular_buffer_init) = << >>
  BY <1>2 DEF Contents
<1> QED BY <1>1, <1>2, <1>3

(* add_entry keeps a consistent buffer consistent. *)
LEMMA AddEntryConsistent ==
  ASSUME NEW E, NEW b \in BuffersOf(E), OffsetsAgreeOn(b, E), NEW e \in E
  PROVE  /\ aesd_circular_buffer_add_entry(b, e) \in BuffersOf(E)
         /\ OffsetsAgreeOn(aesd_circular_buffer_add_entry(b, e), E)
<1> DEFINE new == aesd_circular_buffer_add_entry(b, e)
<1> USE SlotsAssumption DEF Slot
<1>1. new \in BuffersOf(E)
  BY DEF BuffersOf, aesd_circular_buffer_add_entry, Advance
<1>2. CASE b.full
  BY <1>1, <1>2
     DEF BuffersOf, OffsetsAgreeOn, aesd_circular_buffer_add_entry, Advance
<1>3. CASE ~b.full
  <2>1. /\ b.out_offs = 0
        /\ b.in_offs \in Slot
        /\ new.out_offs = 0
        /\ new.in_offs = Advance(b.in_offs)
    BY <1>1, <1>3 DEF BuffersOf, OffsetsAgreeOn, aesd_circular_buffer_add_entry
  <2>2. new.full = (Advance(b.in_offs) = b.out_offs)
    BY <1>3 DEF BuffersOf, aesd_circular_buffer_add_entry
  <2>3. ASSUME NEW i \in Slot
        PROVE  new.entry[i] = IF i = b.in_offs THEN e ELSE b.entry[i]
    BY DEF BuffersOf, aesd_circular_buffer_add_entry
  <2>4. ASSUME NEW i \in Slot
        PROVE  IF i <= b.in_offs THEN new.entry[i] \in E
                                 ELSE new.entry[i] = NoEntry
    BY <1>3, <2>1, <2>3 DEF OffsetsAgreeOn
  <2> HIDE DEF new
  <2>5. CASE b.in_offs + 1 = Slots
    <3>1. new.full /\ new.in_offs = 0
      BY <2>1, <2>2, <2>5 DEF Advance
    <3>2. \A i \in Slot : new.entry[i] \in E
      BY <2>1, <2>4, <2>5
    <3> QED BY <1>1, <2>1, <3>1, <3>2 DEF OffsetsAgreeOn, new
  <2>6. CASE b.in_offs + 1 # Slots
    <3>1. new.in_offs = b.in_offs + 1 /\ new.in_offs # 0
      BY <2>1, <2>6 DEF Advance
    <3>2. ~new.full
      BY <2>1, <2>2, <3>1
    <3>3. \A i \in Slot : IF i < new.in_offs THEN new.entry[i] \in E
                                             ELSE new.entry[i] = NoEntry
      BY <2>1, <2>4, <3>1
    <3> QED BY <1>1, <2>1, <3>2, <3>3 DEF OffsetsAgreeOn, new
  <2> QED BY <2>5, <2>6
<1> QED BY <1>1, <1>2, <1>3 DEF BuffersOf

-----------------------------------------------------------------------------
(* The contents of a consistent buffer are a sequence of its entries: as   *)
(* many as in_offs counts until it is full, then one per slot.             *)
LEMMA ContentsProperties ==
  ASSUME NEW E, NEW b \in BuffersOf(E), OffsetsAgreeOn(b, E)
  PROVE  /\ Count(b) \in 0 .. Slots
         /\ Count(b) = IF b.full THEN Slots ELSE b.in_offs
         /\ Contents(b) \in Seq(E)
         /\ Len(Contents(b)) = Count(b)
         /\ \A k \in 1 .. Count(b) : Contents(b)[k] = b.entry[SlotAt(b, k - 1)]
<1> USE SlotsAssumption DEF Slot
<1>1. /\ Count(b) \in 0 .. Slots
      /\ Count(b) = IF b.full THEN Slots ELSE b.in_offs
  BY DEF BuffersOf, OffsetsAgreeOn, Count
<1>2. ASSUME NEW k \in 1 .. Count(b)
      PROVE  b.entry[SlotAt(b, k - 1)] \in E
  <2>1. k - 1 \in Slot /\ b.out_offs \in Slot
    BY <1>1 DEF BuffersOf
  <2>2. /\ SlotAt(b, k - 1) \in Slot
        /\ SlotAt(b, k - 1) = IF b.out_offs + (k - 1) >= Slots
                              THEN b.out_offs + (k - 1) - Slots
                              ELSE b.out_offs + (k - 1)
    BY <2>1, SlotAtProperties
  <2>3. CASE b.full
    BY <2>2, <2>3 DEF OffsetsAgreeOn
  <2>4. CASE ~b.full
    BY <1>1, <2>2, <2>4 DEF OffsetsAgreeOn
  <2> QED BY <2>3, <2>4
<1>3. Contents(b) \in [1 .. Count(b) -> E]
  BY <1>2 DEF Contents
<1>4. Contents(b) \in Seq(E)
  BY <1>1, <1>3, SeqDef
<1>5. Len(Contents(b)) = Count(b)
  BY <1>1, <1>3, <1>4, LenProperties
<1> QED BY <1>1, <1>4, <1>5 DEF Contents

(* add_entry appends to the contents, dropping the oldest entry of a full  *)
(* buffer (aesd-circular-buffer.c:100-157).                                *)
LEMMA AddEntryIsPush ==
  ASSUME NEW E, NEW b \in BuffersOf(E), OffsetsAgreeOn(b, E), NEW e \in E
  PROVE  Contents(aesd_circular_buffer_add_entry(b, e)) =
           IF Len(Contents(b)) = Slots THEN Append(Tail(Contents(b)), e)
                                       ELSE Append(Contents(b), e)
<1> DEFINE new == aesd_circular_buffer_add_entry(b, e)
           old == Contents(b)
<1> USE SlotsAssumption
<1>1. new \in BuffersOf(E) /\ OffsetsAgreeOn(new, E)
  BY AddEntryConsistent
<1>2. /\ Count(b) \in 0 .. Slots
      /\ Count(b) = IF b.full THEN Slots ELSE b.in_offs
      /\ old \in Seq(E)
      /\ Len(old) = Count(b)
      /\ \A k \in 1 .. Count(b) : old[k] = b.entry[SlotAt(b, k - 1)]
  BY ContentsProperties
<1>3. /\ Count(new) = IF new.full THEN Slots ELSE new.in_offs
      /\ Contents(new) \in Seq(E)
      /\ Len(Contents(new)) = Count(new)
      /\ \A k \in 1 .. Count(new) :
           Contents(new)[k] = new.entry[SlotAt(new, k - 1)]
  BY <1>1, ContentsProperties
<1>4. /\ new.full = (b.full \/ Advance(b.in_offs) = b.out_offs)
      /\ new.in_offs = Advance(b.in_offs)
      /\ new.out_offs = IF b.full THEN Advance(b.out_offs) ELSE b.out_offs
      /\ \A i \in Slot : new.entry[i] = IF i = b.in_offs THEN e ELSE b.entry[i]
      /\ b.in_offs \in Slot /\ b.out_offs \in Slot /\ new.out_offs \in Slot
  BY DEF BuffersOf, aesd_circular_buffer_add_entry, Slot, Advance
<1>5. ASSUME NEW c \in BuffersOf(E), NEW i \in Slot
      PROVE  /\ SlotAt(c, i) \in Slot
             /\ SlotAt(c, i) = IF c.out_offs + i >= Slots
                               THEN c.out_offs + i - Slots
                               ELSE c.out_offs + i
  BY SlotAtProperties DEF BuffersOf
<1> HIDE DEF new, old
<1>6. CASE b.full
  <2>1. b.in_offs = b.out_offs /\ Count(b) = Slots /\ Count(new) = Slots
    BY <1>2, <1>3, <1>4, <1>6 DEF OffsetsAgreeOn
  <2>2. old # << >>
    BY <1>2, <2>1
  <2>3. /\ Tail(old) \in Seq(E)
        /\ Len(Tail(old)) = Slots - 1
        /\ \A i \in 1 .. Slots - 1 : Tail(old)[i] = old[i + 1]
    BY <1>2, <2>1, <2>2, HeadTailProperties
  <2>4. /\ Append(Tail(old), e) \in Seq(E)
        /\ Len(Append(Tail(old), e)) = Slots
        /\ \A k \in 1 .. Slots :
             Append(Tail(old), e)[k] = IF k = Slots THEN e ELSE old[k + 1]
    BY <2>3
  <2>5. ASSUME NEW k \in 1 .. Slots
        PROVE  Contents(new)[k] = IF k = Slots THEN e ELSE old[k + 1]
    <3>1. /\ k - 1 \in Slot
          /\ k < Slots => k \in Slot
      BY DEF Slot
    <3>2. /\ SlotAt(new, k - 1) \in Slot
          /\ SlotAt(new, k - 1) = IF new.out_offs + (k - 1) >= Slots
                                  THEN new.out_offs + (k - 1) - Slots
                                  ELSE new.out_offs + (k - 1)
      BY <1>1, <1>5, <3>1
    <3>3. CASE k = Slots
      <4>1. SlotAt(new, k - 1) = b.in_offs
        BY <1>4, <1>6, <2>1, <3>2, <3>3 DEF Advance, Slot
      <4> QED BY <1>3, <1>4, <2>1, <3>2, <3>3, <4>1
    <3>4. CASE k # Slots
      <4>1. /\ SlotAt(b, k) \in Slot
            /\ SlotAt(b, k) = IF b.out_offs + k >= Slots
                              THEN b.out_offs + k - Slots
                              ELSE b.out_offs + k
        BY <1>5, <3>1, <3>4
      <4>2. SlotAt(new, k - 1) = SlotAt(b, k) /\ SlotAt(b, k) # b.in_offs
        BY <1>4, <1>6, <2>1, <3>2, <3>4, <4>1 DEF Advance, Slot
      <4>3. old[k + 1] = b.entry[SlotAt(b, k)]
        BY <1>2, <2>1, <3>4
      <4> QED BY <1>3, <1>4, <2>1, <3>2, <3>4, <4>2, <4>3
    <3> QED BY <3>3, <3>4
  <2>6. Contents(new) = Append(Tail(old), e)
    <3>1. /\ Len(Contents(new)) = Len(Append(Tail(old), e))
          /\ Contents(new) \in Seq(E) /\ Append(Tail(old), e) \in Seq(E)
      BY <1>3, <2>1, <2>4
    <3>2. \A k \in 1 .. Len(Contents(new)) :
            Contents(new)[k] = Append(Tail(old), e)[k]
      BY <1>3, <2>1, <2>4, <2>5
    <3> QED BY <3>1, <3>2, SeqEqual, Zenon
  <2> QED BY <1>2, <2>1, <2>6 DEF new, old
<1>7. CASE ~b.full
  <2>1. /\ b.out_offs = 0 /\ new.out_offs = 0
        /\ Count(b) = b.in_offs /\ Count(b) # Slots
    BY <1>2, <1>4, <1>7 DEF OffsetsAgreeOn, Slot
  <2>2. Count(new) = b.in_offs + 1
    <3>1. CASE b.in_offs + 1 = Slots
      BY <1>3, <1>4, <1>7, <2>1, <3>1 DEF Advance
    <3>2. CASE b.in_offs + 1 # Slots
      <4>1. new.in_offs = b.in_offs + 1 /\ Advance(b.in_offs) # b.out_offs
        BY <1>4, <2>1, <3>2 DEF Advance, Slot
      <4>2. ~new.full
        BY <1>4, <1>7, <4>1, Zenon
      <4> QED BY <1>3, <4>1, <4>2
    <3> QED BY <3>1, <3>2
  <2>3. /\ Append(old, e) \in Seq(E)
        /\ Len(Append(old, e)) = b.in_offs + 1
        /\ \A k \in 1 .. b.in_offs + 1 :
             Append(old, e)[k] = IF k = b.in_offs + 1 THEN e ELSE old[k]
    BY <1>2, <2>1
  <2>4. ASSUME NEW k \in 1 .. b.in_offs + 1
        PROVE  Contents(new)[k] = IF k = b.in_offs + 1 THEN e ELSE old[k]
    <3>1. k - 1 \in Slot
      BY <1>4 DEF Slot
    <3>2. SlotAt(new, k - 1) = k - 1 /\ SlotAt(b, k - 1) = k - 1
      BY <1>1, <1>5, <2>1, <3>1 DEF Slot
    <3>3. Contents(new)[k] = new.entry[k - 1]
      BY <1>3, <2>2, <3>2
    <3>4. new.entry[k - 1] = IF k - 1 = b.in_offs THEN e ELSE b.entry[k - 1]
      BY <1>4, <3>1
    <3>5. CASE k = b.in_offs + 1
      BY <1>4, <3>3, <3>4, <3>5 DEF Slot
    <3>6. CASE k # b.in_offs + 1
      <4>1. old[k] = b.entry[k - 1]
        BY <1>2, <1>4, <2>1, <3>2, <3>6 DEF Slot
      <4> QED BY <1>4, <3>3, <3>4, <3>6, <4>1 DEF Slot
    <3> QED BY <3>5, <3>6
  <2>5. Contents(new) = Append(old, e)
    <3>1. /\ Len(Contents(new)) = Len(Append(old, e))
          /\ Contents(new) \in Seq(E) /\ Append(old, e) \in Seq(E)
      BY <1>3, <2>2, <2>3
    <3>2. \A k \in 1 .. Len(Contents(new)) : Contents(new)[k] = Append(old, e)[k]
      BY <1>3, <2>2, <2>3, <2>4
    <3> QED BY <3>1, <3>2, SeqEqual, Zenon
  <2> QED BY <1>2, <2>1, <2>5 DEF new, old
<1> QED BY <1>6, <1>7 DEF BuffersOf

-----------------------------------------------------------------------------
(* An iteration of a search keeps to the array, and what a search has      *)
(* found is a byte of an entry.                                            *)
LEMMA FindIterationProperties ==
  ASSUME NEW E, \A e \in E : e.size \in Nat \ {0},
         NEW b \in BuffersOf(E),
         NEW s \in Searches, s.at = "searching"
  PROVE  LET next == FindIteration(b, s)
         IN /\ next \in Searches
            /\ next.at = "found" => /\ SlotOf(b, next) \in Slot
                                    /\ b.entry[SlotOf(b, next)] \in E
                                    /\ next.offset < b.entry[SlotOf(b, next)].size
<1> DEFINE idx == SlotOf(b, s)
           size == b.entry[idx].size
           next == FindIteration(b, s)
<1>1. s.i \in Slot /\ s.offset \in Nat /\ b.out_offs \in Slot
  BY DEF Searches, BuffersOf
<1>2. idx \in Slot
  BY <1>1, SlotAtProperties DEF SlotOf
<1>3. b.entry[idx] \in E \cup {NoEntry}
  BY <1>2 DEF BuffersOf
<1>4. size \in Nat /\ (size # 0 => b.entry[idx] \in E)
  BY <1>3 DEF NoEntry
<1> HIDE DEF idx, size, next
<1>5. next = IF size = 0 THEN NoSearch
             ELSE IF s.offset > size - 1
             THEN IF s.i + 1 = Slots THEN NoSearch
                  ELSE [s EXCEPT !.i = @ + 1, !.offset = @ - size]
             ELSE [s EXCEPT !.at = "found"]
  BY DEF next, FindIteration, size, idx
<1>6. CASE next = NoSearch
  BY <1>6, SlotsAssumption DEF NoSearch, Searches, Slot, next
<1>7. CASE /\ next = [s EXCEPT !.i = @ + 1, !.offset = @ - size]
           /\ size # 0 /\ s.offset > size - 1 /\ s.i + 1 # Slots
  <2>1. s.i + 1 \in Slot /\ s.offset - size \in Nat
    BY <1>1, <1>4, <1>7, SlotsAssumption DEF Slot
  <2>2. next.at = "searching" /\ next \in Searches
    BY <1>7, <2>1 DEF Searches
  <2> QED BY <2>2 DEF next
<1>8. CASE /\ next = [s EXCEPT !.at = "found"]
           /\ size # 0 /\ ~(s.offset > size - 1)
  <2>1. next \in Searches /\ next.i = s.i /\ next.offset = s.offset
    BY <1>8 DEF Searches
  <2>2. SlotOf(b, next) = idx
    BY <2>1 DEF SlotOf, SlotAt, idx
  <2> QED BY <1>1, <1>2, <1>4, <1>8, <2>1, <2>2 DEF size, next
<1> QED BY <1>5, <1>6, <1>7, <1>8

=============================================================================
