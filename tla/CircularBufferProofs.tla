------------------------ MODULE CircularBufferProofs ------------------------
(***************************************************************************)
(* Theorems about the state machine of the circular buffer, for every      *)
(* number of slots and every set of entries.                               *)
(***************************************************************************)
EXTENDS CircularBufferSpec, CircularBufferLemmas, SequenceLemmas

(* Every reachable buffer is well typed, and full exactly when its offsets *)
(* meet over slots that all hold entries; a search never leaves the array. *)
THEOREM BufferInvariant == Spec => [](TypeOK /\ OffsetsAgree)
<1>1. Init => TypeOK /\ OffsetsAgree
  BY InitConsistent, SlotsAssumption
     DEF Init, TypeOK, OffsetsAgree, NoSearch, Searches, Slot
<1>2. TypeOK /\ OffsetsAgree /\ [Next]_vars => (TypeOK /\ OffsetsAgree)'
  <2> SUFFICES ASSUME TypeOK, OffsetsAgree, [Next]_vars
               PROVE  (TypeOK /\ OffsetsAgree)'
    OBVIOUS
  <2> USE DEF TypeOK, OffsetsAgree
  <2>1. ASSUME NEW e \in Entries, Add(e)
        PROVE  (TypeOK /\ OffsetsAgree)'
    BY <2>1, AddEntryConsistent, SlotsAssumption
       DEF Add, NoSearch, Searches, Slot
  <2>2. ASSUME NEW offset \in Offsets, Find(offset)
        PROVE  (TypeOK /\ OffsetsAgree)'
    BY <2>2, SlotsAssumption, OffsetsAssumption
       DEF Find, FindEntry, Searches, Slot
  <2>3. CASE Iterate
    BY <2>3, FindIterationProperties, EntriesAssumption DEF Iterate
  <2>4. CASE UNCHANGED vars
    BY <2>4 DEF vars
  <2> QED BY <2>1, <2>2, <2>3, <2>4 DEF Next
<1> QED BY <1>1, <1>2, PTL DEF Spec

(* The buffer implements the bounded log: whatever is added, its contents  *)
(* are the last Slots entries in the order they were added, and a search   *)
(* changes nothing.                                                        *)
THEOREM BufferIsLog == Spec => ImplementsLog
<1>1. Init => Log!Init
  BY InitConsistent DEF Init, Log!Init
<1>2. TypeOK /\ OffsetsAgree /\ [Next]_vars => [Log!Next]_(Contents(buffer))
  <2> SUFFICES ASSUME TypeOK, OffsetsAgree, [Next]_vars
               PROVE  [Log!Next]_(Contents(buffer))
    OBVIOUS
  <2>1. ASSUME NEW e \in Entries, Add(e)
        PROVE  Log!Add(e)
    <3>1. Contents(buffer') = IF Len(Contents(buffer)) = Slots
                              THEN Append(Tail(Contents(buffer)), e)
                              ELSE Append(Contents(buffer), e)
      BY <2>1, AddEntryIsPush DEF Add, TypeOK, OffsetsAgree
    <3>2. Contents(buffer)' = Contents(buffer')
      BY DEF Contents, Count, SlotAt
    <3> QED BY <3>1, <3>2 DEF Log!Add, Log!Push
  <2>2. CASE UNCHANGED buffer
    BY <2>2 DEF Contents, Count, SlotAt
  <2> QED BY <2>1, <2>2 DEF Next, Find, Iterate, vars, Log!Next
<1> QED BY <1>1, <1>2, BufferInvariant, PTL DEF Spec, ImplementsLog, Log!Spec

(* Every variable keeps its type: no offset and no search leaves the array. *)
THEOREM BufferTypes == Spec => []TypeOK
BY BufferInvariant, PTL

-----------------------------------------------------------------------------
(* f lists the bytes of the first 0, 1, ... n entries of s. *)
Summing(s, n, f) ==
  f = [k \in 0 .. n |-> IF k = 0 THEN 0 ELSE f[k - 1] + s[k].size]

(* SizesUpTo is what its recursive definition says. *)
LEMMA SizesProperties ==
  ASSUME NEW E, \A e \in E : e.size \in Nat, NEW s \in Seq(E)
  PROVE  /\ SizesUpTo(s) \in [0 .. Len(s) -> Nat]
         /\ SizesUpTo(s)[0] = 0
         /\ \A k \in 1 .. Len(s) : SizesUpTo(s)[k] = SizesUpTo(s)[k - 1] + s[k].size
<1> DEFINE Good == {n \in Nat : n <= Len(s) => \E f \in [0 .. n -> Nat] : Summing(s, n, f)}
<1>0. Len(s) \in Nat /\ \A k \in 1 .. Len(s) : s[k].size \in Nat
  BY LenProperties, ElementOfSeq
<1>1. 0 \in Good
  <2> DEFINE f == [k \in 0 .. 0 |-> 0]
  <2>1. f \in [0 .. 0 -> Nat] /\ Summing(s, 0, f)
    BY DEF Summing
  <2> QED BY <2>1
<1>2. ASSUME NEW n \in Nat, n \in Good
      PROVE  n + 1 \in Good
  <2> SUFFICES ASSUME n + 1 <= Len(s)
               PROVE  \E g \in [0 .. n + 1 -> Nat] : Summing(s, n + 1, g)
    OBVIOUS
  <2>1. PICK f \in [0 .. n -> Nat] : Summing(s, n, f)
    BY <1>0, <1>2
  <2>2. \A k \in 0 .. n : f[k] = IF k = 0 THEN 0 ELSE f[k - 1] + s[k].size
    BY <2>1 DEF Summing
  <2> DEFINE g == [k \in 0 .. n + 1 |->
                     IF k = n + 1 THEN f[n] + s[n + 1].size ELSE f[k]]
  <2>3. g \in [0 .. n + 1 -> Nat]
    <3>1. f[n] \in Nat /\ s[n + 1].size \in Nat
      BY <1>0
    <3> QED BY <3>1
  <2>4. \A k \in 0 .. n + 1 : g[k] = IF k = 0 THEN 0 ELSE g[k - 1] + s[k].size
    <3> SUFFICES ASSUME NEW k \in 0 .. n + 1
                 PROVE  g[k] = IF k = 0 THEN 0 ELSE g[k - 1] + s[k].size
      OBVIOUS
    <3>1. k # 0 => k - 1 \in 0 .. n /\ g[k - 1] = f[k - 1]
      OBVIOUS
    <3>2. CASE k = n + 1
      BY <3>1, <3>2
    <3>3. CASE k # n + 1
      <4>1. k \in 0 .. n /\ g[k] = f[k]
        BY <3>3
      <4> HIDE DEF g
      <4> QED BY <2>2, <3>1, <4>1
    <3> QED BY <3>2, <3>3
  <2>5. Summing(s, n + 1, g)
    BY <2>4 DEF Summing
  <2> QED BY <2>3, <2>5
<1>3. PICK f \in [0 .. Len(s) -> Nat] : Summing(s, Len(s), f)
  <2> HIDE DEF Good
  <2>1. Nat \subseteq Good
    BY <1>1, <1>2, NaturalInduction
  <2>2. Len(s) \in Good
    BY <1>0, <2>1
  <2> QED BY <1>0, <2>2 DEF Good
<1> DEFINE g == SizesUpTo(s)
<1>4. Summing(s, Len(s), g)
  BY <1>3 DEF SizesUpTo, Summing
<1>5. \A k \in 0 .. Len(s) : g[k] = IF k = 0 THEN 0 ELSE g[k - 1] + s[k].size
  BY <1>4 DEF Summing
<1>6. g = [k \in 0 .. Len(s) |-> g[k]]
  BY <1>4 DEF Summing
<1> HIDE DEF g
<1>7. g[0] = 0 /\ \A k \in 1 .. Len(s) : g[k] = g[k - 1] + s[k].size
  BY <1>0, <1>5
<1>8. \A k \in 0 .. Len(s) : g[k] \in Nat
  <2> DEFINE Natural == {n \in Nat : n <= Len(s) => g[n] \in Nat}
  <2>1. 0 \in Natural
    BY <1>7
  <2>2. ASSUME NEW n \in Nat, n \in Natural
        PROVE  n + 1 \in Natural
    <3> SUFFICES ASSUME n + 1 <= Len(s) PROVE g[n + 1] \in Nat
      OBVIOUS
    <3>1. n + 1 \in 1 .. Len(s) /\ (n + 1) - 1 = n /\ g[n] \in Nat
      BY <1>0, <2>2
    <3> QED BY <1>0, <1>7, <3>1
  <2>3. Nat \subseteq Natural
    <3> HIDE DEF Natural
    <3> QED BY <2>1, <2>2, NaturalInduction
  <2> QED BY <1>0, <2>3
<1> QED BY <1>6, <1>7, <1>8 DEF g

(* What an iteration of a search does, in terms of the entries: past the   *)
(* last one it fails, one that ends before the offset is passed, and any   *)
(* other one is found.                                                     *)
LEMMA IterationPosition ==
  ASSUME TypeOK, OffsetsAgree, FindIsConcatenation, search.at = "searching"
  PROVE  LET s == Contents(buffer)
             next == FindIteration(buffer, search)
         IN /\ next.at = "none" => char_offset >= SizesUpTo(s)[Len(s)]
            /\ next.at # "none" => /\ next.i <= Len(s)
                                   /\ char_offset = SizesUpTo(s)[next.i] + next.offset
            /\ next.at = "found" => /\ next.i < Len(s)
                                    /\ next.offset < s[next.i + 1].size
<1> DEFINE s == Contents(buffer)
           i == search.i
           offset == search.offset
           idx == SlotAt(buffer, i)
           size == buffer.entry[idx].size
           next == FindIteration(buffer, search)
           upTo == SizesUpTo(s)
<1>1. /\ buffer \in BuffersOf(Entries) /\ search \in Searches
      /\ i \in Slot /\ offset \in Nat /\ buffer.out_offs \in Slot
      /\ char_offset \in Nat
  BY DEF TypeOK, Searches, BuffersOf
<1>2. /\ Count(buffer) \in 0 .. Slots
      /\ Count(buffer) = IF buffer.full THEN Slots ELSE buffer.in_offs
      /\ s \in Seq(Entries) /\ Len(s) = Count(buffer)
      /\ \A k \in 1 .. Count(buffer) : s[k] = buffer.entry[SlotAt(buffer, k - 1)]
  BY <1>1, ContentsProperties DEF OffsetsAgree
<1>3. /\ upTo \in [0 .. Len(s) -> Nat]
      /\ \A k \in 1 .. Len(s) : upTo[k] = upTo[k - 1] + s[k].size
  BY <1>2, EntriesAssumption, SizesProperties
<1>4. i <= Len(s) /\ char_offset = upTo[i] + offset
  BY DEF FindIsConcatenation
<1>5. /\ idx \in Slot
      /\ idx = IF buffer.out_offs + i >= Slots THEN buffer.out_offs + i - Slots
                                               ELSE buffer.out_offs + i
  BY <1>1, SlotAtProperties
<1>6. next = IF size = 0 THEN NoSearch
             ELSE IF offset > size - 1
             THEN IF i + 1 = Slots THEN NoSearch
                  ELSE [search EXCEPT !.i = @ + 1, !.offset = @ - size]
             ELSE [search EXCEPT !.at = "found"]
  BY DEF FindIteration, SlotOf
<1>7. i < Len(s) => s[i + 1] = buffer.entry[idx] /\ size \in Nat \ {0}
  <2> SUFFICES ASSUME i < Len(s)
               PROVE  s[i + 1] = buffer.entry[idx] /\ size \in Nat \ {0}
    OBVIOUS
  <2>1. i + 1 \in 1 .. Count(buffer) /\ (i + 1) - 1 = i
    BY <1>1, <1>2 DEF Slot
  <2>2. s[i + 1] = buffer.entry[idx]
    BY <1>2, <2>1
  <2>3. s[i + 1] \in Entries
    BY <1>2, <2>1, ElementOfSeq
  <2> QED BY <2>2, <2>3, EntriesAssumption
<1>8. ~(i < Len(s)) => size = 0
  <2> SUFFICES ASSUME ~(i < Len(s)) PROVE size = 0
    OBVIOUS
  <2>1. i = Len(s) /\ ~buffer.full /\ buffer.in_offs = i
    BY <1>1, <1>2, <1>4, SlotsAssumption DEF Slot
  <2>2. buffer.out_offs = 0 /\ buffer.entry[i] = NoEntry
    BY <1>1, <2>1 DEF OffsetsAgree, OffsetsAgreeOn
  <2>3. idx = i
    <3>1. 0 + i = i /\ ~(0 + i >= Slots)
      BY <1>1, SlotsAssumption DEF Slot
    <3> HIDE DEF idx, i
    <3> QED BY <1>5, <2>2, <3>1
  <2> QED BY <2>2, <2>3 DEF NoEntry
<1> HIDE DEF s, size, idx, next, upTo
<1>9. CASE size = 0
  <2>1. i = Len(s) /\ next = NoSearch
    BY <1>1, <1>2, <1>4, <1>6, <1>7, <1>9 DEF Slot
  <2>2. upTo[i] \in Nat
    BY <1>1, <1>2, <1>3, <1>4 DEF Slot
  <2>3. char_offset >= upTo[Len(s)]
    BY <1>1, <1>4, <2>1, <2>2
  <2> QED BY <2>1, <2>3 DEF NoSearch, next, s, upTo
<1>10. CASE size # 0
  <2>1. i < Len(s) /\ s[i + 1] = buffer.entry[idx] /\ size \in Nat \ {0}
    BY <1>7, <1>8, <1>10
  <2>2. i + 1 \in 1 .. Len(s) /\ (i + 1) - 1 = i
    BY <1>1, <1>2, <2>1 DEF Slot
  <2>3. upTo[i + 1] = upTo[i] + size
    BY <1>3, <2>1, <2>2 DEF size
  <2>4. upTo[i] \in Nat
    BY <1>1, <1>2, <1>3, <2>1 DEF Slot
  <2>5. CASE offset > size - 1 /\ i + 1 = Slots
    <3>1. next = NoSearch /\ Len(s) = i + 1
      BY <1>1, <1>2, <1>6, <1>10, <2>1, <2>5 DEF Slot
    <3>2. char_offset >= upTo[Len(s)]
      BY <1>1, <1>4, <2>1, <2>3, <2>4, <2>5, <3>1
    <3> QED BY <3>1, <3>2 DEF NoSearch, next, s, upTo
  <2>6. CASE offset > size - 1 /\ i + 1 # Slots
    <3>1. next.at = "searching" /\ next.i = i + 1 /\ next.offset = offset - size
      BY <1>1, <1>6, <1>10, <2>6 DEF Searches
    <3>2. next.i <= Len(s) /\ char_offset = upTo[next.i] + next.offset
      BY <1>1, <1>4, <2>1, <2>2, <2>3, <2>4, <3>1
    <3> QED BY <3>1, <3>2 DEF next, s, upTo
  <2>7. CASE ~(offset > size - 1)
    <3>1. next.at = "found" /\ next.i = i /\ next.offset = offset
      BY <1>1, <1>6, <1>10, <2>7 DEF Searches
    <3>2. next.offset < s[next.i + 1].size
      BY <1>1, <2>1, <2>7, <3>1 DEF size
    <3> QED BY <1>4, <2>1, <3>1, <3>2 DEF next, s, upTo
  <2> QED BY <2>5, <2>6, <2>7
<1> QED BY <1>9, <1>10

(* What a search has passed and what is left of its offset add up to the   *)
(* position it was called for, and what it finds is a byte of an entry.    *)
THEOREM SearchIsOverConcatenation == Spec => []FindIsConcatenation
<1>1. Init => FindIsConcatenation
  BY DEF Init, NoSearch, FindIsConcatenation
<1>2. TypeOK /\ OffsetsAgree /\ FindIsConcatenation /\ [Next]_vars
        => FindIsConcatenation'
  <2> SUFFICES ASSUME TypeOK, OffsetsAgree, FindIsConcatenation, [Next]_vars
               PROVE  FindIsConcatenation'
    OBVIOUS
  <2>1. UNCHANGED buffer => Contents(buffer)' = Contents(buffer)
    BY DEF Contents, Count, SlotAt
  <2>2. ASSUME NEW e \in Entries, Add(e)
        PROVE  FindIsConcatenation'
    BY <2>2 DEF Add, NoSearch, FindIsConcatenation
  <2>3. ASSUME NEW offset \in Offsets, Find(offset)
        PROVE  FindIsConcatenation'
    <3>1. /\ Contents(buffer) \in Seq(Entries)
          /\ Len(Contents(buffer)) \in Nat
      BY ContentsProperties, LenProperties DEF TypeOK, OffsetsAgree
    <3>2. SizesUpTo(Contents(buffer))[0] = 0
      BY <3>1, EntriesAssumption, SizesProperties
    <3>3. offset \in Nat /\ 0 + offset = offset
      BY OffsetsAssumption
    <3> QED BY <2>1, <2>3, <3>1, <3>2, <3>3 DEF Find, FindEntry, FindIsConcatenation
  <2>4. CASE Iterate
    BY <2>1, <2>4, IterationPosition DEF Iterate, FindIsConcatenation
  <2>5. CASE UNCHANGED vars
    BY <2>1, <2>5 DEF vars, FindIsConcatenation
  <2> QED BY <2>2, <2>3, <2>4, <2>5 DEF Next
<1> QED BY <1>1, <1>2, BufferInvariant, PTL DEF Spec

(* A search fails only for a position past the last byte. *)
THEOREM SearchFailsPastEnd == Spec => FailsOnlyPastEnd
<1>1. TypeOK /\ OffsetsAgree /\ FindIsConcatenation /\ [Next]_vars
        => [search.at = "searching" /\ search'.at = "none"
              => char_offset >= SizesUpTo(Contents(buffer))[Count(buffer)]]_vars
  <2> SUFFICES ASSUME TypeOK, OffsetsAgree, FindIsConcatenation, Next,
                      search.at = "searching", search'.at = "none"
               PROVE  char_offset >= SizesUpTo(Contents(buffer))[Count(buffer)]
    OBVIOUS
  <2>1. search' = FindIteration(buffer, search)
    BY DEF Next, Add, Find, Iterate
  <2>2. Len(Contents(buffer)) = Count(buffer)
    BY ContentsProperties DEF TypeOK, OffsetsAgree
  <2> QED BY <2>1, <2>2, IterationPosition
<1> QED BY <1>1, BufferInvariant, SearchIsOverConcatenation, PTL
        DEF Spec, FailsOnlyPastEnd

-----------------------------------------------------------------------------
(* The pointers a buffer holds are those of its entries, all different: the *)
(* caller adds no entry behind a pointer that is still there.              *)
PointersDiffer ==
  LET s == Contents(buffer)
  IN \A j, k \in 1 .. Count(buffer) : s[j].buffptr = s[k].buffptr => j = k

(* The only pointer an entry takes out of the buffer is the one handed     *)
(* back to be freed.                                                       *)
LEMMA AddTakesOut ==
  ASSUME TypeOK, OffsetsAgree, PointersDiffer, NEW e \in Entries, Add(e)
  PROVE  /\ PointersDiffer'
         /\ LET before == {Contents(buffer)[k].buffptr : k \in 1 .. Count(buffer)}
                after  == {Contents(buffer)'[k].buffptr : k \in 1 .. Count(buffer)'}
            IN before \ after = IF buffer.full THEN {Overwritten(buffer)} ELSE {}
<1> DEFINE s == Contents(buffer)
           t == Contents(buffer')
           n == Count(buffer)
           m == Count(buffer')
<1>1. /\ n \in 0 .. Slots /\ n = IF buffer.full THEN Slots ELSE buffer.in_offs
      /\ s \in Seq(Entries) /\ Len(s) = n
      /\ \A k \in 1 .. n : s[k] = buffer.entry[SlotAt(buffer, k - 1)]
  BY ContentsProperties DEF TypeOK, OffsetsAgree
<1>2. /\ buffer' \in BuffersOf(Entries) /\ OffsetsAgreeOn(buffer', Entries)
      /\ t = IF Len(s) = Slots THEN Append(Tail(s), e) ELSE Append(s, e)
  BY AddEntryConsistent, AddEntryIsPush DEF Add, TypeOK, OffsetsAgree
<1>3. Len(t) = m /\ m \in 0 .. Slots
  BY <1>2, ContentsProperties
<1>4. \A k \in 1 .. n : s[k].buffptr # e.buffptr
  BY DEF Add
<1>5. \A j, k \in 1 .. n : s[j].buffptr = s[k].buffptr => j = k
  BY DEF PointersDiffer
<1>6. n = Slots <=> buffer.full
  BY <1>1, SlotsAssumption DEF TypeOK, BuffersOf, Slot
<1>7. Contents(buffer)' = t /\ Count(buffer)' = m
  BY DEF Contents, Count, SlotAt
<1>8. n = Slots => n # 0 /\ Overwritten(buffer) = s[1].buffptr
  <2> SUFFICES ASSUME n = Slots PROVE n # 0 /\ Overwritten(buffer) = s[1].buffptr
    OBVIOUS
  <2>1. 0 \in Slot /\ buffer.out_offs \in Slot /\ 1 \in 1 .. n
    BY <1>1, SlotsAssumption DEF Slot, TypeOK, BuffersOf
  <2>2. SlotAt(buffer, 0) = IF buffer.out_offs + 0 >= Slots
                            THEN buffer.out_offs + 0 - Slots ELSE buffer.out_offs + 0
    BY <2>1, SlotAtProperties
  <2>3. SlotAt(buffer, 0) = buffer.out_offs
    BY <2>1, <2>2, SlotsAssumption DEF Slot
  <2> QED BY <1>1, <1>6, <2>1, <2>3 DEF Overwritten
<1> HIDE DEF s, t, n, m
<1>9. CASE n = Slots
  <2>1. /\ m = n /\ t[n] = e
        /\ \A k \in 1 .. n - 1 : t[k] = s[k + 1]
    <3>1. s # << >> /\ Tail(s) \in Seq(Entries) /\ Len(Tail(s)) = n - 1
          /\ \A k \in 1 .. n - 1 : Tail(s)[k] = s[k + 1]
      BY <1>1, <1>8, <1>9, EmptySeq, HeadTailProperties
    <3>2. /\ Len(t) = n /\ t[n] = e
          /\ \A k \in 1 .. n - 1 : t[k] = Tail(s)[k]
      BY <1>1, <1>2, <1>9, <3>1, AppendProperties
    <3> QED BY <1>3, <3>1, <3>2
  <2>2. \A j, k \in 1 .. m : t[j].buffptr = t[k].buffptr => j = k
    <3> SUFFICES ASSUME NEW j \in 1 .. m, NEW k \in 1 .. m, t[j].buffptr = t[k].buffptr
                 PROVE  j = k
      OBVIOUS
    <3>1. \A i \in 1 .. m : i # n => t[i] = s[i + 1] /\ i + 1 \in 1 .. n
      BY <1>1, <2>1
    <3>2. t[n].buffptr = e.buffptr
      BY <2>1
    <3>3. j # n /\ k # n => j = k
      <4> SUFFICES ASSUME j # n, k # n PROVE j = k
        OBVIOUS
      <4>1. j + 1 \in 1 .. n /\ k + 1 \in 1 .. n /\ s[j + 1].buffptr = s[k + 1].buffptr
        BY <3>1
      <4>2. j + 1 = k + 1
        BY <1>5, <4>1
      <4> QED BY <4>2
    <3>4. j = n <=> k = n
      BY <1>4, <3>1, <3>2
    <3> QED BY <3>3, <3>4
  <2>3. {s[k].buffptr : k \in 1 .. n} \ {t[k].buffptr : k \in 1 .. m} = {s[1].buffptr}
    <3>1. \A k \in 1 .. n : k # 1 => s[k].buffptr = t[k - 1].buffptr /\ k - 1 \in 1 .. m
      BY <1>1, <2>1
    <3>2. \A k \in 1 .. m : t[k].buffptr # s[1].buffptr
      <4> SUFFICES ASSUME NEW k \in 1 .. m PROVE t[k].buffptr # s[1].buffptr
        OBVIOUS
      <4>1. CASE k = n
        BY <1>1, <1>4, <1>8, <1>9, <2>1, <4>1
      <4>2. CASE k # n
        BY <1>1, <1>5, <1>8, <1>9, <2>1, <4>2
      <4> QED BY <4>1, <4>2
    <3>3. 1 \in 1 .. n
      BY <1>1, <1>8, <1>9
    <3> QED BY <3>1, <3>2, <3>3
  <2> QED BY <1>6, <1>7, <1>8, <1>9, <2>2, <2>3 DEF PointersDiffer, s, n
<1>10. CASE n # Slots
  <2>1. /\ m = n + 1 /\ t[n + 1] = e
        /\ \A k \in 1 .. n : t[k] = s[k]
    BY <1>1, <1>2, <1>3, <1>10, AppendProperties
  <2>2. \A j, k \in 1 .. m : t[j].buffptr = t[k].buffptr => j = k
    <3> SUFFICES ASSUME NEW j \in 1 .. m, NEW k \in 1 .. m, t[j].buffptr = t[k].buffptr
                 PROVE  j = k
      OBVIOUS
    <3>0. n \in Nat /\ m = n + 1
      BY <1>1, <2>1
    <3>1. \A i \in 1 .. m : i # n + 1 => t[i] = s[i] /\ i \in 1 .. n
      <4>1. \A i \in 1 .. m : i # n + 1 => i \in 1 .. n
        BY <3>0
      <4> QED BY <2>1, <4>1
    <3>2. t[n + 1].buffptr = e.buffptr
      BY <2>1
    <3>3. j # n + 1 /\ k # n + 1 => j = k
      BY <1>1, <1>5, <3>1
    <3>4. j = n + 1 <=> k = n + 1
      BY <1>4, <3>1, <3>2
    <3> QED BY <3>3, <3>4
  <2>3. {s[k].buffptr : k \in 1 .. n} \ {t[k].buffptr : k \in 1 .. m} = {}
    <3>1. \A k \in 1 .. n : k \in 1 .. m
      BY <1>1, <2>1
    <3> QED BY <2>1, <3>1
  <2> QED BY <1>6, <1>7, <1>10, <2>2, <2>3 DEF PointersDiffer, s, n
<1> QED BY <1>9, <1>10

(* The pointer handed back to be freed is no longer in the buffer, and it  *)
(* is the only one that has gone.                                          *)
THEOREM OverwrittenHasLeft == Spec => OnlyOverwrittenLeaves
<1>1. Init => PointersDiffer
  BY InitConsistent DEF Init, PointersDiffer
<1>2. TypeOK /\ OffsetsAgree /\ PointersDiffer /\ [Next]_vars
        => /\ PointersDiffer'
           /\ [LET before == {Contents(buffer)[k].buffptr : k \in 1 .. Count(buffer)}
                   after  == {Contents(buffer)'[k].buffptr : k \in 1 .. Count(buffer)'}
               IN before \ after = IF buffer.full THEN {Overwritten(buffer)}
                                                  ELSE {}]_buffer
  <2>1. UNCHANGED buffer /\ PointersDiffer => PointersDiffer'
    BY DEF PointersDiffer, Contents, Count, SlotAt
  <2>2. [Next]_vars => UNCHANGED buffer \/ \E e \in Entries : Add(e)
    BY DEF Next, Find, Iterate, vars
  <2> QED BY <2>1, <2>2, AddTakesOut
<1> QED BY <1>1, <1>2, BufferInvariant, PTL DEF Spec, OnlyOverwrittenLeaves

=============================================================================
