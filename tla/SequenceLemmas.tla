--------------------------- MODULE SequenceLemmas ---------------------------
(***************************************************************************)
(* Facts about sequences that the proofs of several components need: what   *)
(* FlattenSeq computes, how it grows, and when one sequence is a prefix of  *)
(* another.  FlattenSeq is recursive; induction over its argument is by the *)
(* least element of the set of counterexamples.                             *)
(***************************************************************************)
EXTENDS SequencesExt, SequenceTheorems, WellFoundedInduction, TLAPS

(* A set of natural numbers has a least element. *)
LEMMA LeastNatural ==
  ASSUME NEW S, S \subseteq Nat, S # {}
  PROVE  \E n \in S : \A m \in S : n <= m
<1>1. PICK n \in S : \A m \in S : ~ (<<m, n>> \in OpToRel(<, Nat))
  BY NatLessThanWellFounded, WFMin, Zenon
<1>2. \A m \in S : n <= m
  <2> TAKE m \in S
  <2>1. m \in Nat /\ n \in Nat
    OBVIOUS
  <2>2. m < n => <<m, n>> \in OpToRel(<, Nat)
    BY <2>1 DEF OpToRel
  <2>3. ~ (m < n)
    BY <1>1, <2>2, Zenon
  <2> QED BY <2>1, <2>3
<1> QED BY <1>2

(* Induction, with a set in place of a predicate. *)
LEMMA NaturalInduction ==
  ASSUME NEW S, 0 \in S, \A n \in Nat : n \in S => n + 1 \in S
  PROVE  Nat \subseteq S
<1> SUFFICES ASSUME NEW n \in Nat \ S PROVE FALSE
  OBVIOUS
<1>1. PICK m \in Nat \ S : \A k \in Nat \ S : m <= k
  BY LeastNatural
<1>2. m - 1 \in Nat /\ m - 1 \notin Nat \ S
  BY <1>1
<1> QED BY <1>2

-----------------------------------------------------------------------------
(* g lists what FlattenSeq makes of the first 1, 2, ... n members of seqs. *)
Flattening(seqs, n, g) ==
  g = [i \in 1 .. n |-> IF i = 1 THEN seqs[i] ELSE g[i - 1] \o seqs[i]]

(* Every sequence of sequences has a list of its flattened beginnings.     *)
LEMMA FlatteningExists ==
  ASSUME NEW S, NEW seqs \in Seq(Seq(S))
  PROVE  \E g \in [1 .. Len(seqs) -> Seq(S)] : Flattening(seqs, Len(seqs), g)
<1> DEFINE Good == {n \in Nat : n <= Len(seqs) =>
                                  \E g \in [1 .. n -> Seq(S)] : Flattening(seqs, n, g)}
<1>0. Len(seqs) \in Nat /\ \A i \in 1 .. Len(seqs) : seqs[i] \in Seq(S)
  BY LenProperties, ElementOfSeq
<1>1. 0 \in Good
  <2>1. [i \in 1 .. 0 |-> << >>] \in [1 .. 0 -> Seq(S)]
    OBVIOUS
  <2>2. Flattening(seqs, 0, [i \in 1 .. 0 |-> << >>])
    BY DEF Flattening
  <2> QED BY <2>1, <2>2
<1>2. ASSUME NEW n \in Nat, n \in Good
      PROVE  n + 1 \in Good
  <2> SUFFICES ASSUME n + 1 <= Len(seqs)
               PROVE  \E h \in [1 .. n + 1 -> Seq(S)] : Flattening(seqs, n + 1, h)
    OBVIOUS
  <2>1. PICK g \in [1 .. n -> Seq(S)] : Flattening(seqs, n, g)
    BY <1>0, <1>2
  <2> DEFINE h == [i \in 1 .. n + 1 |->
                     IF i = n + 1 THEN IF i = 1 THEN seqs[i] ELSE g[i - 1] \o seqs[i]
                                  ELSE g[i]]
  <2>2. h \in [1 .. n + 1 -> Seq(S)]
    <3> SUFFICES ASSUME NEW i \in 1 .. n + 1 PROVE h[i] \in Seq(S)
      OBVIOUS
    <3>1. seqs[i] \in Seq(S)
      BY <1>0
    <3>2. CASE i = n + 1 /\ i # 1
      <4>1. g[i - 1] \in Seq(S)
        BY <3>2
      <4>2. g[i - 1] \o seqs[i] \in Seq(S)
        BY <3>1, <4>1, ConcatProperties
      <4> QED BY <3>2, <4>2
    <3> QED BY <3>1, <3>2
  <2>3. \A i \in 1 .. n : g[i] = IF i = 1 THEN seqs[i] ELSE g[i - 1] \o seqs[i]
    BY <2>1 DEF Flattening
  <2>4. \A i \in 1 .. n + 1 : h[i] = IF i = 1 THEN seqs[i] ELSE h[i - 1] \o seqs[i]
    <3> SUFFICES ASSUME NEW i \in 1 .. n + 1
                 PROVE  h[i] = IF i = 1 THEN seqs[i] ELSE h[i - 1] \o seqs[i]
      OBVIOUS
    <3>1. i # 1 => i - 1 \in 1 .. n /\ h[i - 1] = g[i - 1]
      OBVIOUS
    <3>2. CASE i = n + 1
      BY <3>1, <3>2
    <3>3. CASE i # n + 1
      <4>1. i \in 1 .. n /\ h[i] = g[i]
        BY <3>3
      <4>2. g[i] = IF i = 1 THEN seqs[i] ELSE g[i - 1] \o seqs[i]
        BY <2>3, <4>1
      <4> HIDE DEF h
      <4> QED BY <3>1, <4>1, <4>2
    <3> QED BY <3>2, <3>3
  <2>5. Flattening(seqs, n + 1, h)
    BY <2>4 DEF Flattening
  <2> QED BY <2>2, <2>5
<1>3. Len(seqs) \in Good
  <2> HIDE DEF Good
  <2>1. Nat \subseteq Good
    BY <1>1, <1>2, NaturalInduction
  <2> QED BY <1>0, <2>1
<1> QED BY <1>0, <1>3

(* There is one such list, so FlattenSeq is its last member. *)
LEMMA FlatteningUnique ==
  ASSUME NEW seqs, NEW N \in Nat, NEW g, NEW h,
         Flattening(seqs, N, g), Flattening(seqs, N, h)
  PROVE  \A i \in 1 .. N : g[i] = h[i]
<1> DEFINE Same == {n \in Nat : n \in 1 .. N => g[n] = h[n]}
<1>0. \A i \in 1 .. N : /\ g[i] = IF i = 1 THEN seqs[i] ELSE g[i - 1] \o seqs[i]
                        /\ h[i] = IF i = 1 THEN seqs[i] ELSE h[i - 1] \o seqs[i]
  BY DEF Flattening
<1>1. 0 \in Same
  OBVIOUS
<1>2. ASSUME NEW n \in Nat, n \in Same
      PROVE  n + 1 \in Same
  <2> SUFFICES ASSUME n + 1 \in 1 .. N PROVE g[n + 1] = h[n + 1]
    OBVIOUS
  <2>1. CASE n = 0
    BY <1>0, <2>1
  <2>2. CASE n # 0
    <3>1. n \in 1 .. N /\ (n + 1) - 1 = n /\ n + 1 # 1
      BY <2>2
    <3>2. g[n] = h[n]
      BY <1>2, <3>1
    <3>3. g[n + 1] = g[n] \o seqs[n + 1] /\ h[n + 1] = h[n] \o seqs[n + 1]
      BY <1>0, <3>1
    <3> QED BY <3>2, <3>3
  <2> QED BY <2>1, <2>2
<1>3. Nat \subseteq Same
  <2> HIDE DEF Same
  <2> QED BY <1>1, <1>2, NaturalInduction
<1> QED BY <1>3

(* FlattenSeq is the last element of such a list, whichever one it is.     *)
LEMMA FlattenSeqIsLast ==
  ASSUME NEW seqs, Len(seqs) \in Nat \ {0}, NEW g, Flattening(seqs, Len(seqs), g)
  PROVE  FlattenSeq(seqs) = g[Len(seqs)]
<1>1. PICK h : Flattening(seqs, Len(seqs), h) /\ FlattenSeq(seqs) = h[Len(seqs)]
  BY DEF FlattenSeq, Flattening
<1> QED BY <1>1, FlatteningUnique

-----------------------------------------------------------------------------
(* The lines of a log laid end to end: nothing for an empty log, and what  *)
(* it was followed by the new line for one that has grown.                 *)
LEMMA FlattenProperties ==
  ASSUME NEW S, NEW seqs \in Seq(Seq(S))
  PROVE  /\ FlattenSeq(seqs) \in Seq(S)
         /\ Len(FlattenSeq(seqs)) \in Nat
         /\ seqs = << >> => FlattenSeq(seqs) = << >>
<1>1. Len(seqs) \in Nat
  BY LenProperties
<1>2. CASE Len(seqs) = 0
  <2>1. seqs = << >> /\ FlattenSeq(seqs) = << >>
    BY <1>2, EmptySeq DEF FlattenSeq
  <2> QED BY <2>1, EmptySeq
<1>3. CASE Len(seqs) # 0
  <2>1. PICK g \in [1 .. Len(seqs) -> Seq(S)] : Flattening(seqs, Len(seqs), g)
    BY FlatteningExists
  <2>2. FlattenSeq(seqs) = g[Len(seqs)]
    BY <1>1, <1>3, <2>1, FlattenSeqIsLast
  <2>3. FlattenSeq(seqs) \in Seq(S)
    <3>1. Len(seqs) \in 1 .. Len(seqs)
      BY <1>1, <1>3
    <3> QED BY <2>2, <3>1
  <2> QED BY <1>3, <2>3, LenProperties, EmptySeq
<1> QED BY <1>2, <1>3

(* A sequence put behind the others ends up behind their elements.         *)
LEMMA FlattenAppend ==
  ASSUME NEW S, NEW seqs \in Seq(Seq(S)), NEW s \in Seq(S)
  PROVE  /\ FlattenSeq(Append(seqs, s)) = FlattenSeq(seqs) \o s
         /\ FlattenSeq(Append(seqs, s)) \in Seq(S)
         /\ Len(FlattenSeq(Append(seqs, s))) = Len(FlattenSeq(seqs)) + Len(s)
<1> DEFINE more == Append(seqs, s)
           n == Len(seqs)
<1>1. /\ n \in Nat
      /\ more \in Seq(Seq(S)) /\ Len(more) = n + 1
      /\ \A i \in 1 .. n : more[i] = seqs[i]
      /\ more[n + 1] = s
  BY LenProperties, AppendProperties
<1>2. FlattenSeq(seqs) \in Seq(S)
  BY FlattenProperties
<1>3. FlattenSeq(more) = FlattenSeq(seqs) \o s
  <2>1. PICK g \in [1 .. n + 1 -> Seq(S)] : Flattening(more, n + 1, g)
    <3> HIDE DEF more, n
    <3>1. \E g \in [1 .. Len(more) -> Seq(S)] : Flattening(more, Len(more), g)
      BY <1>1, FlatteningExists
    <3> QED BY <1>1, <3>1
  <2>2. FlattenSeq(more) = g[n + 1]
    <3>1. Len(more) \in Nat \ {0}
      BY <1>1
    <3> HIDE DEF more
    <3> QED BY <1>1, <2>1, <3>1, FlattenSeqIsLast
  <2>3. \A i \in 1 .. n + 1 : g[i] = IF i = 1 THEN more[i] ELSE g[i - 1] \o more[i]
    BY <2>1 DEF Flattening
  <2>4. CASE n = 0
    <3>1. g[n + 1] = s
      BY <1>1, <2>3, <2>4
    <3>2. FlattenSeq(seqs) = << >>
      BY <2>4, EmptySeq DEF FlattenSeq
    <3> QED BY <2>2, <3>1, <3>2, ConcatEmptySeq
  <2>5. CASE n # 0
    <3> DEFINE h == [i \in 1 .. n |-> g[i]]
    <3>1. \A i \in 1 .. n : h[i] = IF i = 1 THEN seqs[i] ELSE h[i - 1] \o seqs[i]
      <4> SUFFICES ASSUME NEW i \in 1 .. n
                   PROVE  h[i] = IF i = 1 THEN seqs[i] ELSE h[i - 1] \o seqs[i]
        OBVIOUS
      <4>1. i # 1 => h[i - 1] = g[i - 1]
        OBVIOUS
      <4>2. h[i] = g[i] /\ i \in 1 .. n + 1 /\ more[i] = seqs[i]
        BY <1>1
      <4>3. g[i] = IF i = 1 THEN more[i] ELSE g[i - 1] \o more[i]
        BY <2>3, <4>2
      <4> HIDE DEF h, more
      <4> QED BY <4>1, <4>2, <4>3
    <3>2. Flattening(seqs, n, h)
      BY <3>1 DEF Flattening
    <3>3. FlattenSeq(seqs) = g[n]
      BY <1>1, <2>5, <3>2, FlattenSeqIsLast
    <3>4. g[n + 1] = g[n] \o s
      <4>1. n + 1 \in 1 .. n + 1 /\ n + 1 # 1 /\ (n + 1) - 1 = n
        BY <1>1, <2>5
      <4>2. g[n + 1] = g[(n + 1) - 1] \o more[n + 1]
        BY <2>3, <4>1
      <4> QED BY <1>1, <4>1, <4>2
    <3> QED BY <2>2, <3>3, <3>4
  <2> QED BY <2>4, <2>5
<1> QED BY <1>2, <1>3, ConcatProperties

-----------------------------------------------------------------------------
(* Where the lines of a log begin when they are laid end to end: each one  *)
(* where the one before it ends.                                           *)
LineStart(seqs, i) == Len(FlattenSeq(SubSeq(seqs, 1, i)))

(* A line starts where the one before it ends.                             *)
LEMMA StartNext ==
  ASSUME NEW S, NEW seqs \in Seq(Seq(S)), NEW i \in 0 .. Len(seqs)
  PROVE  /\ SubSeq(seqs, 1, i) \in Seq(Seq(S))
         /\ LineStart(seqs, i) \in Nat
         /\ i = 0 => LineStart(seqs, i) = 0
         /\ i < Len(seqs) =>
              /\ seqs[i + 1] \in Seq(S)
              /\ LineStart(seqs, i + 1) = LineStart(seqs, i) + Len(seqs[i + 1])
<1>0. Len(seqs) \in Nat
  BY LenProperties
<1>1. /\ SubSeq(seqs, 1, i) \in Seq(Seq(S))
      /\ Len(SubSeq(seqs, 1, i)) = i
      /\ \A j \in 1 .. i : SubSeq(seqs, 1, i)[j] = seqs[j]
  <2>1. \A j \in 1 .. i : seqs[j] \in Seq(S)
    BY <1>0, ElementOfSeq
  <2> QED BY <1>0, <2>1, SubSeqProperties
<1>2. LineStart(seqs, i) \in Nat
  BY <1>1, FlattenProperties DEF LineStart
<1>3. i = 0 => LineStart(seqs, i) = 0
  <2> SUFFICES ASSUME i = 0 PROVE LineStart(seqs, i) = 0
    OBVIOUS
  <2>1. SubSeq(seqs, 1, i) = << >>
    BY <1>1, EmptySeq
  <2>2. FlattenSeq(SubSeq(seqs, 1, i)) = << >>
    BY <1>1, <2>1, FlattenProperties
  <2> QED BY <2>2, EmptySeq DEF LineStart
<1>4. ASSUME i < Len(seqs)
      PROVE  /\ seqs[i + 1] \in Seq(S)
             /\ LineStart(seqs, i + 1) = LineStart(seqs, i) + Len(seqs[i + 1])
  <2>1. i + 1 \in 1 .. Len(seqs) /\ (i + 1) - 1 = i /\ 1 \in 1 .. Len(seqs)
    BY <1>0, <1>4
  <2>2. seqs[i + 1] \in Seq(S)
    BY <2>1, ElementOfSeq
  <2>3. SubSeq(seqs, 1, i + 1) = SubSeq(seqs, 1, i) \o << seqs[i + 1] >>
    BY <2>1, SubSeqRecursiveSecond
  <2>4. SubSeq(seqs, 1, i + 1) = Append(SubSeq(seqs, 1, i), seqs[i + 1])
    BY <1>1, <2>2, <2>3, AppendIsConcat
  <2> QED BY <1>1, <2>2, <2>4, FlattenAppend DEF LineStart
<1> QED BY <1>1, <1>2, <1>3, <1>4

(* Later lines start no earlier.                                           *)
LEMMA StartMonotonic ==
  ASSUME NEW S, NEW seqs \in Seq(Seq(S)),
         NEW i \in 0 .. Len(seqs), NEW j \in i .. Len(seqs)
  PROVE  LineStart(seqs, i) <= LineStart(seqs, j)
<1> DEFINE Good == {n \in Nat : i + n <= Len(seqs) =>
                                  LineStart(seqs, i) <= LineStart(seqs, i + n)}
<1>0. Len(seqs) \in Nat
  BY LenProperties
<1>1. 0 \in Good
  BY <1>0, StartNext
<1>2. ASSUME NEW n \in Nat, n \in Good
      PROVE  n + 1 \in Good
  <2> SUFFICES ASSUME i + (n + 1) <= Len(seqs)
               PROVE  LineStart(seqs, i) <= LineStart(seqs, i + (n + 1))
    OBVIOUS
  <2>1. /\ i + n \in 0 .. Len(seqs) /\ i + n < Len(seqs)
        /\ (i + n) + 1 = i + (n + 1)
    BY <1>0
  <2>2. LineStart(seqs, i) <= LineStart(seqs, i + n)
    BY <1>2, <2>1
  <2>3. /\ seqs[(i + n) + 1] \in Seq(S)
        /\ LineStart(seqs, (i + n) + 1) = LineStart(seqs, i + n) + Len(seqs[(i + n) + 1])
    BY <2>1, StartNext
  <2>4. Len(seqs[(i + n) + 1]) \in Nat
    BY <2>3, LenProperties
  <2>5. LineStart(seqs, i) \in Nat /\ LineStart(seqs, i + n) \in Nat
    BY <2>1, StartNext
  <2> QED BY <2>1, <2>2, <2>3, <2>4, <2>5
<1>3. Nat \subseteq Good
  <2> HIDE DEF Good
  <2> QED BY <1>1, <1>2, NaturalInduction
<1>4. j - i \in Nat /\ i + (j - i) = j
  BY <1>0
<1>5. j - i \in Good
  <2> HIDE DEF Good
  <2> QED BY <1>3, <1>4
<1> QED BY <1>0, <1>4, <1>5

(* A position falls into one line, or into none when it is past the end.   *)
LinesAt(seqs, pos) ==
  {i \in 1 .. Len(seqs) : /\ LineStart(seqs, i - 1) <= pos
                          /\ pos < LineStart(seqs, i - 1) + Len(seqs[i])}

(* At most one line holds a position, and none holds one past the end.     *)
LEMMA LineAtPosition ==
  ASSUME NEW S, NEW seqs \in Seq(Seq(S)), NEW pos \in Nat
  PROVE  /\ \A i \in LinesAt(seqs, pos) : LinesAt(seqs, pos) = {i}
         /\ pos >= LineStart(seqs, Len(seqs)) => LinesAt(seqs, pos) = {}
<1>0. Len(seqs) \in Nat
  BY LenProperties
<1>1. ASSUME NEW i \in 1 .. Len(seqs)
      PROVE  /\ i - 1 \in 0 .. Len(seqs) /\ i \in 0 .. Len(seqs)
             /\ LineStart(seqs, i - 1) \in Nat /\ LineStart(seqs, i) \in Nat
             /\ LineStart(seqs, i - 1) + Len(seqs[i]) = LineStart(seqs, i)
  <2>1. i - 1 \in 0 .. Len(seqs) /\ i - 1 < Len(seqs) /\ (i - 1) + 1 = i
    BY <1>0
  <2>2. i \in 0 .. Len(seqs)
    BY <1>0
  <2> QED BY <2>1, <2>2, StartNext
<1>2. ASSUME NEW i \in LinesAt(seqs, pos), NEW j \in LinesAt(seqs, pos), i < j
      PROVE  FALSE
  <2>1. i \in 1 .. Len(seqs) /\ j \in 1 .. Len(seqs)
    BY DEF LinesAt
  <2>2. pos < LineStart(seqs, i) /\ LineStart(seqs, j - 1) <= pos
    BY <1>1, <2>1 DEF LinesAt
  <2>3. j - 1 \in i .. Len(seqs)
    BY <1>0, <1>2, <2>1
  <2>4. LineStart(seqs, i) <= LineStart(seqs, j - 1)
    BY <1>1, <2>1, <2>3, StartMonotonic
  <2> QED BY <1>1, <2>1, <2>2, <2>4
<1>3. \A i \in LinesAt(seqs, pos) : LinesAt(seqs, pos) = {i}
  <2> SUFFICES ASSUME NEW i \in LinesAt(seqs, pos), NEW j \in LinesAt(seqs, pos)
               PROVE  i = j
    OBVIOUS
  <2>1. i \in Int /\ j \in Int
    BY DEF LinesAt
  <2>2. ~ (i < j) /\ ~ (j < i)
    BY <1>2
  <2> QED BY <2>1, <2>2
<1>4. ASSUME pos >= LineStart(seqs, Len(seqs)), NEW i \in LinesAt(seqs, pos)
      PROVE  FALSE
  <2>1. i \in 1 .. Len(seqs) /\ pos < LineStart(seqs, i)
    BY <1>1 DEF LinesAt
  <2>2. Len(seqs) \in i .. Len(seqs) /\ Len(seqs) \in 0 .. Len(seqs)
    BY <1>0, <2>1
  <2>3. LineStart(seqs, i) <= LineStart(seqs, Len(seqs))
    BY <1>1, <2>1, <2>2, StartMonotonic
  <2>4. LineStart(seqs, Len(seqs)) \in Nat
    BY <2>2, StartNext
  <2> QED BY <1>1, <1>4, <2>1, <2>3, <2>4
<1> QED BY <1>3, <1>4

-----------------------------------------------------------------------------
(* The first bytes of the rest of a line are bytes from its middle. *)
LEMMA SubSeqOfRest ==
  ASSUME NEW S, NEW s \in Seq(S), NEW o \in 0 .. Len(s), NEW k \in 0 .. Len(s) - o
  PROVE  /\ SubSeq(s, o + 1, Len(s)) \in Seq(S)
         /\ Len(SubSeq(s, o + 1, Len(s))) = Len(s) - o
         /\ SubSeq(SubSeq(s, o + 1, Len(s)), 1, k) = SubSeq(s, o + 1, o + k)
<1> DEFINE rest == SubSeq(s, o + 1, Len(s))
           part == SubSeq(s, o + 1, o + k)
<1>0. Len(s) \in Nat /\ \A i \in 1 .. Len(s) : s[i] \in S
  BY LenProperties, ElementOfSeq
<1>1. /\ rest \in Seq(S)
      /\ Len(rest) = Len(s) - o
      /\ \A i \in 1 .. Len(s) - o : rest[i] = s[o + i]
  <2>1. /\ o + 1 \in Int
        /\ \A i \in o + 1 .. Len(s) : s[i] \in S
    BY <1>0
  <2>2. /\ rest \in Seq(S)
        /\ Len(rest) = IF o + 1 <= Len(s) THEN Len(s) - (o + 1) + 1 ELSE 0
        /\ \A i \in 1 .. Len(s) - (o + 1) + 1 : rest[i] = s[(o + 1) + i - 1]
    BY <1>0, <2>1, SubSeqProperties
  <2> HIDE DEF rest
  <2> QED BY <1>0, <2>2
<1>2. /\ part \in Seq(S)
      /\ Len(part) = k
      /\ \A i \in 1 .. k : part[i] = s[o + i]
  <2>1. /\ o + 1 \in Int /\ o + k \in Int
        /\ \A i \in o + 1 .. o + k : s[i] \in S
    BY <1>0
  <2>2. /\ part \in Seq(S)
        /\ Len(part) = IF o + 1 <= o + k THEN (o + k) - (o + 1) + 1 ELSE 0
        /\ \A i \in 1 .. (o + k) - (o + 1) + 1 : part[i] = s[(o + 1) + i - 1]
    BY <1>0, <2>1, SubSeqProperties
  <2> HIDE DEF part
  <2> QED BY <1>0, <2>2
<1> HIDE DEF rest, part
<1>3. /\ SubSeq(rest, 1, k) \in Seq(S)
      /\ Len(SubSeq(rest, 1, k)) = k
      /\ \A i \in 1 .. k : SubSeq(rest, 1, k)[i] = rest[i]
  <2>1. \A i \in 1 .. k : rest[i] \in S
    BY <1>0, <1>1, ElementOfSeq
  <2> QED BY <1>0, <2>1, SubSeqProperties
<1>4. SubSeq(rest, 1, k) = part
  <2>1. ASSUME NEW i \in 1 .. k
        PROVE  SubSeq(rest, 1, k)[i] = part[i]
    <3>1. i \in 1 .. Len(s) - o
      BY <1>0
    <3>2. rest[i] = s[o + i]
      BY <1>1, <3>1
    <3>3. part[i] = s[o + i] /\ SubSeq(rest, 1, k)[i] = rest[i]
      BY <1>2, <1>3
    <3> QED BY <3>2, <3>3
  <2> QED BY <1>2, <1>3, <2>1, SeqEqual
<1> QED BY <1>1, <1>4 DEF rest, part

-----------------------------------------------------------------------------
(* The first lines of a log, laid end to end: the next line comes after    *)
(* them.                                                                   *)
LEMMA FirstLinesNext ==
  ASSUME NEW S, NEW seqs \in Seq(Seq(S)), NEW i \in 0 .. Len(seqs) - 1
  PROVE  /\ seqs[i + 1] \in Seq(S)
         /\ FlattenSeq(SubSeq(seqs, 1, i)) \in Seq(S)
         /\ FlattenSeq(SubSeq(seqs, 1, i + 1)) = FlattenSeq(SubSeq(seqs, 1, i)) \o seqs[i + 1]
<1>1. /\ Len(seqs) \in Nat
      /\ i + 1 \in 1 .. Len(seqs) /\ (i + 1) - 1 = i /\ 1 \in 1 .. Len(seqs)
      /\ i \in 0 .. Len(seqs)
  BY LenProperties
<1>2. seqs[i + 1] \in Seq(S) /\ SubSeq(seqs, 1, i) \in Seq(Seq(S))
  BY <1>1, ElementOfSeq, StartNext
<1>3. SubSeq(seqs, 1, i + 1) = SubSeq(seqs, 1, i) \o << seqs[i + 1] >>
  BY <1>1, SubSeqRecursiveSecond
<1>4. SubSeq(seqs, 1, i + 1) = Append(SubSeq(seqs, 1, i), seqs[i + 1])
  BY <1>2, <1>3, AppendIsConcat
<1> QED BY <1>2, <1>4, FlattenAppend, FlattenProperties

(* More lines change nothing in what comes before them. *)
LEMMA FirstLinesStay ==
  ASSUME NEW S, NEW seqs \in Seq(Seq(S)),
         NEW i \in 0 .. Len(seqs), NEW j \in i .. Len(seqs)
  PROVE  \A p \in 1 .. LineStart(seqs, i) :
           FlattenSeq(SubSeq(seqs, 1, j))[p] = FlattenSeq(SubSeq(seqs, 1, i))[p]
<1> DEFINE F(n) == FlattenSeq(SubSeq(seqs, 1, n))
           Good == {n \in Nat : i + n <= Len(seqs) =>
                                  \A p \in 1 .. LineStart(seqs, i) : F(i + n)[p] = F(i)[p]}
<1>0. Len(seqs) \in Nat /\ LineStart(seqs, i) \in Nat
  BY LenProperties, StartNext
<1>1. 0 \in Good
  OBVIOUS
<1>2. ASSUME NEW n \in Nat, n \in Good
      PROVE  n + 1 \in Good
  <2> SUFFICES ASSUME i + (n + 1) <= Len(seqs), NEW p \in 1 .. LineStart(seqs, i)
               PROVE  F(i + (n + 1))[p] = F(i)[p]
    OBVIOUS
  <2>1. i + n \in i .. Len(seqs) /\ i + n \in 0 .. Len(seqs) - 1 /\ i + (n + 1) = (i + n) + 1
    BY <1>0
  <2>2. F(i + n)[p] = F(i)[p]
    BY <1>2, <2>1
  <2>3. /\ F((i + n) + 1) = F(i + n) \o seqs[(i + n) + 1]
        /\ F(i + n) \in Seq(S) /\ seqs[(i + n) + 1] \in Seq(S)
    BY <2>1, FirstLinesNext
  <2>4. LineStart(seqs, i) <= Len(F(i + n)) /\ Len(F(i + n)) \in Nat
    BY <2>1, <2>3, StartMonotonic, LenProperties DEF LineStart
  <2> HIDE DEF F
  <2>5. Len(seqs[(i + n) + 1]) \in Nat
    BY <2>3, LenProperties
  <2>6. p \in 1 .. Len(F(i + n)) + Len(seqs[(i + n) + 1]) /\ p <= Len(F(i + n))
    <3> DEFINE a == Len(F(i + n))
               b == Len(seqs[(i + n) + 1])
               c == LineStart(seqs, i)
    <3>1. a \in Nat /\ b \in Nat /\ c \in Nat /\ c <= a /\ p \in 1 .. c
      BY <1>0, <2>4, <2>5
    <3> HIDE DEF a, b, c
    <3>2. p \in 1 .. a + b /\ p <= a
      BY <3>1
    <3> QED BY <3>2 DEF a, b
  <2>7. F((i + n) + 1)[p] = F(i + n)[p]
    BY <2>3, <2>6, ConcatProperties
  <2> QED BY <2>1, <2>2, <2>7
<1>3. j - i \in Good
  <2> HIDE DEF Good
  <2>1. Nat \subseteq Good
    BY <1>1, <1>2, NaturalInduction
  <2> QED BY <1>0, <2>1
<1> QED BY <1>0, <1>3

(* The bytes of a line, in the log laid end to end. *)
LEMMA BytesOfLine ==
  ASSUME NEW S, NEW seqs \in Seq(Seq(S)),
         NEW i \in 1 .. Len(seqs), NEW j \in 1 .. Len(seqs[i])
  PROVE  /\ LineStart(seqs, i - 1) + j \in 1 .. Len(FlattenSeq(seqs))
         /\ FlattenSeq(seqs)[LineStart(seqs, i - 1) + j] = seqs[i][j]
<1> DEFINE F(n) == FlattenSeq(SubSeq(seqs, 1, n))
           k == i - 1
           at == LineStart(seqs, k) + j
<1>1. /\ Len(seqs) \in Nat /\ k + 1 = i /\ k \in 0 .. Len(seqs) - 1
      /\ i \in 0 .. Len(seqs) /\ Len(seqs) \in i .. Len(seqs)
      /\ SubSeq(seqs, 1, Len(seqs)) = seqs
  BY LenProperties, SubSeqFull
<1>2. /\ seqs[i] \in Seq(S) /\ F(k) \in Seq(S) /\ F(i) = F(k) \o seqs[i]
  BY <1>1, FirstLinesNext
<1>3. /\ Len(seqs[i]) \in Nat /\ Len(F(k)) \in Nat /\ LineStart(seqs, k) = Len(F(k))
      /\ LineStart(seqs, i) = Len(F(i)) /\ Len(F(i)) = Len(F(k)) + Len(seqs[i])
  BY <1>2, LenProperties, ConcatProperties DEF LineStart
<1>4. /\ LineStart(seqs, i) <= LineStart(seqs, Len(seqs))
      /\ LineStart(seqs, Len(seqs)) = Len(FlattenSeq(seqs))
      /\ Len(FlattenSeq(seqs)) \in Nat
  BY <1>1, StartMonotonic, FlattenProperties DEF LineStart
<1>5. \A p \in 1 .. LineStart(seqs, i) : FlattenSeq(seqs)[p] = F(i)[p]
  BY <1>1, FirstLinesStay
<1> HIDE DEF F, k
<1>6. /\ at \in 1 .. LineStart(seqs, i) /\ at \in 1 .. Len(F(k)) + Len(seqs[i])
      /\ ~(at <= Len(F(k))) /\ at - Len(F(k)) = j
  BY <1>3
<1>7. F(i)[at] = seqs[i][j]
  BY <1>2, <1>6, ConcatProperties
<1>8. at \in 1 .. Len(FlattenSeq(seqs)) /\ FlattenSeq(seqs)[at] = seqs[i][j]
  BY <1>3, <1>4, <1>5, <1>6, <1>7
<1> QED BY <1>8 DEF k

(* From a position to the end of the line it falls into. *)
RestAt(seqs, pos) ==
  LET i == CHOOSE i \in LinesAt(seqs, pos) : TRUE
  IN IF LinesAt(seqs, pos) = {} THEN << >>
     ELSE SubSeq(seqs[i], pos - LineStart(seqs, i - 1) + 1, Len(seqs[i]))

(* What is left of a line is a sequence of elements, empty past the end.   *)
LEMMA RestAtIsSeq ==
  ASSUME NEW S, NEW seqs \in Seq(Seq(S)), NEW pos \in Nat
  PROVE  RestAt(seqs, pos) \in Seq(S) /\ Len(RestAt(seqs, pos)) \in Nat
<1> DEFINE i == CHOOSE i \in LinesAt(seqs, pos) : TRUE
<1>1. CASE LinesAt(seqs, pos) = {}
  BY <1>1, EmptySeq DEF RestAt
<1>2. CASE LinesAt(seqs, pos) # {}
  <2> DEFINE from == pos - LineStart(seqs, i - 1) + 1
  <2>1. i \in 1 .. Len(seqs) /\ LineStart(seqs, i - 1) <= pos
    BY <1>2 DEF LinesAt
  <2>2. RestAt(seqs, pos) = SubSeq(seqs[i], from, Len(seqs[i]))
    BY <1>2 DEF RestAt
  <2> HIDE DEF i
  <2>3. /\ i - 1 \in 0 .. Len(seqs) /\ seqs[i] \in Seq(S)
    BY <2>1, LenProperties, ElementOfSeq
  <2>4. /\ Len(seqs[i]) \in Nat /\ LineStart(seqs, i - 1) \in Nat
        /\ \A j \in 1 .. Len(seqs[i]) : seqs[i][j] \in S
    BY <2>3, LenProperties, ElementOfSeq, StartNext
  <2>5. from \in Nat /\ from >= 1
    BY <2>1, <2>4
  <2> HIDE DEF from
  <2>6. \A j \in from .. Len(seqs[i]) : seqs[i][j] \in S
    BY <2>4, <2>5
  <2>7. SubSeq(seqs[i], from, Len(seqs[i])) \in Seq(S)
    BY <2>4, <2>5, <2>6, SubSeqProperties
  <2> QED BY <2>2, <2>7, LenProperties
<1> QED BY <1>1, <1>2

(* A read goes on where the last one stopped: what it returns are the next *)
(* bytes of the log laid end to end.                                       *)
LEMMA ReadGoesOn ==
  ASSUME NEW S, NEW seqs \in Seq(Seq(S)), NEW pos \in 0 .. Len(FlattenSeq(seqs)),
         NEW k \in 0 .. Len(RestAt(seqs, pos))
  PROVE  /\ RestAt(seqs, pos) \in Seq(S)
         /\ pos + k <= Len(FlattenSeq(seqs))
         /\ SubSeq(RestAt(seqs, pos), 1, k) \in Seq(S)
         /\ Len(SubSeq(RestAt(seqs, pos), 1, k)) = k
         /\ SubSeq(FlattenSeq(seqs), 1, pos) \o SubSeq(RestAt(seqs, pos), 1, k)
              = SubSeq(FlattenSeq(seqs), 1, pos + k)
<1> DEFINE D == FlattenSeq(seqs)
<1>0. Len(seqs) \in Nat /\ D \in Seq(S) /\ Len(D) \in Nat
  BY LenProperties, FlattenProperties
<1>1. CASE LinesAt(seqs, pos) = {}
  <2>1. RestAt(seqs, pos) = << >> /\ Len(<< >>) = 0 /\ << >> \in Seq(S)
    BY <1>1, EmptySeq DEF RestAt
  <2>2. k = 0 /\ pos + k = pos
    BY <1>0, <2>1
  <2>3. SubSeq(<< >>, 1, 0) = << >>
    BY SubSeqEmpty
  <2>4. SubSeq(D, 1, pos) \in Seq(S)
    BY <1>0, SubSeqRestrict, SubSeqProperties, ElementOfSeq
  <2>5. SubSeq(D, 1, pos) \o << >> = SubSeq(D, 1, pos)
    BY <2>4, ConcatEmptySeq
  <2> HIDE DEF D
  <2> QED BY <1>0, <2>1, <2>2, <2>3, <2>5 DEF D
<1>2. ASSUME NEW i \in LinesAt(seqs, pos)
      PROVE  /\ RestAt(seqs, pos) \in Seq(S)
             /\ pos + k <= Len(D)
             /\ SubSeq(RestAt(seqs, pos), 1, k) \in Seq(S)
             /\ Len(SubSeq(RestAt(seqs, pos), 1, k)) = k
             /\ SubSeq(D, 1, pos) \o SubSeq(RestAt(seqs, pos), 1, k) = SubSeq(D, 1, pos + k)
  <2> DEFINE line == seqs[i]
             o == pos - LineStart(seqs, i - 1)
             rest == RestAt(seqs, pos)
             part == SubSeq(rest, 1, k)
  <2>1. /\ i \in 1 .. Len(seqs) /\ LineStart(seqs, i - 1) <= pos
        /\ pos < LineStart(seqs, i - 1) + Len(line)
    BY DEF LinesAt
  <2>2. LineStart(seqs, i - 1) \in Nat /\ line \in Seq(S) /\ Len(line) \in Nat
    BY <1>0, <2>1, StartNext, ElementOfSeq, LenProperties
  <2>3. LinesAt(seqs, pos) = {i}
    BY <1>0, LineAtPosition
  <2>4. rest = SubSeq(line, o + 1, Len(line))
    BY <2>3 DEF RestAt
  <2> HIDE DEF line, rest, D
  <2>5. o \in 0 .. Len(line) /\ o \in Nat /\ pos = LineStart(seqs, i - 1) + o
    BY <1>0, <2>1, <2>2
  <2> HIDE DEF o
  <2>6. rest \in Seq(S) /\ Len(rest) = Len(line) - o
    BY <2>2, <2>4, <2>5, SubSeqOfRest
  <2>7. k \in 0 .. Len(line) - o /\ k \in 0 .. Len(rest)
    BY <2>6 DEF rest
  <2>8. part = SubSeq(line, o + 1, o + k)
    BY <2>2, <2>4, <2>5, <2>7, SubSeqOfRest
  <2>9. part \in Seq(S) /\ Len(part) = k /\ \A j \in 1 .. k : part[j] = line[o + j]
    <3>1. \A j \in o + 1 .. o + k : line[j] \in S
      BY <2>2, <2>5, <2>7, ElementOfSeq
    <3>2. /\ o + 1 \in Int /\ o + k \in Int /\ (o + k) - (o + 1) + 1 = k
          /\ (IF o + 1 <= o + k THEN (o + k) - (o + 1) + 1 ELSE 0) = k
          /\ \A j \in 1 .. k : (o + 1) + j - 1 = o + j
      BY <2>2, <2>5, <2>7
    <3> DEFINE cut == SubSeq(line, o + 1, o + k)
    <3>3. /\ cut \in Seq(S)
          /\ Len(cut) = IF o + 1 <= o + k THEN (o + k) - (o + 1) + 1 ELSE 0
          /\ \A j \in 1 .. (o + k) - (o + 1) + 1 : cut[j] = line[(o + 1) + j - 1]
      BY <3>1, <3>2, SubSeqProperties
    <3> HIDE DEF cut, part
    <3>4. /\ cut \in Seq(S) /\ Len(cut) = k
          /\ \A j \in 1 .. k : cut[j] = line[o + j]
      BY <3>2, <3>3
    <3> QED BY <2>8, <3>4 DEF cut
  <2>10. \A j \in 1 .. k : pos + j \in 1 .. Len(D) /\ D[pos + j] = part[j]
    <3> SUFFICES ASSUME NEW j \in 1 .. k
                 PROVE  pos + j \in 1 .. Len(D) /\ D[pos + j] = part[j]
      OBVIOUS
    <3>1. o + j \in 1 .. Len(line) /\ LineStart(seqs, i - 1) + (o + j) = pos + j
      BY <2>2, <2>5, <2>7
    <3>2. pos + j \in 1 .. Len(D) /\ D[pos + j] = line[o + j]
      BY <2>1, <3>1, BytesOfLine DEF D, line
    <3> QED BY <2>9, <3>2
  <2>11. k \in Nat /\ pos \in Nat /\ pos + k \in pos .. Len(D) /\ pos \in 0 .. Len(D)
    <3>1. k \in Nat /\ pos \in 0 .. Len(D) /\ (k = 0 \/ k \in 1 .. k)
      BY <2>2, <2>5, <2>7 DEF D
    <3> QED BY <1>0, <2>10, <3>1
  <2>12. part = SubSeq(D, pos + 1, pos + k)
    <3>1. \A j \in pos + 1 .. pos + k : D[j] \in S
      BY <1>0, <2>11, ElementOfSeq
    <3>2. /\ pos + 1 \in Int /\ pos + k \in Int /\ (pos + k) - (pos + 1) + 1 = k
          /\ (IF pos + 1 <= pos + k THEN (pos + k) - (pos + 1) + 1 ELSE 0) = k
          /\ \A j \in 1 .. k : (pos + 1) + j - 1 = pos + j
      BY <2>11
    <3>3. /\ SubSeq(D, pos + 1, pos + k) \in Seq(S)
          /\ Len(SubSeq(D, pos + 1, pos + k)) = k
          /\ \A j \in 1 .. k : SubSeq(D, pos + 1, pos + k)[j] = D[pos + j]
      BY <3>1, <3>2, SubSeqProperties
    <3> HIDE DEF part
    <3> QED BY <2>9, <2>10, <3>3, SeqEqual
  <2>13. SubSeq(D, 1, pos) \o SubSeq(D, pos + 1, pos + k) = SubSeq(D, 1, pos + k)
    <3>1. 1 \in 1 .. Len(D) + 1 /\ pos \in 1 - 1 .. Len(D)
      BY <1>0, <2>11
    <3> QED BY <1>0, <2>11, <3>1, ConcatAdjacentSubSeq
  <2> QED BY <1>0, <2>6, <2>9, <2>11, <2>12, <2>13 DEF rest
<1> QED BY <1>1, <1>2

(* The first line comes before the others. *)
LEMMA FlattenHead ==
  ASSUME NEW S, NEW seqs \in Seq(Seq(S)), Len(seqs) # 0
  PROVE  /\ seqs[1] \in Seq(S)
         /\ Tail(seqs) \in Seq(Seq(S))
         /\ FlattenSeq(seqs) = seqs[1] \o FlattenSeq(Tail(seqs))
<1> DEFINE F(n) == FlattenSeq(SubSeq(seqs, 1, n))
           G(n) == FlattenSeq(SubSeq(seqs, 2, n))
           h == seqs[1]
           Good == {n \in Nat : n \in 1 .. Len(seqs) => F(n) = h \o G(n)}
<1>0. /\ Len(seqs) \in Nat \ {0} /\ seqs # << >> /\ 1 \in 1 .. Len(seqs)
      /\ \A i \in 1 .. Len(seqs) : seqs[i] \in Seq(S)
  BY LenProperties, ElementOfSeq, EmptySeq
<1>1. h \in Seq(S) /\ Tail(seqs) \in Seq(Seq(S)) /\ Tail(seqs) = SubSeq(seqs, 2, Len(seqs))
  BY <1>0, HeadTailProperties, TailIsSubSeq
<1>2. ASSUME NEW n \in 1 .. Len(seqs)
      PROVE  SubSeq(seqs, 2, n) \in Seq(Seq(S)) /\ G(n) \in Seq(S)
  <2>1. \A i \in 2 .. n : seqs[i] \in Seq(S)
    BY <1>0
  <2>2. SubSeq(seqs, 2, n) \in Seq(Seq(S))
    BY <2>1, SubSeqProperties
  <2> QED BY <2>2, FlattenProperties
<1>3. \A n \in 0 .. Len(seqs) - 1 : F(n + 1) = F(n) \o seqs[n + 1]
  BY FirstLinesNext
<1>4. ASSUME NEW n \in 1 .. Len(seqs) - 1
      PROVE  G(n + 1) = G(n) \o seqs[n + 1]
  <2>1. n \in 1 .. Len(seqs) /\ n + 1 \in 1 .. Len(seqs) /\ (n + 1) - 1 = n
        /\ 2 \in 1 .. Len(seqs) /\ n + 1 \in 2 .. Len(seqs)
    BY <1>0
  <2>2. SubSeq(seqs, 2, n + 1) = SubSeq(seqs, 2, n) \o << seqs[n + 1] >>
    BY <2>1, SubSeqRecursiveSecond
  <2>3. SubSeq(seqs, 2, n) \in Seq(Seq(S)) /\ seqs[n + 1] \in Seq(S)
    BY <1>0, <1>2, <2>1
  <2>4. SubSeq(seqs, 2, n + 1) = Append(SubSeq(seqs, 2, n), seqs[n + 1])
    BY <2>2, <2>3, AppendIsConcat
  <2> QED BY <2>3, <2>4, FlattenAppend
<1>5. F(0) = << >> /\ G(1) = << >>
  <2>1. SubSeq(seqs, 2, 1) = << >> /\ SubSeq(seqs, 1, 0) = << >> /\ << >> \in Seq(Seq(S))
    BY SubSeqEmpty, EmptySeq
  <2> QED BY <2>1, FlattenProperties
<1> HIDE DEF F, G
<1>6. ASSUME NEW n \in Nat, n \in Good
      PROVE  n + 1 \in Good
  <2> HIDE DEF h
  <2> SUFFICES ASSUME n + 1 \in 1 .. Len(seqs)
               PROVE  F(n + 1) = h \o G(n + 1)
    OBVIOUS
  <2>1. CASE n = 0
    <3>1. n + 1 = 1 /\ n \in 0 .. Len(seqs) - 1
      BY <1>0, <2>1
    <3>2. F(1) = << >> \o h
      BY <1>3, <1>5, <2>1, <3>1 DEF h
    <3>3. << >> \o h = h /\ h \o << >> = h
      BY <1>1, ConcatEmptySeq
    <3> QED BY <1>5, <3>1, <3>2, <3>3
  <2>2. CASE n # 0
    <3> DEFINE line == seqs[n + 1]
    <3>1. n \in 1 .. Len(seqs) - 1 /\ n \in 0 .. Len(seqs) - 1 /\ n \in 1 .. Len(seqs)
      BY <1>0, <2>2
    <3>2. F(n) = h \o G(n) /\ F(n + 1) = F(n) \o line /\ G(n + 1) = G(n) \o line
      BY <1>3, <1>4, <1>6, <3>1
    <3>3. h \in Seq(S) /\ G(n) \in Seq(S) /\ line \in Seq(S)
      BY <1>0, <1>1, <1>2, <3>1
    <3> HIDE DEF line
    <3>4. (h \o G(n)) \o line = h \o (G(n) \o line)
      BY ONLY <3>3, ConcatAssociative
    <3> QED BY <3>2, <3>4
  <2> QED BY <2>1, <2>2
<1>7. F(Len(seqs)) = h \o G(Len(seqs))
  <2>1. 0 \in Good
    OBVIOUS
  <2>2. Len(seqs) \in Good
    <3> HIDE DEF Good
    <3>1. Nat \subseteq Good
      BY <1>6, <2>1, NaturalInduction
    <3> QED BY <1>0, <3>1
  <2> QED BY <1>0, <2>2
<1>8. SubSeq(seqs, 1, Len(seqs)) = seqs
  BY SubSeqFull
<1> QED BY <1>1, <1>7, <1>8 DEF F, G

(* The first bytes of two lines laid end to end are the first line. *)
LEMMA FirstOfConcat ==
  ASSUME NEW S, NEW s \in Seq(S), NEW t \in Seq(S)
  PROVE  /\ s \o t \in Seq(S)
         /\ Len(s \o t) = Len(s) + Len(t)
         /\ SubSeq(s \o t, 1, Len(s)) = s
<1>1. /\ s \o t \in Seq(S)
      /\ Len(s \o t) = Len(s) + Len(t)
      /\ \A i \in 1 .. Len(s) : (s \o t)[i] = s[i]
      /\ Len(s) \in Nat /\ Len(t) \in Nat
  BY ConcatProperties, LenProperties
<1> DEFINE part == SubSeq(s \o t, 1, Len(s))
<1>2. /\ part \in Seq(S)
      /\ Len(part) = Len(s)
      /\ \A i \in 1 .. Len(s) : part[i] = s[i]
  <2>1. \A i \in 1 .. Len(s) : (s \o t)[i] \in S
    BY <1>1, ElementOfSeq
  <2> QED BY <1>1, <2>1, SubSeqProperties
<1>3. part = s
  BY <1>2, SeqEqual
<1> QED BY <1>1, <1>3

-----------------------------------------------------------------------------
(* A function applied to every member of a sequence. *)
Mapped(seq, f) == [k \in 1 .. Len(seq) |-> f[seq[k]]]

(* Applying f to every element keeps the length and the order.             *)
LEMMA MappedProperties ==
  ASSUME NEW S, NEW T, NEW seq \in Seq(S), NEW f \in [S -> T]
  PROVE  /\ Mapped(seq, f) \in Seq(T)
         /\ Len(Mapped(seq, f)) = Len(seq)
         /\ \A k \in 1 .. Len(seq) : Mapped(seq, f)[k] = f[seq[k]]
<1>1. Len(seq) \in Nat /\ \A k \in 1 .. Len(seq) : seq[k] \in S
  BY LenProperties, ElementOfSeq
<1>2. Mapped(seq, f) \in [1 .. Len(seq) -> T]
  BY <1>1 DEF Mapped
<1>3. Mapped(seq, f) \in Seq(T)
  BY <1>1, <1>2, SeqDef
<1>4. Len(Mapped(seq, f)) = Len(seq)
  BY <1>1, <1>2, <1>3, LenProperties
<1> QED BY <1>3, <1>4 DEF Mapped

(* It goes through Append, and through Tail.                               *)
LEMMA MappedAppend ==
  ASSUME NEW S, NEW T, NEW f \in [S -> T], NEW seq \in Seq(S), NEW e \in S
  PROVE  Mapped(Append(seq, e), f) = Append(Mapped(seq, f), f[e])
<1> DEFINE n == Len(seq)
           more == Append(seq, e)
           left == Mapped(more, f)
           right == Append(Mapped(seq, f), f[e])
<1>1. /\ n \in Nat
      /\ more \in Seq(S) /\ Len(more) = n + 1
      /\ \A k \in 1 .. n : more[k] = seq[k]
      /\ more[n + 1] = e
  BY LenProperties, AppendProperties
<1>2. /\ left \in Seq(T) /\ Len(left) = n + 1
      /\ \A k \in 1 .. n + 1 : left[k] = f[more[k]]
  <2>1. Len(more) = n + 1 /\ \A k \in 1 .. n + 1 : more[k] \in S
    BY <1>1, ElementOfSeq
  <2>2. left = [k \in 1 .. n + 1 |-> f[more[k]]]
    BY <2>1 DEF Mapped
  <2> HIDE DEF more, n, left
  <2>3. left \in [1 .. n + 1 -> T] /\ n + 1 \in Nat
    BY <1>1, <2>1, <2>2
  <2>4. left \in Seq(T)
    BY <2>3, SeqDef
  <2>5. Len(left) = n + 1
    BY <2>3, <2>4, LenProperties
  <2> QED BY <2>2, <2>4, <2>5
<1>3. /\ Mapped(seq, f) \in Seq(T) /\ Len(Mapped(seq, f)) = n
      /\ \A k \in 1 .. n : Mapped(seq, f)[k] = f[seq[k]]
  BY MappedProperties
<1>4. /\ right \in Seq(T) /\ Len(right) = n + 1
      /\ \A k \in 1 .. n : right[k] = f[seq[k]]
      /\ right[n + 1] = f[e]
  BY <1>3, AppendProperties
<1>5. ASSUME NEW k \in 1 .. n + 1
      PROVE  left[k] = right[k]
  <2> HIDE DEF left, right, more
  <2>1. CASE k = n + 1
    BY <1>1, <1>2, <1>4, <2>1
  <2>2. CASE k # n + 1
    <3>1. k \in 1 .. n
      BY <1>1, <2>2
    <3> QED BY <1>1, <1>2, <1>4, <3>1
  <2> QED BY <2>1, <2>2
<1> HIDE DEF left, right
<1>6. left = right
  BY <1>2, <1>4, <1>5, SeqEqual
<1> QED BY <1>6 DEF left, right

(* Applying f to the elements and dropping the first one commute.          *)
LEMMA MappedTail ==
  ASSUME NEW S, NEW T, NEW f \in [S -> T], NEW seq \in Seq(S), Len(seq) # 0
  PROVE  Mapped(Tail(seq), f) = Tail(Mapped(seq, f))
<1>0. ASSUME NEW x \in Seq(S)
      PROVE  /\ Mapped(x, f) \in Seq(T) /\ Len(Mapped(x, f)) = Len(x)
             /\ \A k \in 1 .. Len(x) : Mapped(x, f)[k] = f[x[k]]
  BY ONLY MappedProperties, f \in [S -> T], x \in Seq(S)
<1> DEFINE n == Len(seq)
           left == Mapped(Tail(seq), f)
           right == Tail(Mapped(seq, f))
<1>1. /\ n \in Nat /\ n # 0
      /\ Tail(seq) \in Seq(S) /\ Len(Tail(seq)) = n - 1
      /\ \A k \in 1 .. n - 1 : Tail(seq)[k] = seq[k + 1]
  <2>1. n \in Nat /\ seq # << >>
    BY LenProperties, EmptySeq
  <2> QED BY <2>1, HeadTailProperties
<1>2. /\ left \in Seq(T) /\ Len(left) = n - 1
      /\ \A k \in 1 .. n - 1 : left[k] = f[seq[k + 1]]
  <2> DEFINE rest == Tail(seq)
  <2>1. rest \in Seq(S) /\ Len(rest) = n - 1
    BY <1>1
  <2> HIDE DEF rest
  <2>2. /\ Mapped(rest, f) \in Seq(T) /\ Len(Mapped(rest, f)) = Len(rest)
        /\ \A k \in 1 .. Len(rest) : Mapped(rest, f)[k] = f[rest[k]]
    BY <1>0, <2>1
  <2>3. left = Mapped(rest, f) /\ \A k \in 1 .. n - 1 : rest[k] = seq[k + 1]
    BY <1>1 DEF rest
  <2> HIDE DEF left, n
  <2> QED BY <2>1, <2>2, <2>3
<1>3. /\ Mapped(seq, f) \in Seq(T) /\ Len(Mapped(seq, f)) = n
      /\ \A k \in 1 .. n : Mapped(seq, f)[k] = f[seq[k]]
  BY <1>0
<1>4. Mapped(seq, f) # << >>
  BY <1>1, <1>3, EmptySeq
<1>5. /\ right \in Seq(T) /\ Len(right) = n - 1
      /\ \A k \in 1 .. n - 1 : right[k] = Mapped(seq, f)[k + 1]
  BY <1>3, <1>4, HeadTailProperties
<1>6. ASSUME NEW k \in 1 .. n - 1
      PROVE  left[k] = right[k]
  <2>1. k + 1 \in 1 .. n
    BY <1>1
  <2> HIDE DEF left, right
  <2> QED BY <1>2, <1>3, <1>5, <2>1
<1> HIDE DEF left, right
<1>7. left = right
  BY <1>2, <1>5, <1>6, SeqEqual
<1> QED BY <1>7 DEF left, right

-----------------------------------------------------------------------------
\* t ends with s, both sequences over S.
(* s is the end of t: some sequence, maybe empty, comes before it.         *)
EndsWith(S, t, s) == \E r \in Seq(S) : t = r \o s

(* What ends with s still does when both grow by the same bytes; it is no  *)
(* shorter than s, and is s when it is as long.                            *)
LEMMA EndsWithProperties ==
  ASSUME NEW S, NEW t \in Seq(S), NEW s \in Seq(S)
  PROVE  /\ EndsWith(S, t, << >>)
         /\ EndsWith(S, t, s) => Len(s) <= Len(t) /\ (Len(s) = Len(t) => s = t)
         /\ \A x \in Seq(S) : EndsWith(S, t, s) => EndsWith(S, t \o x, s \o x)
<1>1. EndsWith(S, t, << >>)
  <2>1. t = t \o << >>
    BY ConcatEmptySeq
  <2> QED BY <2>1 DEF EndsWith
<1>2. ASSUME NEW r \in Seq(S), t = r \o s
      PROVE  /\ Len(s) <= Len(t) /\ (Len(s) = Len(t) => s = t)
             /\ \A x \in Seq(S) : EndsWith(S, t \o x, s \o x)
  <2>1. Len(r) \in Nat /\ Len(s) \in Nat /\ Len(t) = Len(r) + Len(s)
    BY <1>2, LenProperties, ConcatProperties
  <2>2. Len(s) = Len(t) => s = t
    <3> SUFFICES ASSUME Len(s) = Len(t) PROVE s = t
      OBVIOUS
    <3>1. Len(r) = 0
      BY <2>1
    <3>2. r = << >>
      BY <3>1, EmptySeq
    <3> QED BY <1>2, <3>2, ConcatEmptySeq
  <2>3. ASSUME NEW x \in Seq(S)
        PROVE  EndsWith(S, t \o x, s \o x)
    <3>1. (r \o s) \o x = r \o (s \o x)
      BY ConcatAssociative
    <3> QED BY <1>2, <3>1 DEF EndsWith
  <2> QED BY <2>1, <2>2, <2>3
<1> QED BY <1>1, <1>2 DEF EndsWith

(* What ends with a log also does without the log's first line.            *)
LEMMA EndsWithoutFirst ==
  ASSUME NEW S, NEW t \in Seq(S), NEW lines \in Seq(Seq(S)), Len(lines) # 0,
         EndsWith(S, t, FlattenSeq(lines))
  PROVE  EndsWith(S, t, FlattenSeq(Tail(lines)))
<1> DEFINE a == lines[1]
           b == FlattenSeq(Tail(lines))
<1>1. a \in Seq(S) /\ b \in Seq(S) /\ FlattenSeq(lines) = a \o b
  BY FlattenHead, FlattenProperties
<1>2. PICK r \in Seq(S) : t = r \o (a \o b)
  BY <1>1 DEF EndsWith
<1> HIDE DEF a, b
<1>3. r \o a \in Seq(S) /\ (r \o a) \o b = r \o (a \o b)
  <2>1. a \in Seq(S) /\ b \in Seq(S)
    BY <1>1
  <2>2. r \o a \in Seq(S)
    BY <2>1, ConcatProperties
  <2>3. (r \o a) \o b = r \o (a \o b)
    BY ONLY <2>1, ConcatAssociative
  <2> QED BY <2>2, <2>3
<1>4. t = (r \o a) \o b
  BY <1>2, <1>3
<1> QED BY <1>3, <1>4 DEF EndsWith, b

(* EndsWith is IsSuffix of the community modules. *)
LEMMA EndsWithIsSuffix ==
  ASSUME NEW S, NEW t \in Seq(S), NEW s \in Seq(S), EndsWith(S, t, s)
  PROVE  IsSuffix(s, t)
<1>1. PICK r \in Seq(S) : t = r \o s
  BY DEF EndsWith
<1>2. /\ Len(r) \in Nat /\ Len(s) \in Nat /\ Len(t) = Len(r) + Len(s)
      /\ \A i \in 1 .. Len(s) : t[Len(r) + i] = s[i]
  BY <1>1, LenProperties, ConcatProperties
<1>3. \A u \in Seq(S) : /\ Reverse(u) \in Seq(S) /\ Len(Reverse(u)) = Len(u)
                        /\ \A i \in 1 .. Len(u) : Reverse(u)[i] = u[Len(u) - i + 1]
  <2> TAKE u \in Seq(S)
  <2>1. Len(u) \in Nat /\ \A i \in 1 .. Len(u) : u[i] \in S
    BY LenProperties, ElementOfSeq
  <2>2. Reverse(u) = [i \in 1 .. Len(u) |-> u[(Len(u) - i) + 1]]
    BY DEF Reverse
  <2>3. Reverse(u) \in [1 .. Len(u) -> S]
    BY <2>1, <2>2
  <2> QED BY <2>1, <2>2, <2>3, SeqDef, LenProperties
<1>4. \A i \in 1 .. Len(s) : Reverse(s)[i] = Reverse(t)[i]
  <2> TAKE i \in 1 .. Len(s)
  <2>1. Len(s) - i + 1 \in 1 .. Len(s) /\ i \in 1 .. Len(t)
        /\ Len(t) - i + 1 = Len(r) + (Len(s) - i + 1)
    BY <1>2
  <2>2. Reverse(s)[i] = s[Len(s) - i + 1]
    BY <1>3
  <2>3. Reverse(t)[i] = t[Len(t) - i + 1]
    BY <1>3, <2>1
  <2>4. t[Len(r) + (Len(s) - i + 1)] = s[Len(s) - i + 1]
    BY <1>2, <2>1
  <2> QED BY <2>1, <2>2, <2>3, <2>4
<1>5. SubSeq(Reverse(s), 1, Len(s)) = SubSeq(Reverse(t), 1, Len(s))
  <2> DEFINE a == Reverse(s)
             b == Reverse(t)
  <2>1. /\ a \in Seq(S) /\ b \in Seq(S) /\ Len(a) = Len(s) /\ Len(b) = Len(t)
    BY <1>3
  <2> HIDE DEF a, b
  <2>2. SubSeq(a, 1, Len(s)) = [i \in 1 .. Len(s) |-> a[i]]
    BY <1>2, <2>1
  <2>3. SubSeq(b, 1, Len(s)) = [i \in 1 .. Len(s) |-> b[i]]
    BY <1>2, <2>1
  <2> QED BY <1>4, <2>2, <2>3 DEF a, b
<1> QED BY <1>2, <1>3, <1>5 DEF IsSuffix, IsPrefix

(* Of two prefixes of a sequence one is a prefix of the other. *)
LEMMA PrefixesAgree ==
  ASSUME NEW S, NEW t \in Seq(S), NEW a \in Seq(S), NEW b \in Seq(S),
         IsPrefix(a, t), IsPrefix(b, t)
  PROVE  IsPrefix(a, b) \/ IsPrefix(b, a)
<1>1. Len(a) \in Nat /\ Len(b) \in Nat /\ Len(t) \in Nat
      /\ Len(a) <= Len(t) /\ Len(b) <= Len(t)
  BY LenProperties DEF IsPrefix
<1>2. a = SubSeq(t, 1, Len(a)) /\ b = SubSeq(t, 1, Len(b))
  BY SubSeqFull DEF IsPrefix
<1>3. ASSUME NEW m \in 0 .. Len(t), NEW n \in 0 .. m
      PROVE  IsPrefix(SubSeq(t, 1, n), SubSeq(t, 1, m))
  <2>1. \A i \in 1 .. Len(t) : t[i] \in S
    BY ElementOfSeq
  <2>2. /\ SubSeq(t, 1, m) \in Seq(S) /\ Len(SubSeq(t, 1, m)) = m
        /\ \A i \in 1 .. m : SubSeq(t, 1, m)[i] = t[i]
    BY <1>1, <2>1, SubSeqProperties
  <2>3. /\ SubSeq(t, 1, n) \in Seq(S) /\ Len(SubSeq(t, 1, n)) = n
    BY <1>1, <2>1, SubSeqProperties
  <2> DEFINE u == SubSeq(t, 1, m)
  <2>4. SubSeq(u, 1, n) = SubSeq(t, 1, n)
    <3> HIDE DEF u
    <3>1. SubSeq(u, 1, n) = [i \in 1 .. n |-> u[i]]
      BY <1>1, <2>2 DEF u
    <3>2. SubSeq(t, 1, n) = [i \in 1 .. n |-> t[i]]
      BY <1>1
    <3>3. \A i \in 1 .. n : u[i] = t[i]
      BY <1>1, <2>2 DEF u
    <3> QED BY <3>1, <3>2, <3>3
  <2>5. SubSeq(SubSeq(t, 1, n), 1, n) = SubSeq(t, 1, n)
    BY <2>3, SubSeqFull
  <2> QED BY <2>2, <2>3, <2>4, <2>5 DEF IsPrefix
<1>4. CASE Len(a) <= Len(b)
  <2>1. Len(b) \in 0 .. Len(t) /\ Len(a) \in 0 .. Len(b)
    BY <1>1, <1>4
  <2> QED BY <1>2, <1>3, <2>1
<1>5. CASE Len(b) <= Len(a)
  <2>1. Len(a) \in 0 .. Len(t) /\ Len(b) \in 0 .. Len(a)
    BY <1>1, <1>5
  <2> QED BY <1>2, <1>3, <2>1
<1> QED BY <1>1, <1>4, <1>5

(* A sequence is a prefix of itself and of all that begins with it. *)
LEMMA PrefixGrows ==
  ASSUME NEW S, NEW t \in Seq(S), NEW x \in Seq(S)
  PROVE  /\ IsPrefix(t, t)
         /\ \A a \in Seq(S) : IsPrefix(a, t) => IsPrefix(a, t \o x)
<1>1. Len(t) \in Nat /\ Len(x) \in Nat /\ t \o x \in Seq(S) /\ Len(t \o x) = Len(t) + Len(x)
  BY LenProperties, ConcatProperties
<1>2. IsPrefix(t, t)
  BY <1>1 DEF IsPrefix
<1>3. ASSUME NEW a \in Seq(S), IsPrefix(a, t)
      PROVE  IsPrefix(a, t \o x)
  <2>1. Len(a) \in Nat /\ Len(a) <= Len(t) /\ SubSeq(a, 1, Len(a)) = SubSeq(t, 1, Len(a))
    BY <1>3, LenProperties DEF IsPrefix
  <2>2. Len(a) <= Len(t \o x)
    BY <1>1, <2>1
  <2>3. SubSeq(t \o x, 1, Len(a)) = SubSeq(t, 1, Len(a))
    <3>1. CASE Len(a) = 0
      BY <1>1, <3>1, SubSeqEmpty
    <3>2. CASE Len(a) # 0
      <4>1. 1 \in 1 .. Len(t) /\ Len(a) \in 1 .. Len(t)
        BY <1>1, <2>1, <3>2
      <4> QED BY <4>1, SubSeqOfConcat1
    <3> QED BY <3>1, <3>2
  <2> QED BY <2>1, <2>2, <2>3 DEF IsPrefix
<1> QED BY <1>2, <1>3

(* What is in one of two sequences is in the two laid end to end. *)
LEMMA RangeOfConcat ==
  ASSUME NEW S, NEW s \in Seq(S), NEW t \in Seq(S), NEW v, v \in Range(s) \/ v \in Range(t)
  PROVE  v \in Range(s \o t)
<1>1. /\ Len(s) \in Nat /\ Len(t) \in Nat
      /\ DOMAIN s = 1 .. Len(s) /\ DOMAIN t = 1 .. Len(t)
      /\ DOMAIN (s \o t) = 1 .. Len(s) + Len(t)
      /\ \A i \in 1 .. Len(s) + Len(t) : (s \o t)[i] = IF i <= Len(s) THEN s[i] ELSE t[i - Len(s)]
  BY LenProperties, ConcatProperties
<1>2. CASE v \in Range(s)
  <2>1. PICK i \in 1 .. Len(s) : v = s[i]
    BY <1>1, <1>2 DEF Range
  <2>2. i \in 1 .. Len(s) + Len(t) /\ (s \o t)[i] = v
    BY <1>1, <2>1
  <2> QED BY <1>1, <2>2 DEF Range
<1>3. CASE v \in Range(t)
  <2>1. PICK i \in 1 .. Len(t) : v = t[i]
    BY <1>1, <1>3 DEF Range
  <2>2. Len(s) + i \in 1 .. Len(s) + Len(t) /\ (s \o t)[Len(s) + i] = v
    BY <1>1, <2>1
  <2> QED BY <1>1, <2>2 DEF Range
<1> QED BY <1>2, <1>3

=============================================================================
