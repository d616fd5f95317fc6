------------------------------ MODULE SinkProofs ------------------------------
(***************************************************************************)
(* What is left in a sink of any length, by the writer and its message     *)
(* guard and by the event emitter, which owns a writer.                    *)
(***************************************************************************)
EXTENDS Writer, Emitter, FiniteSetTheorems, SequenceTheorems, TLAPS

(* The terminators of a sink are finite in number. *)
LEMMA TermsFinite ==
  ASSUME NEW P, NEW s \in Seq(P), NEW S
  PROVE  /\ IsFiniteSet(TermsAt(s) \cap S)
         /\ Cardinality(TermsAt(s) \cap S) \in Nat
         /\ IsFiniteSet(TermsAt(s))
         /\ Cardinality(TermsAt(s)) \in Nat
<1>1. IsFiniteSet(1..Len(s))
  BY LenProperties, FS_Interval
<1>2. TermsAt(s) \subseteq 1..Len(s)
  BY DEF TermsAt
<1>3. IsFiniteSet(TermsAt(s))
  BY <1>1, <1>2, FS_Subset
<1>4. IsFiniteSet(TermsAt(s) \cap S)
  BY <1>3, FS_Intersection
<1> QED BY <1>3, <1>4, FS_CardinalityType

(* A piece more: one terminator more if it is one. *)
LEMMA TermsAppend ==
  ASSUME NEW P, NEW s \in Seq(P), NEW p \in P
  PROVE  Cardinality(TermsAt(Append(s, p)))
           = Cardinality(TermsAt(s)) + (IF p.is = "term" THEN 1 ELSE 0)
<1>1. /\ Append(s, p) \in Seq(P)
      /\ Len(Append(s, p)) = Len(s) + 1
      /\ \A i \in 1..Len(s) : Append(s, p)[i] = s[i]
      /\ Append(s, p)[Len(s) + 1] = p
      /\ Len(s) \in Nat
  BY AppendProperties, LenProperties
<1>2. TermsAt(Append(s, p))
        = TermsAt(s) \cup (IF p.is = "term" THEN {Len(s) + 1} ELSE {})
  BY <1>1 DEF TermsAt
<1>3. Len(s) + 1 \notin TermsAt(s)
  BY <1>1 DEF TermsAt
<1>4. IsFiniteSet(TermsAt(s)) /\ Cardinality(TermsAt(s)) \in Nat
  BY TermsFinite
<1>5. CASE p.is = "term"
  <2>1. Cardinality(TermsAt(s) \cup {Len(s) + 1}) = Cardinality(TermsAt(s)) + 1
    BY <1>3, <1>4, FS_AddElement
  <2> QED BY <1>2, <1>5, <2>1
<1>6. CASE p.is # "term"
  BY <1>2, <1>4, <1>6
<1> QED BY <1>5, <1>6

-----------------------------------------------------------------------------
(***************************************************************************)
(* A segment that was cut short: one tag, and a terminator only at the     *)
(* end.  It is whole when it has one, and may hold nothing at all.         *)
(***************************************************************************)
Cut(t) ==
  \A k \in 1..Len(t) :
    /\ t[k].is = "tag" <=> k = 1
    /\ t[k].is = "term" => k = Len(t)

Whole(t) == t # <<>> /\ t[Len(t)].is = "term"

LEMMA Concatenation ==
  ASSUME NEW P, NEW s \in Seq(P), NEW t \in Seq(P)
  PROVE  /\ s \o t \in Seq(P)
         /\ Len(s) \in Nat /\ Len(t) \in Nat
         /\ Len(s \o t) = Len(s) + Len(t)
         /\ \A i \in 1..Len(s) : (s \o t)[i] = s[i]
         /\ \A k \in 1..Len(t) : (s \o t)[Len(s) + k] = t[k]
         /\ \A i \in 1..Len(s \o t) :
              i \notin 1..Len(s) => \E k \in 1..Len(t) : i = Len(s) + k
<1>1. Len(s) \in Nat /\ Len(t) \in Nat
  BY LenProperties
<1>2. /\ s \o t \in Seq(P)
      /\ Len(s \o t) = Len(s) + Len(t)
      /\ \A i \in 1 .. Len(s) + Len(t) :
           (s \o t)[i] = IF i <= Len(s) THEN s[i] ELSE t[i - Len(s)]
  BY ConcatProperties
<1>3. ASSUME NEW k \in 1..Len(t)
      PROVE  (s \o t)[Len(s) + k] = t[k]
  <2>1. Len(s) + k \in 1 .. Len(s) + Len(t) /\ ~(Len(s) + k <= Len(s))
    BY <1>1
  <2>2. Len(s) + k - Len(s) = k
    BY <1>1
  <2> QED BY <1>2, <2>1, <2>2
<1>4. ASSUME NEW i \in 1..Len(s \o t), i \notin 1..Len(s)
      PROVE  \E k \in 1..Len(t) : i = Len(s) + k
  <2>1. i - Len(s) \in 1..Len(t) /\ i = Len(s) + (i - Len(s))
    BY <1>1, <1>2, <1>4
  <2> QED BY <2>1
<1>5. \A i \in 1..Len(s) : (s \o t)[i] = s[i]
  BY <1>1, <1>2
<1> QED BY <1>1, <1>2, <1>3, <1>4, <1>5

(* A whole segment adds a terminator, its last piece. *)
LEMMA TermsOfCut ==
  ASSUME NEW P, NEW s \in Seq(P), NEW t \in Seq(P), Cut(t)
  PROVE  TermsAt(s \o t)
           = TermsAt(s) \cup (IF Whole(t) THEN {Len(s) + Len(t)} ELSE {})
<1>1. /\ Len(s) \in Nat /\ Len(t) \in Nat
      /\ Len(s \o t) = Len(s) + Len(t)
      /\ \A i \in 1..Len(s) : (s \o t)[i] = s[i]
      /\ \A k \in 1..Len(t) : (s \o t)[Len(s) + k] = t[k]
      /\ \A i \in 1..Len(s \o t) :
           i \notin 1..Len(s) => \E k \in 1..Len(t) : i = Len(s) + k
  BY Concatenation
<1>2. ASSUME NEW i \in TermsAt(s \o t), i \notin TermsAt(s)
      PROVE  Whole(t) /\ i = Len(s) + Len(t)
  <2>1. i \in 1..Len(s \o t) /\ (s \o t)[i].is = "term"
    BY DEF TermsAt
  <2>2. i \notin 1..Len(s)
    BY <1>1, <1>2, <2>1 DEF TermsAt
  <2>3. PICK k \in 1..Len(t) : i = Len(s) + k
    BY <1>1, <2>1, <2>2
  <2>4. t[k].is = "term" /\ k = Len(t)
    BY <1>1, <2>1, <2>3 DEF Cut
  <2>5. t # <<>>
    BY <2>3
  <2> QED BY <2>3, <2>4, <2>5 DEF Whole
<1>3. ASSUME NEW i \in TermsAt(s)
      PROVE  i \in TermsAt(s \o t)
  BY <1>1, <1>3 DEF TermsAt
<1>4. ASSUME Whole(t)
      PROVE  Len(s) + Len(t) \in TermsAt(s \o t)
  <2>1. Len(t) # 0
    BY <1>4, EmptySeq DEF Whole
  <2>2. (s \o t)[Len(s) + Len(t)] = t[Len(t)]
    BY <1>1, <2>1
  <2> QED BY <1>1, <1>4, <2>1, <2>2 DEF TermsAt, Whole
<1> QED BY <1>2, <1>3, <1>4

LEMMA CountCut ==
  ASSUME NEW P, NEW s \in Seq(P), NEW t \in Seq(P), Cut(t)
  PROVE  Cardinality(TermsAt(s \o t))
           = Cardinality(TermsAt(s)) + (IF Whole(t) THEN 1 ELSE 0)
<1>1. IsFiniteSet(TermsAt(s)) /\ Cardinality(TermsAt(s)) \in Nat
  BY TermsFinite
<1>2. CASE Whole(t)
  <2>1. Len(s) \in Nat /\ Len(t) \in Nat /\ Len(t) # 0
    BY <1>2, LenProperties, EmptySeq DEF Whole
  <2>2. Len(s) + Len(t) \notin TermsAt(s)
    BY <2>1 DEF TermsAt
  <2>3. Cardinality(TermsAt(s) \cup {Len(s) + Len(t)}) = Cardinality(TermsAt(s)) + 1
    BY <1>1, <2>2, FS_AddElement
  <2> QED BY <1>2, <2>3, TermsOfCut
<1>3. CASE ~Whole(t)
  <2>1. TermsAt(s \o t) = TermsAt(s)
    BY <1>3, TermsOfCut
  <2> QED BY <1>1, <1>3, <2>1
<1> QED BY <1>2, <1>3

(***************************************************************************)
(* What is appended begins with a tag, so it ends no segment that was in   *)
(* the sink before: a segment that was not whole stays so.                 *)
(***************************************************************************)
LEMMA EndsBefore ==
  ASSUME NEW P, NEW s \in Seq(P), NEW t \in Seq(P), Cut(t),
         NEW i \in 1..Len(s), NEW j \in 1..Len(s \o t)
  PROVE  Ends(s \o t, i, j) <=> j \in 1..Len(s) /\ Ends(s, i, j)
<1>0. /\ s \o t \in Seq(P)
      /\ Len(s) \in Nat /\ Len(t) \in Nat
      /\ Len(s \o t) = Len(s) + Len(t)
      /\ \A q \in 1..Len(s) : (s \o t)[q] = s[q]
      /\ \A k \in 1..Len(t) : (s \o t)[Len(s) + k] = t[k]
      /\ \A q \in 1..Len(s \o t) :
           q \notin 1..Len(s) => \E k \in 1..Len(t) : q = Len(s) + k
  BY Concatenation, Zenon
<1>1. /\ Len(s) \in Nat /\ Len(t) \in Nat
      /\ Len(s \o t) = Len(s) + Len(t)
      /\ \A q \in 1..Len(s) : (s \o t)[q] = s[q]
      /\ \A k \in 1..Len(t) : (s \o t)[Len(s) + k] = t[k]
  BY <1>0
<1>2. CASE j \in 1..Len(s)
  BY <1>1, <1>2 DEF Ends
<1>3. CASE j \notin 1..Len(s)
  <2>1. Len(t) >= 1 /\ j >= Len(s) + 1
    BY <1>1, <1>3
  <2>2. (s \o t)[Len(s) + 1].is = "tag"
    BY <1>1, <2>1 DEF Cut
  <2>3. CASE j = Len(s) + 1
    BY <1>3, <2>2, <2>3 DEF Ends
  <2>4. CASE j # Len(s) + 1
    <3>1. Len(s) + 1 \in i+1 .. j-1
      BY <1>1, <2>1, <2>4
    <3> QED BY <1>3, <2>2, <3>1 DEF Ends
  <2> QED BY <2>3, <2>4
<1> QED BY <1>2, <1>3

LEMMA WholeBefore ==
  ASSUME NEW P, NEW s \in Seq(P), NEW t \in Seq(P), Cut(t), NEW i \in 1..Len(s)
  PROVE  WholeAt(s \o t, i) <=> WholeAt(s, i)
<1>1. 1..Len(s) \subseteq 1..Len(s \o t)
  BY Concatenation
<1> QED BY <1>1, EndsBefore DEF WholeAt

(* The tags of what is appended: its first piece is the only one. *)
LEMMA TagsOfCut ==
  ASSUME NEW P, NEW s \in Seq(P), NEW t \in Seq(P), Cut(t), NEW tag
  PROVE  TagsAt(s \o t, tag)
           = TagsAt(s, tag)
               \cup (IF t # <<>> /\ t[1].tag = tag THEN {Len(s) + 1} ELSE {})
<1>1. /\ Len(s) \in Nat /\ Len(t) \in Nat
      /\ Len(s \o t) = Len(s) + Len(t)
      /\ \A i \in 1..Len(s) : (s \o t)[i] = s[i]
      /\ \A k \in 1..Len(t) : (s \o t)[Len(s) + k] = t[k]
      /\ \A i \in 1..Len(s \o t) :
           i \notin 1..Len(s) => \E k \in 1..Len(t) : i = Len(s) + k
  BY Concatenation
<1>2. ASSUME NEW i \in TagsAt(s \o t, tag), i \notin TagsAt(s, tag)
      PROVE  t # <<>> /\ t[1].tag = tag /\ i = Len(s) + 1
  <2>1. i \in 1..Len(s \o t) /\ (s \o t)[i].is = "tag" /\ (s \o t)[i].tag = tag
    BY DEF TagsAt
  <2>2. i \notin 1..Len(s)
    BY <1>1, <1>2, <2>1 DEF TagsAt
  <2>3. PICK k \in 1..Len(t) : i = Len(s) + k
    BY <1>1, <2>1, <2>2
  <2>4. t[k].is = "tag" /\ t[k].tag = tag /\ k = 1
    BY <1>1, <2>1, <2>3 DEF Cut
  <2>5. t # <<>>
    BY <2>3
  <2> QED BY <2>3, <2>4, <2>5
<1>3. ASSUME NEW i \in TagsAt(s, tag)
      PROVE  i \in TagsAt(s \o t, tag)
  BY <1>1, <1>3 DEF TagsAt
<1>4. ASSUME t # <<>>, t[1].tag = tag
      PROVE  Len(s) + 1 \in TagsAt(s \o t, tag)
  <2>1. Len(t) # 0
    BY <1>4, EmptySeq
  <2>2. (s \o t)[Len(s) + 1] = t[1] /\ t[1].is = "tag"
    BY <1>1, <2>1 DEF Cut
  <2> QED BY <1>1, <1>4, <2>1, <2>2 DEF TagsAt
<1> QED BY <1>2, <1>3, <1>4

WriterTags == Content \cup {"UNH", "UNT", ""}

Pieces == [is: {"tag", "value", "term"}, tag: WriterTags, count: Nat]

(***************************************************************************)
(* What holds of a sink s with the writer's segment_count c and its        *)
(* message_start_count m, whatever wrote it.  Where the latest UNH is      *)
(* whole, m is the number of segments before it: a UNH that is not whole   *)
(* leaves m behind, and no count is read from there.                       *)
(***************************************************************************)
StartIsLatest(s, m) ==
  \A i \in TagsAt(s, "UNH") :
    TagsAt(s, "UNH") \cap (i+1 .. Len(s)) = {} /\ WholeAt(s, i)
      => m = Cardinality(TermsAt(s) \cap (1 .. i-1))

OpensIn(s, i, j) ==
  /\ i \in TagsAt(s, "UNH") /\ i < j
  /\ TagsAt(s, "UNH") \cap (i+1 .. j-1) = {}

UntIsTrue(s, i, j, end) ==
  OpensIn(s, i, j) /\ WholeAt(s, i) /\ Ends(s, j, end)
    => s[j+1].count = Cardinality(TermsAt(s) \cap (i..end))

UntsAreTrue(s) ==
  \A j \in TagsAt(s, "UNT") : \A i \in 1..j-1, end \in j+1..Len(s) :
    UntIsTrue(s, i, j, end)

SinkInv(s, c, m) ==
  /\ s \in Seq(Pieces)
  /\ c \in Nat /\ m \in Nat /\ m <= c
  /\ c = Cardinality(TermsAt(s))
  /\ StartIsLatest(s, m)
  /\ UntsAreTrue(s)

(***************************************************************************)
(* A segment, cut or whole, is appended; a UNT carries the number of       *)
(* segments from the message's start on, itself included.                  *)
(***************************************************************************)
CountsItsMessage(t, c, m) ==
  t # <<>> /\ t[1].tag = "UNT" /\ Len(t) >= 2 => t[2].count = c - m + 1

StartAfter(t, c, m) ==
  IF Whole(t) /\ t[1].tag = "UNH" THEN c ELSE m

CountAfter(t, c) == c + (IF Whole(t) THEN 1 ELSE 0)

(* Terminators already there are not moved by what is appended. *)
LEMMA OldTerms ==
  ASSUME NEW s \in Seq(Pieces), NEW t \in Seq(Pieces), Cut(t),
         NEW a \in Int, NEW b \in Int, b <= Len(s)
  PROVE  TermsAt(s \o t) \cap (a..b) = TermsAt(s) \cap (a..b)
<1>1. Len(s) \in Nat /\ Len(t) \in Nat /\ (Whole(t) => Len(t) # 0)
  BY LenProperties, EmptySeq DEF Whole
<1>2. Whole(t) => Len(s) + Len(t) \notin a..b
  BY <1>1
<1> QED BY <1>2, TermsOfCut

LEMMA StartStaysLatest ==
  ASSUME NEW s, NEW c, NEW m, SinkInv(s, c, m), NEW t \in Seq(Pieces), Cut(t)
  PROVE  StartIsLatest(s \o t, StartAfter(t, c, m))
<1> SUFFICES ASSUME NEW i \in TagsAt(s \o t, "UNH"),
                    TagsAt(s \o t, "UNH") \cap (i+1 .. Len(s \o t)) = {},
                    WholeAt(s \o t, i)
             PROVE  StartAfter(t, c, m) = Cardinality(TermsAt(s \o t) \cap (1 .. i-1))
  BY DEF StartIsLatest
<1>1. /\ s \in Seq(Pieces)
      /\ Len(s) \in Nat /\ Len(t) \in Nat
      /\ Len(s \o t) = Len(s) + Len(t)
      /\ \A k \in 1..Len(t) : (s \o t)[Len(s) + k] = t[k]
  BY Concatenation DEF SinkInv
<1>2. TagsAt(s \o t, "UNH")
        = TagsAt(s, "UNH")
            \cup (IF t # <<>> /\ t[1].tag = "UNH" THEN {Len(s) + 1} ELSE {})
  BY <1>1, TagsOfCut
<1>3. TagsAt(s, "UNH") \subseteq 1..Len(s)
  BY DEF TagsAt
<1>4. CASE i \in TagsAt(s, "UNH")
  <2>1. i \in 1..Len(s)
    BY <1>3, <1>4
  <2>2. ~(t # <<>> /\ t[1].tag = "UNH")
    <3>1. SUFFICES ASSUME t # <<>>, t[1].tag = "UNH"
                   PROVE  FALSE
      OBVIOUS
    <3>2. Len(t) # 0
      BY <3>1, EmptySeq
    <3>3. Len(s) + 1 \in i+1 .. Len(s \o t)
      BY <1>1, <2>1, <3>2
    <3> QED BY <1>2, <3>1, <3>3
  <2>3. TagsAt(s, "UNH") \cap (i+1 .. Len(s)) = {}
    <3>1. i+1 .. Len(s) \subseteq i+1 .. Len(s \o t)
      BY <1>1, <2>1
    <3> QED BY <1>2, <3>1
  <2>4. WholeAt(s, i)
    BY <1>1, <2>1, WholeBefore
  <2>5. m = Cardinality(TermsAt(s) \cap (1 .. i-1))
    BY <1>4, <2>3, <2>4 DEF SinkInv, StartIsLatest
  <2>6. TermsAt(s \o t) \cap (1 .. i-1) = TermsAt(s) \cap (1 .. i-1)
    <3>1. 1 \in Int /\ i-1 \in Int /\ i-1 <= Len(s)
      BY <1>1, <2>1
    <3> QED BY <1>1, <3>1, OldTerms
  <2> QED BY <2>2, <2>5, <2>6 DEF StartAfter, Whole
<1>5. CASE i \notin TagsAt(s, "UNH")
  <2>1. t # <<>> /\ t[1].tag = "UNH" /\ i = Len(s) + 1
    BY <1>2, <1>5
  <2>2. Whole(t)
    <3>1. PICK j \in 1..Len(s \o t) : Ends(s \o t, i, j)
      BY DEF WholeAt
    <3>2. j \in TermsAt(s \o t) /\ j > Len(s)
      BY <1>1, <2>1, <3>1 DEF Ends, TermsAt
    <3>3. j \notin TermsAt(s)
      BY <1>1, <3>2 DEF TermsAt
    <3> QED BY <1>1, <3>2, <3>3, TermsOfCut
  <2>3. TermsAt(s \o t) \cap (1 .. i-1) = TermsAt(s)
    <3>1. 1 \in Int /\ i-1 \in Int /\ i-1 <= Len(s)
      BY <1>1, <2>1
    <3>2. TermsAt(s \o t) \cap (1 .. i-1) = TermsAt(s) \cap (1 .. i-1)
      BY <1>1, <3>1, OldTerms
    <3>3. TermsAt(s) \subseteq 1 .. i-1
      BY <1>1, <2>1 DEF TermsAt
    <3> QED BY <3>2, <3>3
  <2> QED BY <2>1, <2>2, <2>3 DEF StartAfter, SinkInv
<1> QED BY <1>4, <1>5

LEMMA UntsStayTrue ==
  ASSUME NEW s, NEW c, NEW m, SinkInv(s, c, m), NEW t \in Seq(Pieces), Cut(t),
         CountsItsMessage(t, c, m)
  PROVE  UntsAreTrue(s \o t)
<1> SUFFICES ASSUME NEW j \in TagsAt(s \o t, "UNT"), NEW i \in 1..j-1,
                    NEW end \in j+1..Len(s \o t), OpensIn(s \o t, i, j),
                    WholeAt(s \o t, i), Ends(s \o t, j, end)
             PROVE  (s \o t)[j+1].count = Cardinality(TermsAt(s \o t) \cap (i..end))
  BY DEF UntsAreTrue, UntIsTrue
<1>1. /\ s \in Seq(Pieces)
      /\ Len(s) \in Nat /\ Len(t) \in Nat
      /\ Len(s \o t) = Len(s) + Len(t)
      /\ \A k \in 1..Len(s) : (s \o t)[k] = s[k]
      /\ \A k \in 1..Len(t) : (s \o t)[Len(s) + k] = t[k]
  BY Concatenation DEF SinkInv
<1>2. j \in Nat /\ i \in Nat /\ end \in Nat
  BY DEF TagsAt
<1>3. \A tag : TagsAt(s \o t, tag)
        = TagsAt(s, tag)
            \cup (IF t # <<>> /\ t[1].tag = tag THEN {Len(s) + 1} ELSE {})
  BY <1>1, TagsOfCut
<1>4. \A tag : TagsAt(s, tag) \subseteq 1..Len(s)
  BY DEF TagsAt
<1>5. i \in TagsAt(s, "UNH")
  <2>1. i \in TagsAt(s \o t, "UNH") /\ i < j
    BY DEF OpensIn
  <2>2. j <= Len(s) + 1
    BY <1>1, <1>3, <1>4
  <2>3. i # Len(s) + 1
    BY <1>1, <1>2, <2>1, <2>2
  <2>4. i \in TagsAt(s, "UNH")
             \cup (IF t # <<>> /\ t[1].tag = "UNH" THEN {Len(s) + 1} ELSE {})
    BY <1>3, <2>1
  <2> QED BY <2>3, <2>4
<1>6. i \in 1..Len(s) /\ WholeAt(s, i)
  BY <1>1, <1>4, <1>5, WholeBefore
<1>7. TagsAt(s, "UNH") \cap (i+1 .. j-1) = {}
  BY <1>3 DEF OpensIn
<1>8. CASE j \in TagsAt(s, "UNT")
  <2>1. j \in 1..Len(s)
    BY <1>4, <1>8
  <2>2. end \in 1..Len(s) /\ Ends(s, j, end)
    <3>1. end \in 1..Len(s \o t)
      BY <1>1, <1>2
    <3> QED BY <1>1, <2>1, <3>1, EndsBefore
  <2>3. j+1 \in 1..Len(s) /\ end \in j+1 .. Len(s)
    BY <1>1, <1>2, <2>1, <2>2
  <2>4. OpensIn(s, i, j)
    BY <1>2, <1>5, <1>7 DEF OpensIn
  <2>5. s[j+1].count = Cardinality(TermsAt(s) \cap (i..end))
    BY <1>6, <1>8, <2>2, <2>3, <2>4 DEF SinkInv, UntsAreTrue, UntIsTrue
  <2>6. TermsAt(s \o t) \cap (i..end) = TermsAt(s) \cap (i..end)
    <3>1. i \in Int /\ end \in Int /\ end <= Len(s)
      BY <1>1, <1>2, <2>2
    <3> QED BY <1>1, <3>1, OldTerms
  <2> QED BY <1>1, <2>3, <2>5, <2>6
<1>9. CASE j \notin TagsAt(s, "UNT")
  <2>1. t # <<>> /\ t[1].tag = "UNT" /\ j = Len(s) + 1
    BY <1>3, <1>9
  <2>2. Whole(t) /\ end = Len(s) + Len(t) /\ Len(t) >= 2
    <3>1. end \in TermsAt(s \o t) /\ end > j
      BY <1>1, <1>2 DEF Ends, TermsAt
    <3>2. end \notin TermsAt(s)
      BY <1>1, <2>1, <3>1 DEF TermsAt
    <3>3. Whole(t) /\ end = Len(s) + Len(t)
      BY <1>1, <3>1, <3>2, TermsOfCut
    <3> QED BY <1>1, <2>1, <3>1, <3>3
  <2>3. (s \o t)[j+1].count = c - m + 1
    <3>1. (s \o t)[Len(s) + 2] = t[2] /\ j + 1 = Len(s) + 2
      BY <1>1, <2>1, <2>2
    <3> QED BY <2>1, <2>2, <3>1 DEF CountsItsMessage
  <2>4. m = Cardinality(TermsAt(s) \cap (1 .. i-1))
    <3>1. TagsAt(s, "UNH") \cap (i+1 .. Len(s)) = {}
      BY <1>1, <1>7, <2>1
    <3> QED BY <1>5, <1>6, <3>1 DEF SinkInv, StartIsLatest
  <2>5. /\ Cardinality(TermsAt(s)) = c
        /\ Cardinality(TermsAt(s))
             = Cardinality(TermsAt(s) \cap (1 .. i-1))
                 + Cardinality(TermsAt(s) \cap (i .. Len(s)))
    <3>1. TermsAt(s) = (TermsAt(s) \cap (1 .. i-1)) \cup (TermsAt(s) \cap (i .. Len(s)))
      BY <1>1, <1>6 DEF TermsAt
    <3>2. (TermsAt(s) \cap (1 .. i-1)) \cap (TermsAt(s) \cap (i .. Len(s))) = {}
      BY <1>1, <1>6
    <3>3. /\ IsFiniteSet(TermsAt(s) \cap (1 .. i-1))
          /\ IsFiniteSet(TermsAt(s) \cap (i .. Len(s)))
          /\ Cardinality(TermsAt(s) \cap (1 .. i-1)) \in Nat
          /\ Cardinality(TermsAt(s) \cap (i .. Len(s))) \in Nat
      BY <1>1, TermsFinite
    <3>4. Cardinality(TermsAt(s))
            = Cardinality(TermsAt(s) \cap (1 .. i-1))
                + Cardinality(TermsAt(s) \cap (i .. Len(s))) - Cardinality({})
      BY <3>1, <3>2, <3>3, FS_Union
    <3>5. Cardinality({}) = 0
      BY FS_EmptySet
    <3> QED BY <3>3, <3>4, <3>5 DEF SinkInv
  <2>6. Cardinality(TermsAt(s \o t) \cap (i..end))
          = Cardinality(TermsAt(s) \cap (i .. Len(s))) + 1
    <3>1. TermsAt(s \o t) = TermsAt(s) \cup {end}
      BY <1>1, <2>2, TermsOfCut
    <3>2. TermsAt(s) \subseteq 1..Len(s)
      BY DEF TermsAt
    <3>3. TermsAt(s \o t) \cap (i..end) = (TermsAt(s) \cap (i .. Len(s))) \cup {end}
      BY <1>1, <1>2, <1>6, <2>2, <3>1, <3>2
    <3>4. end \notin TermsAt(s) \cap (i .. Len(s))
      BY <1>1, <2>2
    <3> QED BY <1>1, <3>3, <3>4, TermsFinite, FS_AddElement
  <2>7. /\ Cardinality(TermsAt(s) \cap (1 .. i-1)) \in Nat
        /\ Cardinality(TermsAt(s) \cap (i .. Len(s))) \in Nat
    BY <1>1, TermsFinite
  <2> QED BY <2>3, <2>4, <2>5, <2>6, <2>7
<1> QED BY <1>8, <1>9

LEMMA SinkGrows ==
  ASSUME NEW s, NEW c, NEW m, SinkInv(s, c, m), NEW t \in Seq(Pieces), Cut(t),
         CountsItsMessage(t, c, m)
  PROVE  SinkInv(s \o t, CountAfter(t, c), StartAfter(t, c, m))
<1>1. s \in Seq(Pieces) /\ c \in Nat /\ m \in Nat /\ m <= c
      /\ c = Cardinality(TermsAt(s))
  BY DEF SinkInv
<1>2. s \o t \in Seq(Pieces)
  BY <1>1, Concatenation
<1>3. Cardinality(TermsAt(s \o t)) = CountAfter(t, c)
  BY <1>1, CountCut DEF CountAfter
<1>4. CountAfter(t, c) \in Nat /\ StartAfter(t, c, m) \in Nat
      /\ StartAfter(t, c, m) <= CountAfter(t, c)
  BY <1>1 DEF CountAfter, StartAfter
<1>5. StartIsLatest(s \o t, StartAfter(t, c, m)) /\ UntsAreTrue(s \o t)
  BY StartStaysLatest, UntsStayTrue
<1> QED BY <1>2, <1>3, <1>4, <1>5 DEF SinkInv

(***************************************************************************)
(* A sink of whole segments goes on being one when one more is appended.   *)
(***************************************************************************)
CleanSink(s) ==
  /\ s = <<>> \/ s[Len(s)].is = "term"
  /\ \A i \in 1..Len(s) : s[i].is = "tag" => CleanAt(s, i) /\ WholeAt(s, i)

LEMMA CleanGrows ==
  ASSUME NEW s \in Seq(Pieces), CleanSink(s), NEW t \in Seq(Pieces), Cut(t), Whole(t)
  PROVE  CleanSink(s \o t)
<1>1. /\ s \o t \in Seq(Pieces)
      /\ Len(s) \in Nat /\ Len(t) \in Nat
      /\ Len(s \o t) = Len(s) + Len(t)
      /\ \A k \in 1..Len(s) : (s \o t)[k] = s[k]
      /\ \A k \in 1..Len(t) : (s \o t)[Len(s) + k] = t[k]
      /\ \A i \in 1..Len(s \o t) :
           i \notin 1..Len(s) => \E k \in 1..Len(t) : i = Len(s) + k
  BY Concatenation
<1>2. Len(t) # 0
  BY EmptySeq DEF Whole
<1>3. (s \o t)[Len(s) + Len(t)].is = "term"
  BY <1>1, <1>2 DEF Whole
<1>4. ASSUME NEW i \in 1..Len(s \o t), (s \o t)[i].is = "tag"
      PROVE  CleanAt(s \o t, i) /\ WholeAt(s \o t, i)
  <2>1. CASE i \in 1..Len(s)
    <3>1. CleanAt(s, i) /\ WholeAt(s, i)
      BY <1>1, <1>4, <2>1 DEF CleanSink
    <3>2. WholeAt(s \o t, i)
      BY <2>1, <3>1, WholeBefore
    <3>3. CleanAt(s \o t, i)
      BY <1>1, <2>1, <3>1 DEF CleanAt
    <3> QED BY <3>2, <3>3
  <2>2. CASE i \notin 1..Len(s)
    <3>1. PICK k \in 1..Len(t) : i = Len(s) + k
      BY <1>1, <2>2
    <3>2. i = Len(s) + 1
      BY <1>1, <1>4, <3>1 DEF Cut
    <3>3. CleanAt(s \o t, i)
      <4>1. CASE s = <<>>
        <5>1. Len(s) = 0
          BY <4>1
        <5> QED BY <3>2, <5>1 DEF CleanAt
      <4>2. CASE s # <<>>
        <5>1. Len(s) # 0 /\ s[Len(s)].is = "term"
          BY <4>2, EmptySeq DEF CleanSink
        <5> QED BY <1>1, <3>2, <5>1 DEF CleanAt
      <4> QED BY <4>1, <4>2
    <3>4. Ends(s \o t, i, Len(s) + Len(t))
      <4>1. Len(t) # 1
        BY <1>2, <1>1 DEF Cut, Whole
      <4>2. ASSUME NEW q \in i+1 .. Len(s) + Len(t) - 1
            PROVE  (s \o t)[q].is \in {"value", "part"}
        <5>1. q - Len(s) \in 2 .. Len(t) - 1 /\ q = Len(s) + (q - Len(s))
          BY <1>1, <3>2
        <5>2. (s \o t)[q] = t[q - Len(s)]
          BY <1>1, <5>1
        <5>3. t[q - Len(s)].is # "tag" /\ t[q - Len(s)].is # "term"
          BY <1>1, <5>1 DEF Cut
        <5>4. t[q - Len(s)] \in Pieces
          BY <1>1, <5>1, ElementOfSeq
        <5> QED BY <5>2, <5>3, <5>4 DEF Pieces
      <4>3. i < Len(s) + Len(t)
        <5>1. \A a, b \in Nat : b # 0 /\ b # 1 => a + 1 < a + b
          OBVIOUS
        <5>2. Len(s) \in Nat /\ Len(t) \in Nat
          BY <1>1
        <5> QED BY <1>2, <3>2, <4>1, <5>1, <5>2
      <4> QED BY <1>3, <4>2, <4>3 DEF Ends
    <3>5. Len(s) + Len(t) \in 1..Len(s \o t)
      BY <1>1, <1>2
    <3> QED BY <3>3, <3>4, <3>5 DEF WholeAt
  <2> QED BY <2>1, <2>2
<1> QED BY <1>1, <1>3, <1>4 DEF CleanSink

-----------------------------------------------------------------------------
(***************************************************************************)
(* The pieces of a segment, and a write that stops after the first n.      *)
(***************************************************************************)
IsSegment(pieces) == pieces \in Seq(Pieces) /\ Cut(pieces) /\ Whole(pieces)

LEMMA PieceTypes ==
  /\ \A tag \in WriterTags : TagPiece(tag) \in Pieces /\ TagPiece(tag).is = "tag"
                               /\ TagPiece(tag).tag = tag
  /\ \A count \in Nat : Value(count) \in Pieces /\ Value(count).is = "value"
                          /\ Value(count).count = count
  /\ Term \in Pieces /\ Term.is = "term"
BY DEF Pieces, WriterTags, TagPiece, Value, Term, Piece

LEMMA ContentSegment ==
  ASSUME NEW tag \in WriterTags
  PROVE  /\ IsSegment(SegmentPieces(tag, <<>>))
         /\ Len(SegmentPieces(tag, <<>>)) = 2
         /\ SegmentPieces(tag, <<>>)[1].tag = tag
<1> DEFINE values == [k \in 1..Len(<<>>) |-> Value(<<>>[k])]
<1>1. SegmentPieces(tag, <<>>) = <<TagPiece(tag), Term>>
  <2>1. values \in Seq(Pieces) /\ Len(values) = 0
    OBVIOUS
  <2>2. values = <<>>
    BY <2>1, EmptySeq
  <2>3. SegmentPieces(tag, <<>>) = <<TagPiece(tag)>> \o <<>> \o <<Term>>
    BY <2>2 DEF SegmentPieces
  <2> QED BY <2>3
<1>2. <<TagPiece(tag), Term>> \in Seq(Pieces)
  BY PieceTypes
<1> QED BY <1>1, <1>2, PieceTypes DEF IsSegment, Cut, Whole

LEMMA UntSegment ==
  ASSUME NEW count \in Nat
  PROVE  /\ IsSegment(SegmentPieces("UNT", <<count>>))
         /\ Len(SegmentPieces("UNT", <<count>>)) = 3
         /\ SegmentPieces("UNT", <<count>>)[1].tag = "UNT"
         /\ SegmentPieces("UNT", <<count>>)[2].count = count
<1> DEFINE values == [k \in 1..Len(<<count>>) |-> Value(<<count>>[k])]
<1>1. SegmentPieces("UNT", <<count>>) = <<TagPiece("UNT"), Value(count), Term>>
  <2>1. values \in Seq(Pieces) /\ Len(values) = 1 /\ values[1] = Value(count)
    BY PieceTypes
  <2>2. values = <<Value(count)>>
    <3>1. <<Value(count)>> \in Seq(Pieces)
      BY PieceTypes
    <3> QED BY <2>1, <3>1, SeqEqual
  <2>3. SegmentPieces("UNT", <<count>>)
          = <<TagPiece("UNT")>> \o <<Value(count)>> \o <<Term>>
    BY <2>2 DEF SegmentPieces
  <2> QED BY <2>3
<1>2. TagPiece("UNT") \in Pieces /\ TagPiece("UNT").is = "tag" /\ TagPiece("UNT").tag = "UNT"
  BY PieceTypes DEF WriterTags
<1>3. <<TagPiece("UNT"), Value(count), Term>> \in Seq(Pieces)
  BY <1>2, PieceTypes
<1> QED BY <1>1, <1>2, <1>3, PieceTypes DEF IsSegment, Cut, Whole

LEMMA PrefixOfSegment ==
  ASSUME NEW pieces, IsSegment(pieces), NEW n \in 0..Len(pieces)
  PROVE  /\ Prefix(pieces, n) \in Seq(Pieces)
         /\ Len(Prefix(pieces, n)) = n
         /\ \A k \in 1..n : Prefix(pieces, n)[k] = pieces[k]
         /\ Cut(Prefix(pieces, n))
         /\ Whole(Prefix(pieces, n)) <=> n = Len(pieces)
<1>1. Len(pieces) \in Nat /\ Len(pieces) # 0
  BY LenProperties, EmptySeq DEF IsSegment, Whole
<1>2. /\ Prefix(pieces, n) \in Seq(Pieces)
      /\ Len(Prefix(pieces, n)) = n
      /\ \A k \in 1..n : Prefix(pieces, n)[k] = pieces[k]
  BY <1>1, SubSeqProperties DEF Prefix, IsSegment
<1>3. Cut(Prefix(pieces, n))
  BY <1>1, <1>2 DEF Cut, IsSegment
<1>4. Whole(Prefix(pieces, n)) <=> n = Len(pieces)
  <2>1. CASE n = 0
    BY <1>1, <1>2, <2>1, EmptySeq DEF Whole
  <2>2. CASE n # 0
    <3>1. Prefix(pieces, n)[n] = pieces[n] /\ n \in 1..Len(pieces)
      BY <1>1, <1>2, <2>2
    <3>2. Prefix(pieces, n) # <<>>
      BY <1>2, <2>2
    <3> QED BY <1>2, <3>1, <3>2 DEF Whole, Cut, IsSegment
  <2> QED BY <2>1, <2>2
<1> QED BY <1>2, <1>3, <1>4

-----------------------------------------------------------------------------
(***************************************************************************)
(* The inductive invariant.  An open guard counts from the latest UNH: it  *)
(* and finish_unt agree on where the message began.                        *)
(***************************************************************************)
CountsInv == SinkInv(sink, segmentCount, messageStart)

GuardOK == guard = NoGuard \/ guard = messageStart + 1

FlagsOK == {live, reported, swallowed} \subseteq BOOLEAN

SilentIsClean == ~reported /\ ~swallowed => CleanSink(sink)

WriterInv == CountsInv /\ GuardOK /\ FlagsOK /\ SilentIsClean

LEMMA WriterInit == Init => WriterInv
<1> SUFFICES ASSUME Init
             PROVE  WriterInv
  OBVIOUS
<1>1. sink = <<>> /\ Len(sink) = 0 /\ sink \in Seq(Pieces)
  BY DEF Init
<1>2. TermsAt(sink) = {} /\ \A tag : TagsAt(sink, tag) = {}
  BY <1>1 DEF TermsAt, TagsAt
<1>3. CountsInv
  BY <1>1, <1>2, FS_EmptySet
  DEF Init, CountsInv, SinkInv, StartIsLatest, UntsAreTrue
<1>4. SilentIsClean
  BY <1>1 DEF SilentIsClean, CleanSink
<1>5. GuardOK
  BY DEF Init, GuardOK
<1>6. FlagsOK
  BY DEF Init, FlagsOK
<1> QED BY <1>3, <1>4, <1>5, <1>6 DEF WriterInv

LEMMA WriterInvImplies ==
  WriterInv => TypeOK /\ CountsAreTrue /\ DamageIsReported
<1> SUFFICES ASSUME WriterInv
             PROVE  TypeOK /\ CountsAreTrue /\ DamageIsReported
  OBVIOUS
<1>1. TypeOK
  <2>1. sink \in Seq(Pieces) /\ segmentCount \in Nat /\ messageStart \in Nat
    BY DEF WriterInv, CountsInv, SinkInv
  <2>2. guard \in Nat \cup {NoGuard}
    BY <2>1 DEF WriterInv, GuardOK
  <2>3. {live, reported, swallowed} \subseteq BOOLEAN
    BY DEF WriterInv, FlagsOK
  <2> QED BY <2>1, <2>2, <2>3 DEF TypeOK, Pieces, WriterTags
<1>2. CountsAreTrue
  BY DEF WriterInv, CountsInv, SinkInv, CountsAreTrue, CountIsWhatIsRead,
         UntsAreTrue, UntIsTrue, Opens, OpensIn
<1>3. DamageIsReported
  BY DEF WriterInv, SilentIsClean, CleanSink, DamageIsReported
<1> QED BY <1>1, <1>2, <1>3

(* The first n pieces of a segment are written. *)
LEMMA WriteOK ==
  ASSUME WriterInv, NEW pieces, IsSegment(pieces), NEW n \in 0..Len(pieces),
         CountsItsMessage(pieces, segmentCount, messageStart), Write(pieces, n)
  PROVE  /\ CountsInv'
         /\ messageStart' = IF n = Len(pieces) /\ pieces[1].tag = "UNH"
                            THEN segmentCount ELSE messageStart
         /\ segmentCount' = segmentCount + (IF n = Len(pieces) THEN 1 ELSE 0)
         /\ CleanSink(sink) /\ Succeeds(pieces, n) => CleanSink(sink')
<1> DEFINE t == Prefix(pieces, n)
<1>1. /\ t \in Seq(Pieces) /\ Len(t) = n /\ Cut(t)
      /\ \A k \in 1..n : t[k] = pieces[k]
      /\ Whole(t) <=> n = Len(pieces)
  BY PrefixOfSegment
<1>2. Len(pieces) \in Nat /\ Len(pieces) # 0
  BY LenProperties, EmptySeq DEF IsSegment, Whole
<1>3. segmentCount \in Nat /\ messageStart \in Nat /\ sink \in Seq(Pieces)
  BY DEF WriterInv, CountsInv, SinkInv
<1>4. sink' = sink \o t
  BY DEF Write
<1>5. n # 0 => t[1] = pieces[1]
  BY <1>1, <1>2
<1>6. CountsItsMessage(t, segmentCount, messageStart)
  <2>1. t # <<>> => n # 0
    BY <1>1, EmptySeq
  <2>2. Len(t) >= 2 => Len(pieces) >= 2 /\ t[2] = pieces[2]
    BY <1>1, <1>2
  <2>3. pieces # <<>>
    BY <1>2
  <2> HIDE DEF t
  <2> QED BY <1>5, <2>1, <2>2, <2>3 DEF CountsItsMessage
<1>7. /\ CountAfter(t, segmentCount) = segmentCount'
      /\ StartAfter(t, segmentCount, messageStart) = messageStart'
  <2> HIDE DEF t
  <2> QED BY <1>1, <1>2, <1>3, <1>5 DEF CountAfter, StartAfter, Write
<1>8. CountsInv'
  <2> HIDE DEF t
  <2>1. SinkInv(sink \o t, CountAfter(t, segmentCount),
                StartAfter(t, segmentCount, messageStart))
    BY <1>1, <1>6, SinkGrows DEF WriterInv, CountsInv
  <2> QED BY <1>4, <1>7, <2>1 DEF CountsInv
<1>9. CleanSink(sink) /\ Succeeds(pieces, n) => CleanSink(sink')
  <2> HIDE DEF t
  <2> QED BY <1>1, <1>3, <1>4, CleanGrows DEF Succeeds
<1>10. /\ messageStart' = IF n = Len(pieces) /\ pieces[1].tag = "UNH"
                          THEN segmentCount ELSE messageStart
       /\ segmentCount' = segmentCount + (IF n = Len(pieces) THEN 1 ELSE 0)
  BY <1>3 DEF Write
<1> QED BY <1>8, <1>9, <1>10

(* A UNT carries the count of the message that begins at messageStart. *)
LEMMA UntCounts ==
  ASSUME WriterInv
  PROVE  /\ segmentCount - messageStart + 1 \in Nat
         /\ guard # NoGuard => GuardCount = segmentCount - messageStart + 1
         /\ \A count \in Nat : count = segmentCount - messageStart + 1 =>
              CountsItsMessage(SegmentPieces("UNT", <<count>>), segmentCount, messageStart)
<1>1. segmentCount \in Nat /\ messageStart \in Nat /\ messageStart <= segmentCount
  BY DEF WriterInv, CountsInv, SinkInv
<1>2. guard # NoGuard => GuardCount = segmentCount - messageStart + 1
  BY <1>1 DEF WriterInv, GuardOK, GuardCount
<1>3. \A count \in Nat : count = segmentCount - messageStart + 1 =>
        CountsItsMessage(SegmentPieces("UNT", <<count>>), segmentCount, messageStart)
  BY UntSegment DEF CountsItsMessage
<1> QED BY <1>1, <1>2, <1>3

LEMMA GuardUntIsSegment ==
  ASSUME WriterInv, guard # NoGuard
  PROVE  /\ IsSegment(GuardUnt)
         /\ Len(GuardUnt) = 3
         /\ GuardUnt[1].tag = "UNT"
         /\ CountsItsMessage(GuardUnt, segmentCount, messageStart)
BY UntCounts, UntSegment DEF GuardUnt

LEMMA WriterNext == WriterInv /\ [Next]_vars => WriterInv'
<1> SUFFICES ASSUME WriterInv, [Next]_vars
             PROVE  WriterInv'
  OBVIOUS
<1> USE DEF Succeeds
<1>1. segmentCount \in Nat /\ messageStart \in Nat
  BY DEF WriterInv, CountsInv, SinkInv
<1>2. reported \in BOOLEAN /\ swallowed \in BOOLEAN /\ live \in BOOLEAN
  BY DEF WriterInv, FlagsOK
<1>3. CASE WriteSegment
  <2>0. PICK tag \in Content \cup {"UNH"} :
          /\ tag = "UNH" => guard = NoGuard
          /\ \E n \in 0..Len(SegmentPieces(tag, <<>>)) :
               /\ Write(SegmentPieces(tag, <<>>), n)
               /\ reported' = (reported \/ ~Succeeds(SegmentPieces(tag, <<>>), n))
    BY <1>3 DEF WriteSegment
  <2> DEFINE pieces == SegmentPieces(tag, <<>>)
  <2>1. PICK n \in 0..Len(pieces) :
          Write(pieces, n) /\ reported' = (reported \/ ~Succeeds(pieces, n))
    BY <2>0
  <2>2. IsSegment(pieces) /\ pieces[1].tag = tag /\ tag # "UNT"
    BY ContentSegment, ContentAssumption DEF WriterTags
  <2>3. CountsItsMessage(pieces, segmentCount, messageStart)
    BY <2>2 DEF CountsItsMessage
  <2>4. UNCHANGED <<guard, live, swallowed>>
    BY <1>3 DEF WriteSegment
  <2> HIDE DEF pieces
  <2>5. /\ CountsInv'
        /\ messageStart' = IF n = Len(pieces) /\ tag = "UNH"
                           THEN segmentCount ELSE messageStart
        /\ CleanSink(sink) /\ Succeeds(pieces, n) => CleanSink(sink')
    BY <2>1, <2>2, <2>3, WriteOK
  <2>6. GuardOK'
    BY <2>0, <2>4, <2>5 DEF WriterInv, GuardOK
  <2>7. SilentIsClean'
    BY <1>2, <2>1, <2>4, <2>5 DEF WriterInv, SilentIsClean
  <2>8. FlagsOK'
    BY <1>2, <2>1, <2>4 DEF FlagsOK
  <2> QED BY <2>5, <2>6, <2>7, <2>8 DEF WriterInv
<1>4. CASE RefuseSegment
  BY <1>4 DEF RefuseSegment, WriterInv, CountsInv, GuardOK, FlagsOK, SilentIsClean
<1>5. CASE BeginMessage
  <2> DEFINE unh == SegmentPieces("UNH", <<>>)
  <2>1. PICK n \in 0..Len(unh) :
          /\ Write(unh, n)
          /\ guard' = IF Succeeds(unh, n) THEN segmentCount' ELSE NoGuard
          /\ reported' = (reported \/ ~Succeeds(unh, n))
    BY <1>5 DEF BeginMessage
  <2>2. IsSegment(unh) /\ unh[1].tag = "UNH"
    BY ContentSegment DEF WriterTags
  <2>3. CountsItsMessage(unh, segmentCount, messageStart)
    BY <2>2 DEF CountsItsMessage
  <2>4. UNCHANGED <<live, swallowed>>
    BY <1>5 DEF BeginMessage
  <2> HIDE DEF unh
  <2>5. /\ CountsInv'
        /\ messageStart' = IF n = Len(unh) THEN segmentCount ELSE messageStart
        /\ segmentCount' = segmentCount + (IF n = Len(unh) THEN 1 ELSE 0)
        /\ CleanSink(sink) /\ Succeeds(unh, n) => CleanSink(sink')
    BY <2>1, <2>2, <2>3, WriteOK
  <2>6. GuardOK'
    BY <1>1, <2>1, <2>5 DEF GuardOK
  <2>7. SilentIsClean'
    BY <1>2, <2>1, <2>4, <2>5 DEF WriterInv, SilentIsClean
  <2>8. FlagsOK'
    BY <1>2, <2>1, <2>4 DEF FlagsOK
  <2> QED BY <2>5, <2>6, <2>7, <2>8 DEF WriterInv
<1>6. CASE FinishMessage
  <2>1. guard # NoGuard /\ Write(GuardUnt, Len(GuardUnt)) /\ guard' = NoGuard
        /\ UNCHANGED <<live, reported, swallowed>>
    BY <1>6 DEF FinishMessage
  <2>2. Len(GuardUnt) \in 0..Len(GuardUnt)
    BY <2>1, GuardUntIsSegment
  <2>3. CountsInv' /\ (CleanSink(sink) => CleanSink(sink'))
    BY <2>1, <2>2, GuardUntIsSegment, WriteOK
  <2> QED BY <2>1, <2>3 DEF WriterInv, GuardOK, FlagsOK, SilentIsClean
<1>7. CASE FinishMessageFails
  <2>1. guard # NoGuard /\ guard' = NoGuard /\ reported' = TRUE
        /\ UNCHANGED <<messageStart, live, swallowed>>
    BY <1>7 DEF FinishMessageFails
  <2>2. PICK n \in 0 .. Len(GuardUnt) - 1, m \in 0..Len(GuardUnt) :
          /\ sink' = sink \o Prefix(GuardUnt, n) \o Prefix(GuardUnt, m)
          /\ segmentCount' =
               IF Succeeds(GuardUnt, m) THEN segmentCount + 1 ELSE segmentCount
    BY <1>7 DEF FinishMessageFails
  <2> DEFINE first == Prefix(GuardUnt, n)
             second == Prefix(GuardUnt, m)
  <2>3. IsSegment(GuardUnt) /\ Len(GuardUnt) = 3 /\ GuardUnt[1].tag = "UNT"
        /\ CountsItsMessage(GuardUnt, segmentCount, messageStart)
    BY <2>1, GuardUntIsSegment
  <2>4. GuardUnt[2].count = segmentCount - messageStart + 1
    BY <2>3 DEF CountsItsMessage, IsSegment, Whole
  <2>5. ASSUME NEW k \in 0..3
        PROVE  /\ Prefix(GuardUnt, k) \in Seq(Pieces) /\ Cut(Prefix(GuardUnt, k))
               /\ Whole(Prefix(GuardUnt, k)) <=> k = 3
               /\ CountsItsMessage(Prefix(GuardUnt, k), segmentCount, messageStart)
               /\ k # 0 => Prefix(GuardUnt, k)[1].tag = "UNT"
    <3>1. /\ Prefix(GuardUnt, k) \in Seq(Pieces) /\ Cut(Prefix(GuardUnt, k))
          /\ Len(Prefix(GuardUnt, k)) = k
          /\ \A q \in 1..k : Prefix(GuardUnt, k)[q] = GuardUnt[q]
          /\ Whole(Prefix(GuardUnt, k)) <=> k = 3
      <4>1. k \in 0..Len(GuardUnt) /\ IsSegment(GuardUnt) /\ Len(GuardUnt) = 3
        BY <2>3
      <4> QED BY <4>1, PrefixOfSegment
    <3>2. k >= 2 => Prefix(GuardUnt, k)[2] = GuardUnt[2]
      BY <3>1
    <3>3. k # 0 => Prefix(GuardUnt, k)[1] = GuardUnt[1]
      BY <3>1
    <3> QED BY <2>3, <2>4, <3>1, <3>2, <3>3 DEF CountsItsMessage
  <2>6. n \in 0..3 /\ n # 3 /\ m \in 0..3
    BY <2>3
  <2> HIDE DEF first, second
  <2>7. SinkInv(sink \o first, segmentCount, messageStart)
    <3>1. first \in Seq(Pieces) /\ Cut(first) /\ ~Whole(first)
          /\ CountsItsMessage(first, segmentCount, messageStart)
      BY <2>5, <2>6 DEF first
    <3>2. SinkInv(sink \o first, CountAfter(first, segmentCount),
                  StartAfter(first, segmentCount, messageStart))
      BY <3>1, SinkGrows DEF WriterInv, CountsInv
    <3>3. CountAfter(first, segmentCount) = segmentCount
      BY <1>1, <3>1 DEF CountAfter
    <3>4. StartAfter(first, segmentCount, messageStart) = messageStart
      BY <3>1 DEF StartAfter
    <3> QED BY <3>2, <3>3, <3>4
  <2>8. /\ SinkInv((sink \o first) \o second, CountAfter(second, segmentCount),
                   StartAfter(second, segmentCount, messageStart))
        /\ CountAfter(second, segmentCount) = segmentCount'
        /\ StartAfter(second, segmentCount, messageStart) = messageStart
    <3>1. second \in Seq(Pieces) /\ Cut(second) /\ (Whole(second) <=> m = 3)
          /\ CountsItsMessage(second, segmentCount, messageStart)
          /\ (m = 3 => second[1].tag = "UNT")
      BY <2>5, <2>6 DEF second
    <3>2. SinkInv((sink \o first) \o second, CountAfter(second, segmentCount),
                  StartAfter(second, segmentCount, messageStart))
      BY <2>7, <3>1, SinkGrows
    <3>3. CountAfter(second, segmentCount) = segmentCount'
      BY <1>1, <2>2, <2>3, <3>1 DEF CountAfter
    <3>4. StartAfter(second, segmentCount, messageStart) = messageStart
      BY <3>1 DEF StartAfter
    <3> QED BY <3>2, <3>3, <3>4
  <2>9. CountsInv'
    BY <2>1, <2>2, <2>8 DEF CountsInv, first, second
  <2> QED BY <2>1, <2>9 DEF WriterInv, GuardOK, FlagsOK, SilentIsClean
<1>8. CASE DropMessage
  <2>1. PICK n \in 0..Len(GuardUnt) :
          /\ Write(GuardUnt, n)
          /\ swallowed' = (swallowed \/ ~Succeeds(GuardUnt, n))
    BY <1>8 DEF DropMessage
  <2>2. guard # NoGuard /\ guard' = NoGuard /\ UNCHANGED <<live, reported>>
    BY <1>8 DEF DropMessage
  <2>3. CountsInv' /\ (CleanSink(sink) /\ Succeeds(GuardUnt, n) => CleanSink(sink'))
    BY <2>1, <2>2, GuardUntIsSegment, WriteOK
  <2>4. SilentIsClean'
    BY <1>2, <2>1, <2>2, <2>3 DEF WriterInv, SilentIsClean
  <2>5. FlagsOK'
    BY <1>2, <2>1, <2>2 DEF FlagsOK
  <2> QED BY <2>2, <2>3, <2>4, <2>5 DEF WriterInv, GuardOK
<1>9. CASE Finish
  <2>1. reported' \in BOOLEAN /\ (~reported' => ~reported)
    BY <1>2, <1>9 DEF Finish
  <2>2. live' = FALSE
        /\ UNCHANGED <<sink, segmentCount, messageStart, guard, swallowed>>
    BY <1>9 DEF Finish
  <2> QED BY <2>1, <2>2 DEF WriterInv, CountsInv, GuardOK, FlagsOK, SilentIsClean
<1>10. CASE FinishUnt
  <2> DEFINE count == segmentCount - messageStart + 1
             unt == SegmentPieces("UNT", <<count>>)
  <2>1. PICK n \in 0..Len(unt), flushed \in BOOLEAN :
          /\ Write(unt, n)
          /\ reported' = (reported \/ ~Succeeds(unt, n) \/ ~flushed)
    BY <1>10 DEF FinishUnt
  <2>2. guard = NoGuard /\ live' = FALSE /\ UNCHANGED <<guard, swallowed>>
    BY <1>10 DEF FinishUnt
  <2>3. IsSegment(unt) /\ CountsItsMessage(unt, segmentCount, messageStart)
    BY UntCounts, UntSegment
  <2> HIDE DEF unt
  <2>4. CountsInv' /\ (CleanSink(sink) /\ Succeeds(unt, n) => CleanSink(sink'))
    BY <2>1, <2>3, WriteOK
  <2>5. SilentIsClean'
    BY <1>2, <2>1, <2>2, <2>4 DEF WriterInv, SilentIsClean
  <2>6. FlagsOK'
    BY <1>2, <2>1, <2>2 DEF FlagsOK
  <2> QED BY <2>2, <2>4, <2>5, <2>6 DEF WriterInv, GuardOK
<1>11. CASE UNCHANGED vars
  BY <1>11 DEF vars, WriterInv, CountsInv, GuardOK, FlagsOK, SilentIsClean
<1> QED BY <1>3, <1>4, <1>5, <1>6, <1>7, <1>8, <1>9, <1>10, <1>11 DEF Next

LEMMA WriterSafe == Spec => []WriterInv
<1>1. Init => WriterInv
  BY WriterInit
<1>2. WriterInv /\ [Next]_vars => WriterInv'
  BY WriterNext
<1> QED BY <1>1, <1>2, PTL DEF Spec

-----------------------------------------------------------------------------
(***************************************************************************)
(* Whatever is written, whatever fails and however often: segment_count is *)
(* the number of segments a reader of the sink finds, and the count in a   *)
(* UNT is the number of segments of its message, whichever of the four     *)
(* ways it was written.                                                    *)
(***************************************************************************)
THEOREM CountsStayTrue == Spec => []CountsAreTrue
<1>1. WriterInv => CountsAreTrue
  BY WriterInvImplies
<1> QED BY <1>1, WriterSafe, PTL

(***************************************************************************)
(* As long as no call has returned an error and no drop has discarded one, *)
(* the sink is whole segments, one after the other.  The drop of a guard   *)
(* can discard the only error there is; nothing is claimed of that sink.   *)
(***************************************************************************)
THEOREM DamageIsNeverSilent == Spec => []DamageIsReported
<1>1. WriterInv => DamageIsReported
  BY WriterInvImplies
<1> QED BY <1>1, WriterSafe, PTL

(* The writer's variables have their types: the count a UNT carries is a   *)
(* natural number however the calls are ordered.                           *)
THEOREM WriterTypeCorrect == Spec => []TypeOK
<1>1. WriterInv => TypeOK
  BY WriterInvImplies
<1> QED BY <1>1, WriterSafe, PTL

-----------------------------------------------------------------------------
(***************************************************************************)
(* The emitter's protocol, for a sink of any length.                       *)
(***************************************************************************)
EmitterPieces == [is: {"tag", "value", "part", "term"}, tag: {"BGM", ""}, count: {0}]

(* The emitter's variables have their types. *)
EmitterTypeOK ==
  /\ emitted \in Seq(EmitterPieces)
  /\ emittedCount \in Nat
  /\ repetitionActive \in BOOLEAN
  /\ state \in {"Idle", "InSegment", "InElement"}
  /\ rejected \in BOOLEAN /\ failed \in BOOLEAN

LEMMA PiecesTyped ==
  /\ TagPiece("BGM") \in EmitterPieces /\ TagPiece("BGM").is = "tag"
  /\ Value(0) \in EmitterPieces /\ Value(0).is = "value"
  /\ Part \in EmitterPieces /\ Part.is = "part"
  /\ Term \in EmitterPieces /\ Term.is = "term"
BY DEF EmitterPieces, TagPiece, Value, Part, Term, Piece

(***************************************************************************)
(* What the sink ends with, and the pieces that may come next: the sink    *)
(* goes on being one that can be reparsed, and ends with the piece.        *)
(***************************************************************************)
Ending == Before(Len(emitted) + 1)

Follows(piece) == MayFollow(piece, Ending)

LEMMA EndingTyped ==
  ASSUME EmitterTypeOK
  PROVE  Ending \in {"tag", "value", "part", "term"}
<1>1. Len(emitted) \in Nat
  BY LenProperties DEF EmitterTypeOK
<1>2. CASE Len(emitted) = 0
  BY <1>2 DEF Ending, Before
<1>3. CASE Len(emitted) # 0
  <2>1. emitted[Len(emitted)] \in EmitterPieces
    BY <1>1, <1>3, ElementOfSeq DEF EmitterTypeOK
  <2>2. emitted[Len(emitted)].is \in {"tag", "value", "part", "term"}
    BY <2>1 DEF EmitterPieces
  <2>3. Ending = emitted[Len(emitted)].is
    BY <1>1, <1>3 DEF Ending, Before
  <2> QED BY <2>2, <2>3
<1> QED BY <1>2, <1>3

LEMMA Appending ==
  ASSUME EmitterTypeOK, NEW piece \in EmitterPieces, emitted' = Append(emitted, piece)
  PROVE  /\ emitted' \in Seq(EmitterPieces)
         /\ Ending' = piece.is
         /\ Reparses /\ Follows(piece) => Reparses'
<1>1. /\ emitted' \in Seq(EmitterPieces)
      /\ Len(emitted') = Len(emitted) + 1
      /\ \A i \in 1..Len(emitted) : emitted'[i] = emitted[i]
      /\ emitted'[Len(emitted) + 1] = piece
      /\ Len(emitted) \in Nat
  BY AppendProperties, LenProperties DEF EmitterTypeOK
<1>2. \A i \in 1 .. Len(emitted) + 1 : Before(i)' = Before(i)
  BY <1>1 DEF Before
<1>3. Ending' = piece.is
  BY <1>1 DEF Before, Ending
<1>4. ASSUME Reparses, Follows(piece), NEW i \in 1..Len(emitted')
      PROVE  MayFollow(emitted'[i], Before(i)')
  <2>1. CASE i \in 1..Len(emitted)
    BY <1>1, <1>2, <1>4, <2>1 DEF Reparses
  <2>2. CASE i = Len(emitted) + 1
    BY <1>1, <1>2, <1>4, <2>2 DEF Follows, Ending
  <2> QED BY <1>1, <2>1, <2>2
<1> QED BY <1>1, <1>3, <1>4 DEF Reparses

-----------------------------------------------------------------------------
(***************************************************************************)
(* ProtocolKeepsSegments is inductive with the types.                      *)
(***************************************************************************)
StateOf(ending) ==
  CASE ending = "term" -> "Idle"
    [] ending = "tag"  -> "InSegment"
    [] OTHER           -> "InElement"

CountOK == emittedCount = Cardinality(TermsAt(emitted))

InProtocol == ~rejected /\ ~failed => Reparses /\ state = StateOf(Ending)

LEMMA ProtocolParts == ProtocolKeepsSegments <=> CountOK /\ InProtocol
BY DEF ProtocolKeepsSegments, CountOK, InProtocol, StateOf, Ending

LEMMA EmitterStarts == EmitterInit => EmitterTypeOK /\ CountOK /\ InProtocol
<1> SUFFICES ASSUME EmitterInit
             PROVE  EmitterTypeOK /\ CountOK /\ InProtocol
  OBVIOUS
<1>1. emitted = <<>> /\ Len(emitted) = 0
  BY DEF EmitterInit
<1>2. TermsAt(emitted) = {}
  BY <1>1 DEF TermsAt
<1>3. CountOK
  BY <1>2, FS_EmptySet DEF CountOK, EmitterInit
<1>4. InProtocol
  BY <1>1 DEF EmitterInit, InProtocol, Reparses, StateOf, Ending, Before
<1>5. EmitterTypeOK
  <2>1. emitted \in Seq(EmitterPieces)
    BY <1>1
  <2> QED BY <2>1 DEF EmitterInit, EmitterTypeOK
<1> QED BY <1>3, <1>4, <1>5

(* An event that is refused changes nothing the invariant is about. *)
LEMMA RefuseOK ==
  ASSUME EmitterTypeOK, CountOK, InProtocol,
         UNCHANGED <<emitted, emittedCount, repetitionActive, state, rejected, failed>>
  PROVE  EmitterTypeOK' /\ CountOK' /\ InProtocol'
BY DEF EmitterTypeOK, CountOK, InProtocol, Reparses, Ending, Before

(* A write: the count follows the terminators, and a failed one is known.  *)
LEMMA EmitterWriteOK ==
  ASSUME EmitterTypeOK, CountOK, InProtocol,
         NEW piece \in EmitterPieces, WritePiece(piece),
         state' \in {"Idle", "InSegment", "InElement"},
         emittedCount' = emittedCount
           + (IF piece.is = "term" /\ result' = "Ok" THEN 1 ELSE 0),
         Reparses /\ state = StateOf(Ending) =>
           Follows(piece) /\ state' = StateOf(piece.is)
  PROVE  EmitterTypeOK' /\ CountOK' /\ InProtocol'
<1>1. CASE emitted' = Append(emitted, piece) /\ result' = "Ok"
            /\ UNCHANGED <<repetitionActive, rejected, failed>>
  <2>1. /\ emitted' \in Seq(EmitterPieces)
        /\ Ending' = piece.is
        /\ Reparses /\ Follows(piece) => Reparses'
    BY <1>1, Appending
  <2>2. Cardinality(TermsAt(emitted'))
          = Cardinality(TermsAt(emitted)) + (IF piece.is = "term" THEN 1 ELSE 0)
    BY <1>1, TermsAppend DEF EmitterTypeOK
  <2>3. CountOK'
    BY <1>1, <2>2 DEF CountOK
  <2>4. EmitterTypeOK'
    BY <1>1, <2>1 DEF EmitterTypeOK
  <2>5. InProtocol'
    BY <1>1, <2>1 DEF InProtocol
  <2> QED BY <2>3, <2>4, <2>5
<1>2. CASE result' = "WriteFailed" /\ failed' = TRUE
            /\ UNCHANGED <<emitted, repetitionActive, rejected>>
  <2>1. emittedCount' = emittedCount
    BY <1>2 DEF EmitterTypeOK
  <2> QED BY <1>2, <2>1 DEF EmitterTypeOK, CountOK, InProtocol
<1> QED BY <1>1, <1>2 DEF WritePiece

LEMMA EmitterSteps ==
  EmitterTypeOK /\ CountOK /\ InProtocol /\ [EmitterNext]_emitterVars
    => EmitterTypeOK' /\ CountOK' /\ InProtocol'
<1> SUFFICES ASSUME EmitterTypeOK, CountOK, InProtocol, [EmitterNext]_emitterVars
             PROVE  EmitterTypeOK' /\ CountOK' /\ InProtocol'
  OBVIOUS
<1> DEFINE Unmoved ==
      UNCHANGED <<emitted, emittedCount, repetitionActive, state, rejected, failed>>
<1>1. ASSUME NEW tagIsValid \in BOOLEAN, StartSegment(tagIsValid)
      PROVE  EmitterTypeOK' /\ CountOK' /\ InProtocol'
  <2>1. CASE Unmoved
    BY <2>1, RefuseOK
  <2>2. CASE state = "Idle" /\ state' = "InSegment" /\ UNCHANGED emittedCount
              /\ WritePiece(TagPiece("BGM"))
    <3>1. Reparses /\ state = StateOf(Ending) =>
            Follows(TagPiece("BGM")) /\ state' = StateOf("tag")
      BY <2>2, PiecesTyped DEF StateOf, Follows, MayFollow
    <3> QED BY <2>2, <3>1, PiecesTyped, EmitterWriteOK DEF EmitterTypeOK
  <2>3. CASE /\ state' = "InSegment" /\ rejected' = TRUE
             /\ UNCHANGED <<emitted, emittedCount, repetitionActive, failed>>
    BY <2>3 DEF EmitterTypeOK, CountOK, InProtocol
  <2> QED BY <1>1, <2>1, <2>2, <2>3 DEF StartSegment, Refuse, WriteTag
<1>2. CASE Element
  <2>1. CASE Unmoved
    BY <2>1, RefuseOK
  <2>2. CASE state # "Idle" /\ state' = "InElement" /\ UNCHANGED emittedCount
              /\ WritePiece(Value(0))
    <3>1. Reparses /\ state = StateOf(Ending) =>
            Follows(Value(0)) /\ state' = StateOf("value")
      BY <2>2, PiecesTyped DEF StateOf, Follows, MayFollow
    <3> QED BY <2>2, <3>1, PiecesTyped, EmitterWriteOK DEF EmitterTypeOK
  <2> QED BY <1>2, <2>1, <2>2 DEF Element, Refuse
<1>3. ASSUME state = "InElement", UNCHANGED <<emittedCount, state>>, WritePiece(Part)
      PROVE  EmitterTypeOK' /\ CountOK' /\ InProtocol'
  <2>1. Reparses /\ state = StateOf(Ending) =>
          Follows(Part) /\ state' = StateOf("part")
    BY <1>3, PiecesTyped, EndingTyped DEF StateOf, Follows, MayFollow
  <2> QED BY <1>3, <2>1, PiecesTyped, EmitterWriteOK DEF EmitterTypeOK
<1>4. CASE ComponentElement
  BY <1>3, <1>4, RefuseOK DEF ComponentElement, Refuse
<1>5. CASE RepeatElement
  BY <1>3, <1>5, RefuseOK DEF RepeatElement, Refuse
<1>6. CASE EndSegment
  <2>1. CASE Unmoved
    BY <2>1, RefuseOK
  <2>2. CASE state # "Idle" /\ state' = "Idle" /\ WritePiece(Term)
              /\ emittedCount' =
                   IF result' = "Ok" THEN emittedCount + 1 ELSE emittedCount
    <3>1. Reparses /\ state = StateOf(Ending) =>
            Follows(Term) /\ state' = StateOf("term")
      BY <2>2, PiecesTyped DEF StateOf, Follows, MayFollow
    <3> QED BY <2>2, <3>1, PiecesTyped, EmitterWriteOK DEF EmitterTypeOK
  <2> QED BY <1>6, <2>1, <2>2 DEF EndSegment, Refuse
<1>7. CASE UNCHANGED emitterVars
  BY <1>7, RefuseOK DEF emitterVars
<1> QED BY <1>1, <1>2, <1>4, <1>5, <1>6, <1>7 DEF EmitterNext

-----------------------------------------------------------------------------
(***************************************************************************)
(* Whatever events come, in whatever order and number, and whatever writes *)
(* fail: segment_count is the number of terminators written.  What else is *)
(* claimed ends at the first tag refused and the first write that fails:   *)
(* until then the sink holds nothing but segments, and                     *)
(* WriterEmitter::state knows what part of one comes next.                 *)
(***************************************************************************)
THEOREM ProtocolIsKept == EmitterSpec => []ProtocolKeepsSegments
<1> DEFINE Inv == EmitterTypeOK /\ CountOK /\ InProtocol
<1>1. EmitterInit => Inv
  BY EmitterStarts
<1>2. Inv /\ [EmitterNext]_emitterVars => Inv'
  BY EmitterSteps
<1>3. Inv => ProtocolKeepsSegments
  BY ProtocolParts
<1> HIDE DEF Inv
<1> QED BY <1>1, <1>2, <1>3, PTL DEF EmitterSpec
=============================================================================
