----------------------------- MODULE SyntaxLemmas -----------------------------
(***************************************************************************)
(* What the operators of Syntax say of any input: where a search for a     *)
(* byte ends, where a segment that Parser::next returns lies, and that the *)
(* one terminator it holds is its last byte.                               *)
(***************************************************************************)
EXTENDS Syntax, SequenceTheorems, WellFoundedInduction, TLAPS

(* LeastOr finds one of those it is to choose from. *)
LEMMA LeastExists ==
  ASSUME NEW S, S \subseteq Nat, S # {}
  PROVE  \E m \in S : \A q \in S : m <= q
<1>1. \E x \in S : \A y \in S : <<y, x>> \notin OpToRel(<, Nat)
  BY WFMin, NatLessThanWellFounded
<1>2. PICK x \in S : \A y \in S : <<y, x>> \notin OpToRel(<, Nat)
  BY <1>1
<1>3. ASSUME NEW y \in S PROVE x <= y
  <2>1. <<y, x>> \in Nat \X Nat
    OBVIOUS
  <2>2. ~(y < x)
    BY <1>2, <2>1 DEF OpToRel
  <2> QED BY <2>2
<1> QED BY <1>3

LEMMA LeastIn ==
  ASSUME NEW S, S \subseteq Nat, NEW d, S # {}
  PROVE  /\ LeastOr(S, d) \in S
         /\ \A q \in S : LeastOr(S, d) <= q
BY LeastExists DEF LeastOr

LEMMA LeastBetween ==
  ASSUME NEW a \in Nat, NEW d \in Nat, a <= d, NEW S, S \subseteq a .. d-1
  PROVE  /\ LeastOr(S, d) \in a .. d
         /\ LeastOr(S, d) < d => LeastOr(S, d) \in S
<1>1. CASE S = {}
  BY <1>1 DEF LeastOr
<1>2. CASE S # {}
  <2>1. S \subseteq Nat
    OBVIOUS
  <2>2. LeastOr(S, d) \in S
    BY <1>2, <2>1, LeastIn
  <2>3. LeastOr(S, d) \in a .. d-1
    BY <2>2
  <2> HIDE DEF LeastOr
  <2> QED BY <2>2, <2>3
<1> QED BY <1>1, <1>2

(* What SkipWs passes over is whitespace, and what it stops at is not. *)
LEMMA SkipWsBetween ==
  ASSUME NEW s, NEW from \in Nat, NEW to \in Nat, from <= to
  PROVE  /\ SkipWs(s, from, to) \in from .. to
         /\ \A p \in from .. SkipWs(s, from, to) - 1 : At(s, p) = "ws"
         /\ SkipWs(s, from, to) < to => At(s, SkipWs(s, from, to)) # "ws"
<1> DEFINE S == {p \in from .. to-1 : At(s, p) # "ws"}
           least == LeastOr(S, to)
<1>1. S \subseteq from .. to-1 /\ S \subseteq Nat
  OBVIOUS
<1>2. least \in from .. to /\ (least < to => least \in S)
  <2> HIDE DEF S
  <2> QED BY <1>1, LeastBetween
<1>3. \A p \in S : least <= p
  <2> HIDE DEF S
  <2> QED BY <1>1, LeastIn
<1>4. ASSUME NEW p \in from .. least-1
      PROVE  At(s, p) = "ws"
  <2>1. p \in from .. to-1 /\ ~(least <= p)
    BY <1>2
  <2> HIDE DEF least
  <2> QED BY <1>3, <2>1
<1>5. SkipWs(s, from, to) = least
  BY DEF SkipWs
<1>6. least < to => At(s, least) # "ws"
  <2> HIDE DEF least
  <2> QED BY <1>2
<1> HIDE DEF least
<1> QED BY <1>2, <1>4, <1>5, <1>6

-----------------------------------------------------------------------------
(* Where a read begins makes no difference to what is escaped, as long as  *)
(* no release character lies right before it.                              *)
LEMMA EscapedFrom ==
  ASSUME NEW s, NEW from \in Int, NEW mid \in Int, NEW p \in Int,
         from <= mid, mid <= p, mid = from \/ At(s, mid - 1) # "rel"
  PROVE  Escaped(s, from, p) <=> Escaped(s, mid, p)
<1>1. CASE mid = from
  BY <1>1
<1>2. CASE mid # from /\ At(s, mid - 1) # "rel"
  <2>1. ASSUME NEW k \in 1 .. p - from, k % 2 = 1,
               \A q \in p-k .. p-1 : At(s, q) = "rel",
               p - k > from => At(s, p-k-1) # "rel"
        PROVE  Escaped(s, mid, p)
    <3>1. k \in 1 .. p - mid
      <4>1. SUFFICES ASSUME k > p - mid
                     PROVE  FALSE
        BY <1>2
      <4>2. mid - 1 \in p-k .. p-1
        BY <4>1
      <4> QED BY <1>2, <2>1, <4>2
    <3>2. p - k > mid => At(s, p-k-1) # "rel"
      BY <2>1
    <3> QED BY <2>1, <3>1, <3>2 DEF Escaped
  <2>2. ASSUME NEW k \in 1 .. p - mid, k % 2 = 1,
               \A q \in p-k .. p-1 : At(s, q) = "rel",
               p - k > mid => At(s, p-k-1) # "rel"
        PROVE  Escaped(s, from, p)
    <3>1. k \in 1 .. p - from
      OBVIOUS
    <3>2. At(s, p-k-1) # "rel"
      <4>1. CASE p - k > mid
        BY <2>2, <4>1
      <4>2. CASE ~(p - k > mid)
        <5>1. p - k - 1 = mid - 1
          BY <4>2
        <5> QED BY <1>2, <5>1
      <4> QED BY <4>1, <4>2
    <3> QED BY <2>2, <3>1, <3>2 DEF Escaped
  <2>3. Escaped(s, from, p) => Escaped(s, mid, p)
    BY <2>1 DEF Escaped
  <2>4. Escaped(s, mid, p) => Escaped(s, from, p)
    BY <2>2 DEF Escaped
  <2> QED BY <2>3, <2>4
<1> QED BY <1>1, <1>2

-----------------------------------------------------------------------------
(***************************************************************************)
(* The values of a segment: they end at the first terminator that is not   *)
(* escaped, read from the end of the tag on.                               *)
(***************************************************************************)
LEMMA ValuesWithin ==
  ASSUME NEW s, NEW t, NEW len \in Nat, NEW start \in Nat, NEW tagEnd \in Nat,
         start <= tagEnd, tagEnd <= start + MaxSegmentBytes, tagEnd < len,
         ParseValues(s, len, t, start, tagEnd).is = "segment"
  PROVE  LET p == ParseValues(s, len, t, start, tagEnd)
         IN  /\ p.from = start
             /\ p.to \in tagEnd+1 .. len
             /\ At(s, p.to - 1) = t /\ ~Escaped(s, tagEnd, p.to - 1)
             /\ \A q \in tagEnd .. p.to - 2 : At(s, q) = t => Escaped(s, tagEnd, q)
<1> DEFINE scanEnd == Lesser(start + MaxSegmentBytes + 1, len)
           stops   == {p \in tagEnd .. scanEnd-1 :
                         At(s, p) \in {"sep", t} /\ ~Escaped(s, tagEnd, p)}
           ends    == {p \in stops : At(s, p) = t}
           fence   == LeastOr(ends, scanEnd)
<1>1. scanEnd \in tagEnd+1 .. len
  BY SyntaxAssumption DEF Lesser
<1>2. ends \subseteq tagEnd .. scanEnd-1
  OBVIOUS
<1>3. fence \in tagEnd .. scanEnd /\ (fence < scanEnd => fence \in ends)
  <2>1. scanEnd \in Nat /\ tagEnd <= scanEnd
    BY <1>1
  <2> HIDE DEF ends, scanEnd
  <2> QED BY <1>2, <2>1, LeastBetween
<1>4. ParseValues(s, len, t, start, tagEnd).is = "segment"
        => /\ ParseValues(s, len, t, start, tagEnd) = Segment(start, fence + 1)
           /\ fence < scanEnd
  BY DEF ParseValues, Failure, Segment
<1>5. fence < scanEnd /\ fence \in ends
  <2> HIDE DEF fence, ends, scanEnd
  <2> QED BY <1>3, <1>4
<1>6. \A q \in ends : fence <= q
  <2>1. ends \subseteq Nat /\ ends # {}
    BY <1>1, <1>5
  <2> HIDE DEF ends
  <2> QED BY <2>1, LeastIn
<1>7. At(s, fence) = t /\ ~Escaped(s, tagEnd, fence)
  <2> HIDE DEF fence
  <2> QED BY <1>5
<1>8. ASSUME NEW q \in tagEnd .. fence-1, At(s, q) = t
      PROVE  Escaped(s, tagEnd, q)
  <2>1. q \in tagEnd .. scanEnd-1 /\ ~(fence <= q)
    BY <1>1, <1>3
  <2>2. q \notin ends
    <3> HIDE DEF ends, fence
    <3> QED BY <1>6, <2>1
  <2> HIDE DEF fence, scanEnd
  <2> QED BY <1>8, <2>1, <2>2
<1> HIDE DEF scanEnd, fence, ends
<1>9. ParseValues(s, len, t, start, tagEnd).from = start
      /\ ParseValues(s, len, t, start, tagEnd).to = fence + 1
  BY <1>4 DEF Segment
<1> DEFINE to == ParseValues(s, len, t, start, tagEnd).to
<1>10. to \in tagEnd+1 .. len /\ fence = to - 1 /\ fence - 1 = to - 2
  BY <1>1, <1>3, <1>5, <1>9
<1>11. At(s, to - 1) = t /\ ~Escaped(s, tagEnd, to - 1)
  BY <1>7, <1>10
<1>12. \A q \in tagEnd .. to - 2 : At(s, q) = t => Escaped(s, tagEnd, q)
  BY <1>8, <1>10
<1> QED BY <1>9, <1>10, <1>11, <1>12

(***************************************************************************)
(* A segment's tag: letters, none of them a separator or the terminator.   *)
(***************************************************************************)
LEMMA ParsedTag ==
  ASSUME NEW s, NEW t, NEW len \in Nat, NEW pos \in 0 .. len,
         ParseSegment(s, len, t, pos).is = "segment"
  PROVE  \E tagEnd \in Nat :
           /\ SkipWs(s, pos, len) \in pos .. len
           /\ SkipWs(s, pos, len) <= tagEnd
           /\ tagEnd <= SkipWs(s, pos, len) + MaxSegmentBytes /\ tagEnd < len
           /\ tagEnd - SkipWs(s, pos, len) = TagLen
           /\ ParseSegment(s, len, t, pos)
                = ParseValues(s, len, t, SkipWs(s, pos, len), tagEnd)
           /\ \A p \in SkipWs(s, pos, len) .. tagEnd-1 :
                At(s, p) \in TagLetters /\ At(s, p) # t
<1> DEFINE start  == SkipWs(s, pos, len)
           window == Lesser(start + MaxSegmentBytes + 1, len)
           ends   == {p \in start .. window-1 : At(s, p) \in {"sep", t}}
           tagEnd == LeastOr(ends, window)
<1>1. start \in pos .. len
  BY SkipWsBetween
<1>2. window \in Nat /\ start <= window /\ window <= len
  BY <1>1, SyntaxAssumption DEF Lesser
<1>3. ends \subseteq start .. window-1 /\ ends \subseteq Nat
  <2> HIDE DEF start, window
  <2> QED BY <1>1
<1>4. tagEnd \in start .. window
  <2>1. start \in Nat
    BY <1>1
  <2> HIDE DEF ends, window, start
  <2> QED BY <1>2, <1>3, <2>1, LeastBetween
<1>5. /\ tagEnd - start <= MaxSegmentBytes
      /\ tagEnd # len /\ tagEnd - start = TagLen
      /\ ParseSegment(s, len, t, pos) = ParseValues(s, len, t, start, tagEnd)
      /\ \A p \in start .. tagEnd-1 : At(s, p) \in TagLetters
  <2> HIDE DEF tagEnd, ends, window, start
  <2>1. ParseSegment(s, len, t, pos)
          = IF start = len THEN EndOfSegments
            ELSE IF tagEnd = start THEN Failure("InvalidDelimiter", start)
            ELSE IF tagEnd - start > MaxSegmentBytes
              THEN Failure("SegmentTooLong", start)
            ELSE IF tagEnd - start # TagLen
                    \/ \E p \in start .. tagEnd-1 : At(s, p) \notin TagLetters
              THEN Failure("InvalidSegmentTag", NoOffset)
            ELSE IF tagEnd = len THEN Failure("UnexpectedEof", len)
            ELSE ParseValues(s, len, t, start, tagEnd)
    BY DEF ParseSegment, start, tagEnd, ends, window
  <2>2. \A k, off : Failure(k, off).is # "segment"
    BY DEF Failure
  <2>3. EndOfSegments.is # "segment"
    BY DEF EndOfSegments
  <2>4. tagEnd - start > MaxSegmentBytes \/ tagEnd - start <= MaxSegmentBytes
    BY <1>1, <1>2, <1>4, SyntaxAssumption
  <2> HIDE DEF ParseSegment
  <2> QED BY <2>1, <2>2, <2>3, <2>4
<1>6. tagEnd \in Nat /\ start <= tagEnd /\ tagEnd < len
      /\ tagEnd <= start + MaxSegmentBytes
  <2> HIDE DEF tagEnd, ends, window, start
  <2> QED BY <1>1, <1>2, <1>4, <1>5, SyntaxAssumption
<1>7. ASSUME NEW p \in start .. tagEnd-1
      PROVE  At(s, p) # t
  <2>1. p \in start .. window-1 /\ ~(tagEnd <= p)
    <3> HIDE DEF tagEnd, window, start
    <3> QED BY <1>1, <1>2, <1>4
  <2>2. p \notin ends
    <3>1. ends # {} => \A q \in ends : tagEnd <= q
      <4> HIDE DEF ends
      <4> QED BY <1>3, LeastIn
    <3> HIDE DEF ends, tagEnd
    <3> QED BY <2>1, <3>1
  <2> HIDE DEF start, window, tagEnd
  <2> QED BY <2>1, <2>2
<1> HIDE DEF tagEnd, ends, window
<1> QED BY <1>1, <1>5, <1>6, <1>7

(***************************************************************************)
(* A segment that Parser::next returns: it begins at the first byte that   *)
(* is not whitespace, and the one terminator in it that is not escaped is  *)
(* its last byte.                                                          *)
(***************************************************************************)
LiesAt(p, s, t, start, len) ==
  /\ p.from = start
  /\ p.to \in start + 1 .. len
  /\ UnescapedTerms(s, start, p.to, t) = {p.to - 1}

LEMMA SegmentLies ==
  ASSUME NEW s, NEW t, NEW len \in Nat, NEW pos \in 0 .. len,
         ParseSegment(s, len, t, pos).is = "segment"
  PROVE  LiesAt(ParseSegment(s, len, t, pos), s, t, SkipWs(s, pos, len), len)
<1> DEFINE start == SkipWs(s, pos, len)
           to    == ParseSegment(s, len, t, pos).to
<1>1. PICK tagEnd \in Nat :
        /\ start \in pos .. len
        /\ start <= tagEnd /\ tagEnd <= start + MaxSegmentBytes /\ tagEnd < len
        /\ ParseSegment(s, len, t, pos) = ParseValues(s, len, t, start, tagEnd)
        /\ \A p \in start .. tagEnd-1 : At(s, p) \in TagLetters /\ At(s, p) # t
  BY ParsedTag
<1> HIDE DEF start
<1>2. /\ ParseSegment(s, len, t, pos).from = start
      /\ to \in tagEnd+1 .. len
      /\ At(s, to - 1) = t /\ ~Escaped(s, tagEnd, to - 1)
      /\ \A q \in tagEnd .. to - 2 : At(s, q) = t => Escaped(s, tagEnd, q)
  <2>1. start \in Nat /\ ParseValues(s, len, t, start, tagEnd).is = "segment"
    BY <1>1
  <2> QED BY <1>1, <2>1, ValuesWithin
<1> HIDE DEF to
<1>3. ASSUME NEW p \in tagEnd .. to-1
      PROVE  Escaped(s, start, p) <=> Escaped(s, tagEnd, p)
  <2>1. tagEnd = start \/ At(s, tagEnd - 1) # "rel"
    <3>1. CASE tagEnd # start
      <4>1. tagEnd - 1 \in start .. tagEnd-1
        BY <1>1, <3>1
      <4> QED BY <1>1, <4>1 DEF TagLetters
    <3> QED BY <3>1
  <2>2. start \in Int /\ tagEnd \in Int /\ p \in Int /\ start <= tagEnd /\ tagEnd <= p
    BY <1>1, <1>2
  <2> QED BY <2>1, <2>2, EscapedFrom
<1>4. to - 1 \in UnescapedTerms(s, start, to, t)
  <2>1. to - 1 \in tagEnd .. to-1 /\ to - 1 \in start .. to-1
    BY <1>1, <1>2
  <2> QED BY <1>2, <1>3, <2>1 DEF UnescapedTerms
<1>5. ASSUME NEW p \in UnescapedTerms(s, start, to, t)
      PROVE  p = to - 1
  <2>1. p \in start .. to-1 /\ At(s, p) = t /\ ~Escaped(s, start, p)
    BY DEF UnescapedTerms
  <2>2. ~(p \in start .. tagEnd-1)
    BY <1>1, <2>1
  <2>3. p \in tagEnd .. to-1
    BY <1>1, <1>2, <2>1, <2>2
  <2>4. ~Escaped(s, tagEnd, p)
    BY <1>3, <2>1, <2>3
  <2>5. ~(p \in tagEnd .. to-2)
    BY <1>2, <2>1, <2>4
  <2> QED BY <1>2, <2>3, <2>5
<1>6. to \in start + 1 .. len
  BY <1>1, <1>2
<1>7. UnescapedTerms(s, start, to, t) = {to - 1}
  BY <1>4, <1>5
<1> QED BY <1>2, <1>6, <1>7 DEF start, to, LiesAt

(* The same, of the place alone. *)
LEMMA ParsedWithin ==
  ASSUME NEW s, NEW t, NEW len \in Nat, NEW pos \in 0 .. len,
         ParseSegment(s, len, t, pos).is = "segment"
  PROVE  /\ ParseSegment(s, len, t, pos).from \in pos .. len
         /\ ParseSegment(s, len, t, pos).to
              \in ParseSegment(s, len, t, pos).from + 1 .. len
<1> DEFINE p     == ParseSegment(s, len, t, pos)
           start == SkipWs(s, pos, len)
<1>1. LiesAt(p, s, t, start, len)
  BY SegmentLies
<1>2. start \in pos .. len
  BY SkipWsBetween
<1> HIDE DEF p, start
<1>3. p.from \in pos .. len /\ p.to \in p.from + 1 .. len
  BY <1>1, <1>2 DEF LiesAt
<1> QED BY <1>3 DEF p

(* Bytes with a terminator where their tag should be are no segment. *)
NoTagIn(s, t) ==
  /\ At(s, 0) # "ws"
  /\ \E p \in 0 .. TagLen-1 : p < Len(s) /\ At(s, p) = t

LEMMA NoTagNoSegment ==
  ASSUME NEW s \in Seq(Bytes), NEW t, NoTagIn(s, t)
  PROVE  ParseSegment(Append(s, t), Len(s) + 1, t, 0).is # "segment"
<1> DEFINE u == Append(s, t)
           n == Len(s) + 1
<1>1. SUFFICES ASSUME ParseSegment(u, n, t, 0).is = "segment"
               PROVE  FALSE
  OBVIOUS
<1>2. PICK p \in 0 .. TagLen-1 : p < Len(s) /\ At(s, p) = t
  BY DEF NoTagIn
<1>3. At(u, p) = t /\ At(u, 0) # "ws"
  BY <1>2, SyntaxAssumption DEF At, NoTagIn
<1>4. SkipWs(u, 0, n) = 0
  <2>1. n \in Nat /\ 0 \in 0 .. n
    OBVIOUS
  <2>2. /\ SkipWs(u, 0, n) \in 0 .. n
        /\ \A q \in 0 .. SkipWs(u, 0, n) - 1 : At(u, q) = "ws"
    BY <2>1, SkipWsBetween
  <2>3. SkipWs(u, 0, n) # 0 => 0 \in 0 .. SkipWs(u, 0, n) - 1
    BY <2>2
  <2> QED BY <1>3, <2>2, <2>3
<1>5. n \in Nat /\ 0 \in 0 .. n
  OBVIOUS
<1> HIDE DEF u, n
<1>6. PICK tagEnd \in Nat :
        /\ tagEnd - SkipWs(u, 0, n) = TagLen
        /\ \A q \in SkipWs(u, 0, n) .. tagEnd-1 :
             At(u, q) \in TagLetters /\ At(u, q) # t
  BY <1>1, <1>5, ParsedTag
<1>7. p \in SkipWs(u, 0, n) .. tagEnd-1
  BY <1>2, <1>4, <1>6, SyntaxAssumption
<1> QED BY <1>3, <1>6, <1>7

-----------------------------------------------------------------------------
(* A piece u of s that begins at base: what is escaped in the one is       *)
(* escaped in the other.                                                   *)
PieceOf(u, n, s, base) == \A p \in 0 .. n-1 : At(u, p) = At(s, base + p)

LEMMA SlicePiece ==
  ASSUME NEW s \in Seq(Bytes), NEW from \in Nat, NEW to \in Nat,
         from <= to, to <= Len(s), NEW n \in Nat, n = to - from
  PROVE  PieceOf(Slice(s, from, to), n, s, from)
<1>1. ASSUME NEW p \in 0 .. n-1
      PROVE  At(Slice(s, from, to), p) = At(s, from + p)
  BY DEF At, Slice
<1> QED BY <1>1 DEF PieceOf

LEMMA EscapedShift ==
  ASSUME NEW s, NEW u, NEW base \in Nat, NEW n \in Nat, PieceOf(u, n, s, base),
         NEW from \in Nat, NEW p \in from .. n
  PROVE  Escaped(u, from, p) <=> Escaped(s, base + from, base + p)
<1>1. (base + p) - (base + from) = p - from
  OBVIOUS
<1>2. ASSUME NEW k \in 1 .. p - from
      PROVE  /\ (\A q \in p-k .. p-1 : At(u, q) = "rel")
                  <=> (\A q \in base+p-k .. base+p-1 : At(s, q) = "rel")
             /\ p - k > from => At(u, p-k-1) = At(s, base+p-k-1)
  <2>1. \A q \in p-k .. p-1 : q \in 0 .. n-1 /\ base + q \in base+p-k .. base+p-1
    OBVIOUS
  <2>2. \A q \in base+p-k .. base+p-1 : q - base \in p-k .. p-1
                                        /\ base + (q - base) = q
    OBVIOUS
  <2>3. ASSUME \A q \in p-k .. p-1 : At(u, q) = "rel",
               NEW q \in base+p-k .. base+p-1
        PROVE  At(s, q) = "rel"
    <3>1. At(u, q - base) = At(s, base + (q - base))
      BY <2>1, <2>2 DEF PieceOf
    <3> QED BY <2>2, <2>3, <3>1
  <2>4. ASSUME \A q \in base+p-k .. base+p-1 : At(s, q) = "rel",
               NEW q \in p-k .. p-1
        PROVE  At(u, q) = "rel"
    <3>1. At(u, q) = At(s, base + q)
      BY <2>1 DEF PieceOf
    <3> QED BY <2>1, <2>4, <3>1
  <2>5. ASSUME p - k > from
        PROVE  At(u, p-k-1) = At(s, base+p-k-1)
    <3>1. p-k-1 \in 0 .. n-1 /\ base + (p-k-1) = base+p-k-1
      BY <2>5
    <3> QED BY <3>1 DEF PieceOf
  <2> QED BY <2>3, <2>4, <2>5
<1>3. \A k \in 1 .. p - from : p - k > from <=> base + p - k > base + from
  OBVIOUS
<1> HIDE DEF At
<1> QED BY <1>1, <1>2, <1>3 DEF Escaped

LEMMA TermsShift ==
  ASSUME NEW s, NEW u, NEW t, NEW base \in Nat, NEW n \in Nat,
         PieceOf(u, n, s, base),
         NEW from \in Nat, NEW to \in Nat, to <= n, NEW p \in from .. to-1
  PROVE  p \in UnescapedTerms(u, from, to, t)
           <=> base + p \in UnescapedTerms(s, base + from, base + to, t)
<1>1. p \in from .. n /\ p \in 0 .. n-1
  OBVIOUS
<1>2. Escaped(u, from, p) <=> Escaped(s, base + from, base + p)
  BY <1>1, EscapedShift
<1>3. At(u, p) = At(s, base + p)
  BY <1>1 DEF PieceOf
<1>4. base + p \in base + from .. base + to - 1
  OBVIOUS
<1> HIDE DEF At
<1> QED BY <1>2, <1>3, <1>4 DEF UnescapedTerms

LEMMA TermsWiden ==
  ASSUME NEW s, NEW t, NEW from \in Int, NEW mid \in Int, NEW to \in Int,
         mid <= to, NEW p \in UnescapedTerms(s, from, mid, t)
  PROVE  p \in UnescapedTerms(s, from, to, t)
<1> HIDE DEF At
<1> QED BY DEF UnescapedTerms

(* A piece that ends at its first terminator does so in the whole, too. *)
EndsAt(s, from, to, t) == UnescapedTerms(s, from, to, t) = {to - 1}

LEMMA EndsShift ==
  ASSUME NEW s, NEW u, NEW t, NEW base \in Nat, NEW n \in Nat,
         PieceOf(u, n, s, base), NEW from \in Nat, NEW to \in from+1 .. n,
         EndsAt(u, from, to, t),
         NEW a \in Nat, NEW b \in Nat, a = base + from, b = base + to
  PROVE  EndsAt(s, a, b, t)
<1>1. to \in Nat /\ to <= n
  OBVIOUS
<1>2. ASSUME NEW p \in from .. to-1
      PROVE  p \in UnescapedTerms(u, from, to, t)
               <=> base + p \in UnescapedTerms(s, base + from, base + to, t)
  BY <1>1, TermsShift
<1>3. base + (to - 1) = base + to - 1 /\ to - 1 \in from .. to-1
  OBVIOUS
<1>4. base + to - 1 \in UnescapedTerms(s, base + from, base + to, t)
  <2>1. PICK p \in from .. to-1 : p = to - 1
    BY <1>3
  <2>2. p \in UnescapedTerms(u, from, to, t) /\ base + p = base + to - 1
    BY <1>3, <2>1 DEF EndsAt
  <2> QED BY <1>2, <2>2
<1>5. ASSUME NEW q \in UnescapedTerms(s, base + from, base + to, t)
      PROVE  q = base + to - 1
  <2>1. q \in base + from .. base + to - 1
    BY DEF UnescapedTerms
  <2>2. PICK p \in from .. to-1 : base + p = q
    <3>1. q - base \in from .. to-1 /\ base + (q - base) = q
      BY <2>1
    <3> QED BY <3>1
  <2>3. p \in UnescapedTerms(u, from, to, t)
    BY <1>2, <2>2
  <2> QED BY <1>3, <2>2, <2>3 DEF EndsAt
<1> QED BY <1>4, <1>5 DEF EndsAt

(***************************************************************************)
(* A segment parsed out of bytes that hold no terminator but their last:   *)
(* it is all of them, but for the whitespace at their beginning.           *)
(***************************************************************************)
LEMMA ParsedWhole ==
  ASSUME NEW u, NEW t, NEW len \in Nat,
         ParseSegment(u, len, t, 0).is = "segment",
         UnescapedTerms(u, 0, len - 1, t) = {}
  PROVE  LET p == ParseSegment(u, len, t, 0)
         IN  /\ p.from \in 0 .. len-1 /\ p.to = len
             /\ \A q \in 0 .. p.from - 1 : At(u, q) = "ws"
             /\ UnescapedTerms(u, p.from, len, t) = {len - 1}
<1> DEFINE p     == ParseSegment(u, len, t, 0)
           start == SkipWs(u, 0, len)
<1>1. LiesAt(p, u, t, start, len)
  BY SegmentLies
<1>2. start \in 0 .. len /\ \A q \in 0 .. start-1 : At(u, q) = "ws"
  BY SkipWsBetween
<1> HIDE DEF p, start
<1>3. p.from = start /\ p.to \in start+1 .. len
      /\ UnescapedTerms(u, start, p.to, t) = {p.to - 1}
  BY <1>1 DEF LiesAt
<1>4. p.to = len
  <2>1. SUFFICES ASSUME p.to < len
                 PROVE  FALSE
    BY <1>2, <1>3
  <2>2. /\ At(u, p.to - 1) = t /\ ~Escaped(u, start, p.to - 1)
    BY <1>3 DEF UnescapedTerms
  <2>3. start = 0 \/ At(u, start - 1) # "rel"
    <3>1. CASE start # 0
      <4>1. start - 1 \in 0 .. start-1
        BY <1>2, <3>1
      <4> QED BY <1>2, <4>1
    <3> QED BY <3>1
  <2>4. Escaped(u, 0, p.to - 1) <=> Escaped(u, start, p.to - 1)
    <3>1. 0 <= start /\ start <= p.to - 1 /\ start \in Int /\ p.to - 1 \in Int
      BY <1>2, <1>3
    <3> QED BY <2>3, <3>1, EscapedFrom
  <2>5. p.to - 1 \in 0 .. len - 1 - 1
    BY <1>2, <1>3, <2>1
  <2>6. p.to - 1 \in UnescapedTerms(u, 0, len - 1, t)
    BY <2>2, <2>4, <2>5 DEF UnescapedTerms
  <2> QED BY <2>6
<1> QED BY <1>2, <1>3, <1>4 DEF p

-----------------------------------------------------------------------------
(* Parser::next ends only where nothing but whitespace is left, and refuses *)
(* a segment as too long at its first byte.                                 *)
LEMMA ParsedOtherwise ==
  ASSUME NEW s, NEW t, NEW len, NEW pos
  PROVE  LET p == ParseSegment(s, len, t, pos)
         IN  /\ p.is = "end" => SkipWs(s, pos, len) = len
             /\ p.error.kind = "SegmentTooLong" => p.error.at = SkipWs(s, pos, len)
<1> DEFINE start  == SkipWs(s, pos, len)
           window == Lesser(start + MaxSegmentBytes + 1, len)
           tagEnd == LeastOr({p \in start .. window-1 : At(s, p) \in {"sep", t}},
                             window)
           values == ParseValues(s, len, t, start, tagEnd)
           parsed == ParseSegment(s, len, t, pos)
<1>1. \A k, off : /\ Failure(k, off).is = "error"
                  /\ Failure(k, off).error.kind = k
                  /\ Failure(k, off).error.at = off
  BY DEF Failure, Error
<1>2. \A p, q : Segment(p, q).is = "segment" /\ Segment(p, q).error.kind = "none"
  BY DEF Segment, NoError, Error
<1>3. EndOfSegments.is = "end" /\ EndOfSegments.error.kind = "none"
  BY DEF EndOfSegments, NoError, Error
<1>4. /\ values.is # "end"
      /\ values.error.kind = "SegmentTooLong" => values.error.at = start
  <2>1. \/ values = Failure("SegmentTooLong", start)
        \/ \E off : \/ values = Failure("InvalidText", off)
                    \/ values = Failure("InvalidReleaseSequence", off)
                    \/ values = Failure("UnexpectedEof", off)
        \/ \E end : values = Segment(start, end)
    <3> HIDE DEF start, tagEnd
    <3> QED BY DEF ParseValues
  <2> HIDE DEF values, start
  <2>2. CASE \E end : values = Segment(start, end)
    BY <1>2, <2>2
  <2>3. CASE ~\E end : values = Segment(start, end)
    BY <1>1, <2>1, <2>3
  <2> QED BY <2>2, <2>3
<1>5. parsed = IF start = len THEN EndOfSegments
               ELSE IF tagEnd = start THEN Failure("InvalidDelimiter", start)
               ELSE IF tagEnd - start > MaxSegmentBytes
                 THEN Failure("SegmentTooLong", start)
               ELSE IF tagEnd - start # TagLen
                       \/ \E p \in start .. tagEnd-1 : At(s, p) \notin TagLetters
                 THEN Failure("InvalidSegmentTag", NoOffset)
               ELSE IF tagEnd = len THEN Failure("UnexpectedEof", len)
               ELSE values
  BY DEF ParseSegment
<1> HIDE DEF parsed, values, tagEnd, start
<1>6. parsed.is = "end" => start = len
  BY <1>1, <1>4, <1>5
<1>7. parsed.error.kind = "SegmentTooLong" => parsed.error.at = start
  BY <1>1, <1>3, <1>4, <1>5
<1> QED BY <1>6, <1>7 DEF parsed, start

-----------------------------------------------------------------------------
(***************************************************************************)
(* Parser::next over the first bytes of an input only.  What it reads of a *)
(* segment depends on the search window: up to the byte that proves the    *)
(* segment oversized, or to the end of what the parser is given.           *)
(***************************************************************************)
Window(start, len) == Lesser(start + MaxSegmentBytes + 1, len)

TagStops(s, t, start, w) == {p \in start .. w-1 : At(s, p) \in {"sep", t}}

ValueStops(s, t, from, w) ==
  {p \in from .. w-1 : At(s, p) \in {"sep", t} /\ ~Escaped(s, from, p)}

TermStops(s, t, from, w) == {p \in ValueStops(s, t, from, w) : At(s, p) = t}

BadsIn(s, from, to) == {p \in from .. to-1 : At(s, p) = "bad"}

Overtaken(bads, stops) == {p \in bads : \E q \in stops : q > p}

ValueOf(stops, p) == 1 + Greatest({q \in stops : q < p})

Dangles(s, from, len) == At(s, len-1) = "rel" /\ ~Escaped(s, from, len-1)

(* ParseValues and ParseSegment, the window given. *)
ValuesRead(s, len, start, w, stops, term, bads, dangles) ==
  IF Overtaken(bads, stops) # {}
  THEN Failure("InvalidText", ValueOf(stops, LeastOr(Overtaken(bads, stops), 0)))
  ELSE IF term < w THEN Segment(start, term + 1)
  ELSE IF w = len /\ dangles THEN Failure("InvalidReleaseSequence", len - 1)
  ELSE IF w - start > MaxSegmentBytes THEN Failure("SegmentTooLong", start)
  ELSE IF bads # {} THEN Failure("InvalidText", ValueOf(stops, LeastOr(bads, 0)))
  ELSE Failure("UnexpectedEof", len)

ValuesIn(s, len, t, start, w, e) ==
  ValuesRead(s, len, start, w, ValueStops(s, t, e, w),
             LeastOr(TermStops(s, t, e, w), w),
             BadsIn(s, e, LeastOr(TermStops(s, t, e, w), w)),
             Dangles(s, e, len))

Letters(s, start, e) == \A p \in start .. e-1 : At(s, p) \in TagLetters

TagRead(len, start, e, letters, values) ==
  IF e = start THEN Failure("InvalidDelimiter", start)
  ELSE IF e - start > MaxSegmentBytes THEN Failure("SegmentTooLong", start)
  ELSE IF e - start # TagLen \/ ~letters THEN Failure("InvalidSegmentTag", NoOffset)
  ELSE IF e = len THEN Failure("UnexpectedEof", len)
  ELSE values

TagEnd(s, t, start, w) == LeastOr(TagStops(s, t, start, w), w)

SegmentIn(s, len, t, start, w, e) ==
  TagRead(len, start, e, Letters(s, start, e), ValuesIn(s, len, t, start, w, e))

LEMMA ValuesAre ==
  ASSUME NEW s, NEW len, NEW t, NEW start, NEW e
  PROVE  ParseValues(s, len, t, start, e)
           = ValuesIn(s, len, t, start, Window(start, len), e)
BY DEF ParseValues, ValuesIn, ValuesRead, Window, ValueStops, TermStops, BadsIn,
       Overtaken, ValueOf, Dangles

LEMMA SegmentIs ==
  ASSUME NEW s, NEW len, NEW t, NEW pos
  PROVE  ParseSegment(s, len, t, pos)
           = LET start == SkipWs(s, pos, len)
                 w     == Window(start, len)
             IN  IF start = len THEN EndOfSegments
                 ELSE SegmentIn(s, len, t, start, w, TagEnd(s, t, start, w))
<1> DEFINE start == SkipWs(s, pos, len)
           w == Window(start, len)
           e == TagEnd(s, t, start, w)
<1>1. ParseValues(s, len, t, start, e) = ValuesIn(s, len, t, start, w, e)
  BY ValuesAre
<1>2. ParseSegment(s, len, t, pos)
        = IF start = len THEN EndOfSegments
          ELSE IF e = start THEN Failure("InvalidDelimiter", start)
          ELSE IF e - start > MaxSegmentBytes THEN Failure("SegmentTooLong", start)
          ELSE IF e - start # TagLen
                  \/ \E p \in start .. e-1 : At(s, p) \notin TagLetters
            THEN Failure("InvalidSegmentTag", NoOffset)
          ELSE IF e = len THEN Failure("UnexpectedEof", len)
          ELSE ParseValues(s, len, t, start, e)
  BY DEF ParseSegment, TagEnd, TagStops, Window
<1> HIDE DEF start, w, e
<1> QED BY <1>1, <1>2 DEF start, w, e, SegmentIn, TagRead, Letters

(* Whitespace is skipped as far as the parser is given bytes. *)
LEMMA SkipPrefix ==
  ASSUME NEW s, NEW pos \in Nat, NEW m \in Nat, NEW len \in Nat, pos <= m, m <= len
  PROVE  SkipWs(s, pos, m) = IF SkipWs(s, pos, len) < m THEN SkipWs(s, pos, len) ELSE m
<1> DEFINE a == SkipWs(s, pos, m)
           b == SkipWs(s, pos, len)
<1>1. /\ a \in pos .. m /\ \A p \in pos .. a-1 : At(s, p) = "ws"
      /\ a < m => At(s, a) # "ws"
  BY SkipWsBetween
<1>2. /\ b \in pos .. len /\ \A p \in pos .. b-1 : At(s, p) = "ws"
      /\ b < len => At(s, b) # "ws"
  BY SkipWsBetween
<1> HIDE DEF a, b
<1>3. CASE b < m
  <2>1. At(s, b) # "ws" /\ b < len
    BY <1>2, <1>3
  <2>2. ~(b \in pos .. a-1)
    BY <1>1, <2>1
  <2>3. a <= b
    BY <1>1, <1>2, <2>2
  <2>4. ~(a \in pos .. b-1)
    BY <1>1, <1>2, <1>3, <2>3
  <2> QED BY <1>1, <1>2, <1>3, <2>3, <2>4 DEF a, b
<1>4. CASE ~(b < m)
  <2>1. ~(a < m)
    <3>1. SUFFICES ASSUME a < m PROVE FALSE
      OBVIOUS
    <3>2. a \in pos .. b-1
      BY <1>1, <1>2, <1>4, <3>1
    <3> QED BY <1>1, <1>2, <3>1, <3>2
  <2> QED BY <1>1, <1>4, <2>1 DEF a, b
<1> QED BY <1>3, <1>4
LEMMA FailureIs ==
  ASSUME NEW k, NEW off
  PROVE  /\ Failure(k, off).is = "error" /\ Failure(k, off).error = Error(k, off)
         /\ Failure(k, off).error.kind = k
BY DEF Failure, Error

LEMMA SegmentFields ==
  ASSUME NEW p, NEW q
  PROVE  /\ Segment(p, q).is = "segment" /\ Segment(p, q).from = p
         /\ Segment(p, q).to = q /\ Segment(p, q).error = NoError
BY DEF Segment

ParseErrors == {"InvalidDelimiter", "SegmentTooLong", "InvalidSegmentTag", "UnexpectedEof",
                "InvalidText", "InvalidReleaseSequence"}

(* What the values of a segment can be read as. *)
LEMMA ValuesCases ==
  ASSUME NEW s, NEW len, NEW start, NEW w, NEW stops, NEW term, NEW bads, NEW dangles
  PROVE  LET v == ValuesRead(s, len, start, w, stops, term, bads, dangles)
         IN  \/ \E off : v = Failure("InvalidText", off)
             \/ term < w /\ v = Segment(start, term + 1)
             \/ ~(term < w) /\ w = len /\ v = Failure("InvalidReleaseSequence", len - 1)
             \/ ~(term < w) /\ w - start > MaxSegmentBytes
                /\ v = Failure("SegmentTooLong", start)
             \/ ~(term < w) /\ ~(w - start > MaxSegmentBytes)
                /\ v = Failure("UnexpectedEof", len)
<1> DEFINE v == ValuesRead(s, len, start, w, stops, term, bads, dangles)
           ended == Overtaken(bads, stops)
           a == ValueOf(stops, LeastOr(ended, 0))
           b == ValueOf(stops, LeastOr(bads, 0))
<1>1. v = IF ended # {} THEN Failure("InvalidText", a)
          ELSE IF term < w THEN Segment(start, term + 1)
          ELSE IF w = len /\ dangles THEN Failure("InvalidReleaseSequence", len - 1)
          ELSE IF w - start > MaxSegmentBytes THEN Failure("SegmentTooLong", start)
          ELSE IF bads # {} THEN Failure("InvalidText", b)
          ELSE Failure("UnexpectedEof", len)
  BY DEF ValuesRead
<1> HIDE DEF v, ended, a, b
<1>2. CASE ended # {} \/ (v = Failure("InvalidText", b))
  BY <1>1, <1>2 DEF v
<1>3. CASE ~(ended # {} \/ (v = Failure("InvalidText", b)))
  BY <1>1, <1>3 DEF v
<1> QED BY <1>2, <1>3

LEMMA TagCases ==
  ASSUME NEW len, NEW start, NEW e, NEW letters \in BOOLEAN, NEW values
  PROVE  LET v == TagRead(len, start, e, letters, values)
         IN  \/ e = start /\ v = Failure("InvalidDelimiter", start)
             \/ e - start > MaxSegmentBytes /\ v = Failure("SegmentTooLong", start)
             \/ v = Failure("InvalidSegmentTag", NoOffset)
             \/ e = len /\ v = Failure("UnexpectedEof", len)
             \/ /\ e # start /\ ~(e - start > MaxSegmentBytes) /\ letters
                /\ e - start = TagLen /\ e # len /\ v = values
BY DEF TagRead

(* Where the window, the tag and the values of a segment end. *)
LEMMA Bounds ==
  ASSUME NEW s, NEW t, NEW start \in Nat, NEW len \in Nat, start < len
  PROVE  /\ Window(start, len) \in start+1 .. len
         /\ Window(start, len) <= start + MaxSegmentBytes + 1
         /\ start + MaxSegmentBytes + 1 <= len =>
              Window(start, len) = start + MaxSegmentBytes + 1
         /\ ~(start + MaxSegmentBytes + 1 <= len) => Window(start, len) = len
         /\ TagEnd(s, t, start, Window(start, len)) \in start .. Window(start, len)
         /\ \A p \in start .. TagEnd(s, t, start, Window(start, len)) - 1 :
              At(s, p) # t
<1> DEFINE w == Window(start, len)
           S == TagStops(s, t, start, w)
           e == TagEnd(s, t, start, w)
<1>1. /\ w \in start+1 .. len /\ w <= start + MaxSegmentBytes + 1
      /\ start + MaxSegmentBytes + 1 <= len => w = start + MaxSegmentBytes + 1
      /\ ~(start + MaxSegmentBytes + 1 <= len) => w = len
  BY SyntaxAssumption DEF Window, Lesser
<1> HIDE DEF w
<1>2. S \subseteq start .. w-1 /\ S \subseteq Nat
  BY <1>1 DEF TagStops
<1>3. e = LeastOr(S, w)
  BY DEF TagEnd
<1>4. e \in start .. w
  <2>1. w \in Nat /\ start <= w
    BY <1>1
  <2> HIDE DEF S, e
  <2> QED BY <1>2, <1>3, <2>1, LeastBetween
<1>5. ASSUME NEW p \in start .. e-1, At(s, p) = t
      PROVE  FALSE
  <2>1. p \in S /\ ~(e <= p)
    BY <1>1, <1>4, <1>5 DEF TagStops
  <2>2. \A q \in S : e <= q
    <3> HIDE DEF S, e
    <3> QED BY <1>2, <1>3, <2>1, LeastIn
  <2> HIDE DEF S, e
  <2> QED BY <2>1, <2>2
<1> HIDE DEF e
<1>6. \A p \in start .. e-1 : At(s, p) # t
  BY <1>5
<1> QED BY <1>1, <1>4, <1>6 DEF w, e

(* No terminator ends what is read to the end of its window. *)
LEMMA NoTermLeft ==
  ASSUME NEW s, NEW t, NEW from \in Nat, NEW w \in Nat, from <= w
  PROVE  /\ LeastOr(TermStops(s, t, from, w), w) \in from .. w
         /\ LeastOr(TermStops(s, t, from, w), w) < w =>
              LeastOr(TermStops(s, t, from, w), w) \in UnescapedTerms(s, from, w, t)
         /\ ~(LeastOr(TermStops(s, t, from, w), w) < w) =>
              UnescapedTerms(s, from, w, t) = {}
<1> DEFINE S == TermStops(s, t, from, w)
           least == LeastOr(S, w)
<1>1. S = UnescapedTerms(s, from, w, t)
  BY DEF TermStops, ValueStops, UnescapedTerms
<1>2. S \subseteq from .. w-1 /\ S \subseteq Nat
  BY <1>1 DEF UnescapedTerms
<1> HIDE DEF S
<1>3. least \in from .. w /\ (least < w => least \in S)
  BY <1>2, LeastBetween
<1>4. S # {} => least \in S
  BY <1>2, LeastIn
<1>5. ~(least < w) => S = {}
  <2> HIDE DEF least
  <2>1. S # {} => least \in from .. w-1
    BY <1>2, <1>4
  <2> QED BY <2>1
<1> QED BY <1>1, <1>3, <1>5 DEF S

(* Letters are no release characters: what is escaped after a tag is so    *)
(* from the segment's first byte on.                                       *)
LEMMA EscapedAfterTag ==
  ASSUME NEW s, NEW start \in Nat, NEW e \in Nat, start < e, Letters(s, start, e),
         NEW p \in Nat, e <= p
  PROVE  Escaped(s, start, p) <=> Escaped(s, e, p)
<1>1. At(s, e-1) # "rel"
  BY DEF Letters, TagLetters
<1> HIDE DEF At
<1> QED BY <1>1, EscapedFrom

LEMMA TermsAfterTag ==
  ASSUME NEW s, NEW t, NEW start \in Nat, NEW e \in Nat, start < e, Letters(s, start, e),
         \A p \in start .. e-1 : At(s, p) # t, NEW w \in Nat
  PROVE  UnescapedTerms(s, start, w, t) = UnescapedTerms(s, e, w, t)
<1>1. ASSUME NEW p, p \in UnescapedTerms(s, start, w, t)
      PROVE  p \in UnescapedTerms(s, e, w, t)
  <2>1. p \in start .. w-1 /\ At(s, p) = t /\ ~Escaped(s, start, p)
    BY <1>1 DEF UnescapedTerms
  <2>2. ~(p \in start .. e-1)
    BY <2>1
  <2>3. p \in e .. w-1 /\ p \in Nat /\ e <= p
    BY <2>1, <2>2
  <2>4. ~Escaped(s, e, p)
    BY <2>1, <2>3, EscapedAfterTag
  <2> QED BY <2>1, <2>3, <2>4 DEF UnescapedTerms
<1>2. ASSUME NEW p, p \in UnescapedTerms(s, e, w, t)
      PROVE  p \in UnescapedTerms(s, start, w, t)
  <2>1. p \in e .. w-1 /\ At(s, p) = t /\ ~Escaped(s, e, p)
    BY <1>2 DEF UnescapedTerms
  <2>2. p \in start .. w-1 /\ p \in Nat /\ e <= p
    BY <2>1
  <2>3. ~Escaped(s, start, p)
    BY <2>1, <2>2, EscapedAfterTag
  <2> QED BY <2>1, <2>2, <2>3 DEF UnescapedTerms
<1> QED BY <1>1, <1>2

(***************************************************************************)
(* What Parser::next returns, and where it looked for a terminator that it *)
(* did not find.                                                           *)
(***************************************************************************)
ReturnsFor(p, s, t, start, len) ==
  /\ p.is \in {"end", "segment", "error"}
  /\ p.is = "end" <=> start = len
  /\ p.is = "segment" => p.from = start /\ p.to \in start+1 .. Window(start, len)
  /\ p.is = "error" => p.error.kind \in ParseErrors
  /\ p.is = "error" /\ p.error.kind \in {"SegmentTooLong", "UnexpectedEof", "InvalidReleaseSequence"}
       => UnescapedTerms(s, start, Window(start, len), t) = {}
  /\ p.is = "error" /\ p.error.kind \in {"UnexpectedEof", "InvalidReleaseSequence"}
       => Window(start, len) = len
  /\ p.is = "error" /\ p.error.kind = "SegmentTooLong"
       => /\ Window(start, len) = start + MaxSegmentBytes + 1
          /\ p.error = Error("SegmentTooLong", start)

LEMMA Returns ==
  ASSUME NEW s, NEW t, NEW len \in Nat, NEW pos \in 0 .. len
  PROVE  ReturnsFor(ParseSegment(s, len, t, pos), s, t, SkipWs(s, pos, len), len)
<1> DEFINE p     == ParseSegment(s, len, t, pos)
           start == SkipWs(s, pos, len)
           w     == Window(start, len)
           e     == TagEnd(s, t, start, w)
           term  == LeastOr(TermStops(s, t, e, w), w)
           values == ValuesIn(s, len, t, start, w, e)
           terms == UnescapedTerms(s, start, w, t)
<1>1. start \in pos .. len /\ start \in Nat
  BY SkipWsBetween
<1>2. p = IF start = len THEN EndOfSegments
          ELSE TagRead(len, start, e, Letters(s, start, e), values)
  BY SegmentIs DEF SegmentIn
<1>3. CASE start = len
  <2>1. p.is = "end"
    BY <1>2, <1>3 DEF EndOfSegments
  <2> HIDE DEF p, start
  <2> QED BY <1>3, <2>1 DEF ReturnsFor, p, start
<1>4. CASE start # len
  <2>1. /\ w \in start+1 .. len /\ w <= start + MaxSegmentBytes + 1
        /\ start + MaxSegmentBytes + 1 <= len => w = start + MaxSegmentBytes + 1
        /\ ~(start + MaxSegmentBytes + 1 <= len) => w = len
        /\ e \in start .. w
        /\ \A q \in start .. e-1 : At(s, q) # t
    <3>1. start < len
      BY <1>1, <1>4
    <3> HIDE DEF start
    <3> QED BY <1>1, <3>1, Bounds
  <2> HIDE DEF start, w, e
  <2>2. /\ term \in e .. w
        /\ ~(term < w) => UnescapedTerms(s, e, w, t) = {}
    <3>1. e \in Nat /\ w \in Nat /\ e <= w
      BY <1>1, <2>1
    <3> QED BY <3>1, NoTermLeft
  <2>3. e = w => terms = {}
    BY <2>1 DEF UnescapedTerms
  <2>4. e # start /\ Letters(s, start, e) => terms = UnescapedTerms(s, e, w, t)
    BY <1>1, <2>1, TermsAfterTag
  <2> HIDE DEF terms
  <2>5. \/ e = start /\ p = Failure("InvalidDelimiter", start)
        \/ e - start > MaxSegmentBytes /\ p = Failure("SegmentTooLong", start)
        \/ p = Failure("InvalidSegmentTag", NoOffset)
        \/ e = len /\ p = Failure("UnexpectedEof", len)
        \/ /\ e # start /\ Letters(s, start, e) /\ p = values
    <3>1. Letters(s, start, e) \in BOOLEAN
      BY DEF Letters
    <3> HIDE DEF p, values
    <3> QED BY <1>2, <1>4, <3>1, TagCases
  <2>6. \/ \E off : values = Failure("InvalidText", off)
        \/ term < w /\ values = Segment(start, term + 1)
        \/ ~(term < w) /\ w = len /\ values = Failure("InvalidReleaseSequence", len - 1)
        \/ ~(term < w) /\ w - start > MaxSegmentBytes
           /\ values = Failure("SegmentTooLong", start)
        \/ ~(term < w) /\ ~(w - start > MaxSegmentBytes)
           /\ values = Failure("UnexpectedEof", len)
    BY ValuesCases DEF ValuesIn
  <2> HIDE DEF p, values, term
  <2>7. CASE \E k, off : p = Failure(k, off) /\ k \in ParseErrors
                /\ (k \in {"SegmentTooLong", "UnexpectedEof", "InvalidReleaseSequence"} => terms = {})
                /\ (k \in {"UnexpectedEof", "InvalidReleaseSequence"} => w = len)
                /\ (k = "SegmentTooLong" => w = start + MaxSegmentBytes + 1 /\ off = start)
    <3>1. PICK k, off : p = Failure(k, off) /\ k \in ParseErrors
                /\ (k \in {"SegmentTooLong", "UnexpectedEof", "InvalidReleaseSequence"} => terms = {})
                /\ (k \in {"UnexpectedEof", "InvalidReleaseSequence"} => w = len)
                /\ (k = "SegmentTooLong" => w = start + MaxSegmentBytes + 1 /\ off = start)
      BY <2>7
    <3>2. p.is = "error" /\ p.error = Error(k, off) /\ p.error.kind = k
      BY <3>1, FailureIs
    <3> QED BY <1>4, <3>1, <3>2 DEF ReturnsFor, p, start, w, terms
  <2>8. CASE p = Segment(start, term + 1) /\ term < w
    <3>1. p.is = "segment" /\ p.from = start /\ p.to = term + 1
      BY <2>8, SegmentFields
    <3>2. p.to \in start+1 .. w
      BY <1>1, <2>1, <2>2, <2>8, <3>1
    <3> QED BY <1>4, <3>1, <3>2 DEF ReturnsFor, p, start, w
  <2> QED
    <3>1. CASE e = start /\ p = Failure("InvalidDelimiter", start)
      BY <2>7, <3>1 DEF ParseErrors
    <3>2. CASE e - start > MaxSegmentBytes /\ p = Failure("SegmentTooLong", start)
      <4>1. e = w /\ w = start + MaxSegmentBytes + 1
        BY <1>1, <2>1, <3>2, SyntaxAssumption
      <4> QED BY <2>3, <2>7, <3>2, <4>1 DEF ParseErrors
    <3>3. CASE p = Failure("InvalidSegmentTag", NoOffset)
      BY <2>7, <3>3 DEF ParseErrors
    <3>4. CASE e = len /\ p = Failure("UnexpectedEof", len)
      <4>1. e = w /\ w = len
        BY <1>1, <2>1, <3>4
      <4> QED BY <2>3, <2>7, <3>4, <4>1 DEF ParseErrors
    <3>5. CASE e # start /\ Letters(s, start, e) /\ p = values
      <4>1. CASE \E off : values = Failure("InvalidText", off)
        BY <2>7, <3>5, <4>1 DEF ParseErrors
      <4>2. CASE term < w /\ values = Segment(start, term + 1)
        BY <2>8, <3>5, <4>2
      <4>3. CASE ~(term < w) /\ w = len /\ values = Failure("InvalidReleaseSequence", len - 1)
        BY <2>2, <2>4, <2>7, <3>5, <4>3 DEF ParseErrors
      <4>4. CASE ~(term < w) /\ w - start > MaxSegmentBytes
                 /\ values = Failure("SegmentTooLong", start)
        <5>1. w = start + MaxSegmentBytes + 1
          BY <1>1, <2>1, <4>4, SyntaxAssumption
        <5> QED BY <2>2, <2>4, <2>7, <3>5, <4>4, <5>1 DEF ParseErrors
      <4>5. CASE ~(term < w) /\ ~(w - start > MaxSegmentBytes)
                 /\ values = Failure("UnexpectedEof", len)
        <5>1. w = len
          BY <1>1, <2>1, <4>5, SyntaxAssumption
        <5> QED BY <2>2, <2>4, <2>7, <3>5, <4>5, <5>1 DEF ParseErrors
      <4> QED BY <2>6, <4>1, <4>2, <4>3, <4>4, <4>5
    <3> QED BY <2>5, <3>1, <3>2, <3>3, <3>4, <3>5
<1> QED BY <1>3, <1>4
-----------------------------------------------------------------------------
(* The least of a set, where the search is cut short after it.             *)
CutAt(R, S, v) == R = {p \in S : p < v}

LEMMA LeastCut ==
  ASSUME NEW S, S \subseteq Nat, NEW R, R # {}, NEW v \in Nat, NEW w \in Nat,
         CutAt(R, S, v)
  PROVE  LeastOr(R, v) = LeastOr(S, w) /\ LeastOr(R, v) \in R
<1> DEFINE a == LeastOr(R, v)
           b == LeastOr(S, w)
<1>1. R \subseteq Nat /\ R \subseteq S /\ S # {} /\ \A p \in S : p \in R <=> p < v
  BY DEF CutAt
<1>2. a \in R /\ \A q \in R : a <= q
  BY <1>1, LeastIn
<1>3. b \in S /\ \A q \in S : b <= q
  BY <1>1, LeastIn
<1> HIDE DEF a, b
<1>4. b <= a /\ a < v /\ a \in Nat /\ b \in Nat
  BY <1>1, <1>2, <1>3
<1>5. b \in R
  BY <1>1, <1>3, <1>4
<1> QED BY <1>2, <1>4, <1>5 DEF a, b

(* A value that a stop ends is read alike, however far the window reaches. *)
LEMMA ValuesCut ==
  ASSUME NEW s, NEW t, NEW start \in Nat, NEW e \in Nat, NEW v \in Nat, NEW w \in Nat,
         e <= v, v <= w, NEW m, NEW len,
         UnescapedTerms(s, e, v, t) # {}
  PROVE  ValuesIn(s, m, t, start, v, e) = ValuesIn(s, len, t, start, w, e)
<1> DEFINE R == ValueStops(s, t, e, v)
           S == ValueStops(s, t, e, w)
           Near == TermStops(s, t, e, v)
           Far == TermStops(s, t, e, w)
           term == LeastOr(Near, v)
           bads == BadsIn(s, e, term)
<1>1. CutAt(R, S, v) /\ CutAt(Near, Far, v)
  BY DEF ValueStops, TermStops, CutAt
<1>2. Near = UnescapedTerms(s, e, v, t) /\ Near # {} /\ Near \subseteq R /\ Far \subseteq Nat
  BY DEF ValueStops, TermStops, UnescapedTerms
<1>3. S \subseteq Nat /\ \A p \in R : p \in e .. v-1
  BY DEF ValueStops
<1> HIDE DEF Near, Far, R, S
<1>4. term = LeastOr(Far, w) /\ term \in Near
  <2>1. CutAt(Near, Far, v) /\ Near # {} /\ Far \subseteq Nat /\ v \in Nat
    BY <1>1, <1>2
  <2>2. LeastOr(Near, v) = LeastOr(Far, w) /\ LeastOr(Near, v) \in Near
    BY <2>1, LeastCut
  <2> QED BY <2>2
<1>5. term \in R /\ term < v /\ term < w /\ term \in Nat /\ term \in S
  <2> HIDE DEF term
  <2>1. term \in R /\ R \subseteq S
    BY <1>1, <1>2, <1>4 DEF CutAt
  <2>2. term \in e .. v-1
    BY <1>3, <2>1
  <2> QED BY <2>1, <2>2
<1>6. \A p \in bads : p < term /\ p \in Nat
  <2> HIDE DEF term
  <2> QED BY <1>5 DEF BadsIn
<1> HIDE DEF term, bads
<1>7. Overtaken(bads, R) = bads /\ Overtaken(bads, S) = bads
  BY <1>5, <1>6 DEF Overtaken
<1>8. \A p \in bads : ValueOf(R, p) = ValueOf(S, p)
  <2> SUFFICES ASSUME NEW p \in bads PROVE ValueOf(R, p) = ValueOf(S, p)
    OBVIOUS
  <2>2. p < v
    BY <1>5, <1>6
  <2>3. \A q \in S : q < p => q < v
    BY <1>3, <1>6, <2>2
  <2>1. {q \in R : q < p} = {q \in S : q < p}
    BY <1>1, <2>3 DEF CutAt
  <2> QED BY <2>1 DEF ValueOf
<1>9. bads # {} => LeastOr(bads, 0) \in bads
  <2>1. bads \subseteq Nat
    BY <1>6
  <2> QED BY <2>1, LeastIn
<1>10. bads # {} => ValueOf(R, LeastOr(bads, 0)) = ValueOf(S, LeastOr(bads, 0))
  BY <1>8, <1>9
<1>11. ValuesRead(s, m, start, v, R, term, bads, Dangles(s, e, m))
         = IF bads # {} THEN Failure("InvalidText", ValueOf(R, LeastOr(bads, 0)))
           ELSE Segment(start, term + 1)
  BY <1>5, <1>7 DEF ValuesRead
<1>12. ValuesRead(s, len, start, w, S, term, bads, Dangles(s, e, len))
         = IF bads # {} THEN Failure("InvalidText", ValueOf(S, LeastOr(bads, 0)))
           ELSE Segment(start, term + 1)
  BY <1>5, <1>7 DEF ValuesRead
<1>13. ValuesIn(s, m, t, start, v, e)
         = ValuesRead(s, m, start, v, R, term, bads, Dangles(s, e, m))
  BY DEF ValuesIn, R, term, Near, bads
<1>14. ValuesIn(s, len, t, start, w, e)
         = ValuesRead(s, len, start, w, S, term, bads, Dangles(s, e, len))
  <2>1. LeastOr(TermStops(s, t, e, w), w) = term
    BY <1>4 DEF Far
  <2> QED BY <2>1 DEF ValuesIn, S, bads
<1> QED BY <1>10, <1>11, <1>12, <1>13, <1>14

(***************************************************************************)
(* A segment whose terminator lies within the first m bytes is read from   *)
(* them as it is from the whole input.                                     *)
(***************************************************************************)
LEMMA TermInside ==
  ASSUME NEW s, NEW t, NEW m \in Nat, NEW len \in Nat, m <= len, NEW pos \in 0 .. m,
         NEW start, start = SkipWs(s, pos, len), start < m,
         UnescapedTerms(s, start, Window(start, m), t) # {}
  PROVE  ParseSegment(s, m, t, pos) = ParseSegment(s, len, t, pos)
<1> DEFINE v == Window(start, m)
           w == Window(start, len)
           R == TagStops(s, t, start, v)
           S == TagStops(s, t, start, w)
           e == LeastOr(R, v)
<1>1. start \in Nat /\ start < len
  <2>1. start \in pos .. len
    BY SkipWsBetween
  <2> QED BY <2>1
<1>2. SkipWs(s, pos, m) = start
  BY SkipPrefix
<1>3. /\ v \in start+1 .. m /\ v <= start + MaxSegmentBytes + 1
      /\ TagEnd(s, t, start, v) \in start .. v
      /\ \A q \in start .. TagEnd(s, t, start, v) - 1 : At(s, q) # t
  BY <1>1, Bounds
<1>4. w \in start+1 .. len /\ v <= w /\ v \in Nat /\ w \in Nat
  BY <1>1, SyntaxAssumption DEF Window, Lesser
<1>5. UnescapedTerms(s, start, v, t) # {}
  OBVIOUS
<1> HIDE DEF v, w
<1>6. CutAt(R, S, v) /\ R # {} /\ S \subseteq Nat
  BY <1>1, <1>4, <1>5 DEF TagStops, UnescapedTerms, CutAt
<1>7. e = LeastOr(S, w) /\ e \in R
  <2> HIDE DEF R, S
  <2> QED BY <1>4, <1>6, LeastCut
<1>8. TagEnd(s, t, start, v) = e /\ TagEnd(s, t, start, w) = e
  BY <1>7 DEF TagEnd
<1>9. e \in start .. v-1 /\ e \in Nat
  <2>1. e \in start .. v-1
    <3> HIDE DEF e
    <3> QED BY <1>7 DEF TagStops
  <2> HIDE DEF e
  <2> QED BY <1>1, <2>1
<1> HIDE DEF e, R, S
<1>10. e # m /\ e # len
  BY <1>3, <1>4, <1>9
<1>11. e # start /\ Letters(s, start, e) =>
         ValuesIn(s, m, t, start, v, e) = ValuesIn(s, len, t, start, w, e)
  <2> SUFFICES ASSUME e # start, Letters(s, start, e)
               PROVE  ValuesIn(s, m, t, start, v, e) = ValuesIn(s, len, t, start, w, e)
    OBVIOUS
  <2>1. UnescapedTerms(s, start, v, t) = UnescapedTerms(s, e, v, t)
    <3>1. start < e /\ \A q \in start .. e-1 : At(s, q) # t
      BY <1>1, <1>3, <1>8, <1>9
    <3> QED BY <1>1, <1>4, <1>9, <3>1, TermsAfterTag
  <2>2. e <= v /\ v <= w
    BY <1>4, <1>9
  <2> QED BY <1>1, <1>4, <1>5, <1>9, <2>1, <2>2, ValuesCut
<1>12. SegmentIn(s, m, t, start, v, e) = SegmentIn(s, len, t, start, w, e)
  <2> DEFINE x == ValuesIn(s, m, t, start, v, e)
             y == ValuesIn(s, len, t, start, w, e)
  <2>1. e # start /\ Letters(s, start, e) => x = y
    BY <1>11
  <2> HIDE DEF x, y
  <2>2. TagRead(m, start, e, Letters(s, start, e), x)
          = TagRead(len, start, e, Letters(s, start, e), y)
    BY <1>10, <2>1 DEF TagRead
  <2> QED BY <2>2 DEF SegmentIn, x, y
<1>13. ParseSegment(s, m, t, pos) = SegmentIn(s, m, t, start, v, e)
  BY <1>2, <1>8, SegmentIs DEF v
<1>14. ParseSegment(s, len, t, pos) = SegmentIn(s, len, t, start, w, e)
  BY <1>1, <1>8, SegmentIs DEF w
<1> QED BY <1>12, <1>13, <1>14

(***************************************************************************)
(* An oversized segment is found so within the first m bytes, when they    *)
(* hold the byte that proves it; but a release character that is the last  *)
(* of them is refused first.                                               *)
(***************************************************************************)
LEMMA ProofInside ==
  ASSUME NEW s, NEW t, NEW m \in Nat, NEW len \in Nat, m < len, NEW pos \in 0 .. m,
         NEW start, start = SkipWs(s, pos, len), start + MaxSegmentBytes + 1 <= m
  PROVE  \/ ParseSegment(s, m, t, pos) = ParseSegment(s, len, t, pos)
         \/ /\ ParseSegment(s, m, t, pos) = Failure("InvalidReleaseSequence", m - 1)
            /\ ParseSegment(s, len, t, pos) = Failure("SegmentTooLong", start)
            /\ Window(start, m) = m
<1> DEFINE w == Window(start, len)
           e == TagEnd(s, t, start, w)
           stops == ValueStops(s, t, e, w)
           term == LeastOr(TermStops(s, t, e, w), w)
           bads == BadsIn(s, e, term)
           x == ValuesIn(s, m, t, start, w, e)
           y == ValuesIn(s, len, t, start, w, e)
<1>1. start \in Nat /\ start < len /\ start < m
  <2>1. start \in pos .. len
    BY SkipWsBetween
  <2> QED BY <2>1, SyntaxAssumption
<1>2. SkipWs(s, pos, m) = start
  BY <1>1, SkipPrefix
<1>3. /\ w = start + MaxSegmentBytes + 1 /\ w \in start+1 .. len /\ w < len /\ w <= m
      /\ e \in start .. w
  <2>1. start + MaxSegmentBytes + 1 <= len
    BY <1>1, SyntaxAssumption
  <2>2. w = start + MaxSegmentBytes + 1 /\ w \in start+1 .. len /\ e \in start .. w
    BY <1>1, <2>1, Bounds
  <2> HIDE DEF w
  <2> QED BY <2>2
<1>4. Window(start, m) = w
  BY <1>1, <1>3, Bounds
<1> HIDE DEF w, e
<1>5. x = ValuesRead(s, m, start, w, stops, term, bads, Dangles(s, e, m))
  BY DEF ValuesIn
<1>6. y = ValuesRead(s, len, start, w, stops, term, bads, Dangles(s, e, len))
  BY DEF ValuesIn
<1> HIDE DEF x, y, stops, term, bads
<1>7. w # len /\ w - start > MaxSegmentBytes
  BY <1>1, <1>3, SyntaxAssumption
<1>8. \/ x = y
      \/ /\ x = Failure("InvalidReleaseSequence", m - 1) /\ y = Failure("SegmentTooLong", start)
         /\ w = m
  <2> DEFINE ended == Overtaken(bads, stops)
             bad == Failure("InvalidText", ValueOf(stops, LeastOr(ended, 0)))
             over == Failure("SegmentTooLong", start)
             cut == Failure("InvalidReleaseSequence", m - 1)
  <2>1. x = IF ended # {} THEN bad
            ELSE IF term < w THEN Segment(start, term + 1)
            ELSE IF w = m /\ Dangles(s, e, m) THEN cut ELSE over
    BY <1>5, <1>7 DEF ValuesRead
  <2>2. y = IF ended # {} THEN bad
            ELSE IF term < w THEN Segment(start, term + 1) ELSE over
    BY <1>6, <1>7 DEF ValuesRead
  <2> HIDE DEF ended, bad, over, cut
  <2>3. x = y \/ (x = cut /\ y = over /\ w = m)
    BY <2>1, <2>2
  <2> QED BY <2>3 DEF cut, over
<1>9. TagRead(m, start, e, Letters(s, start, e), x) = TagRead(len, start, e, Letters(s, start, e), y)
      \/ /\ TagRead(m, start, e, Letters(s, start, e), x) = x
         /\ TagRead(len, start, e, Letters(s, start, e), y) = y
         /\ x = Failure("InvalidReleaseSequence", m - 1) /\ y = Failure("SegmentTooLong", start)
         /\ w = m
  <2>1. ~(e - start > MaxSegmentBytes) => e # m /\ e # len
    <3>1. e \in Int /\ e <= start + MaxSegmentBytes + 1 /\ start + MaxSegmentBytes \in Int
      BY <1>1, <1>3, SyntaxAssumption
    <3> QED BY <1>1, <1>3, <3>1, SyntaxAssumption
  <2> QED BY <1>8, <2>1 DEF TagRead
<1>10. ParseSegment(s, m, t, pos) = TagRead(m, start, e, Letters(s, start, e), x)
  <2>1. start # m
    BY <1>1
  <2> QED BY <1>2, <1>4, <2>1, SegmentIs DEF e, x, SegmentIn
<1>11. ParseSegment(s, len, t, pos) = TagRead(len, start, e, Letters(s, start, e), y)
  <2>1. start # len
    BY <1>1
  <2> QED BY <2>1, SegmentIs DEF w, e, y, SegmentIn
<1> QED BY <1>4, <1>8, <1>9, <1>10, <1>11

(* A segment's terminator is the first in it that is not escaped. *)
LEMMA SegmentTerm ==
  ASSUME NEW s, NEW t, NEW len \in Nat, NEW pos \in 0 .. len, NEW start,
         start = SkipWs(s, pos, len), NEW p, p = ParseSegment(s, len, t, pos),
         p.is = "segment"
  PROVE  /\ p.to \in start+1 .. len
         /\ \A w \in Nat : p.to <= w => p.to - 1 \in UnescapedTerms(s, start, w, t)
<1>1. LiesAt(p, s, t, start, len)
  BY SegmentLies
<1>2. p.to \in start+1 .. len /\ p.to - 1 \in UnescapedTerms(s, start, p.to, t)
  BY <1>1 DEF LiesAt
<1>3. start \in Nat
  BY SkipWsBetween
<1>4. ASSUME NEW w \in Nat, p.to <= w
      PROVE  p.to - 1 \in UnescapedTerms(s, start, w, t)
  <2>1. start \in Int /\ p.to \in Int /\ w \in Int
    BY <1>2, <1>3
  <2> QED BY <1>2, <1>4, <2>1, TermsWiden
<1> QED BY <1>2, <1>4

(* Whitespace before a segment holds no terminator, and escapes nothing. *)
LEMMA TermsAfterBlanks ==
  ASSUME NEW s, NEW t, t # "ws", NEW pos \in Nat, NEW start \in Nat, pos <= start,
         \A p \in pos .. start-1 : At(s, p) = "ws", NEW w \in Nat
  PROVE  UnescapedTerms(s, pos, w, t) = UnescapedTerms(s, start, w, t)
<1>1. start = pos \/ At(s, start - 1) # "rel"
  <2>1. start # pos => start - 1 \in pos .. start-1
    OBVIOUS
  <2> QED BY <2>1
<1>2. ASSUME NEW p \in Nat, start <= p
      PROVE  Escaped(s, pos, p) <=> Escaped(s, start, p)
  <2> HIDE DEF At
  <2> QED BY <1>1, <1>2, EscapedFrom
<1>3. ASSUME NEW p, p \in UnescapedTerms(s, pos, w, t)
      PROVE  p \in UnescapedTerms(s, start, w, t)
  <2>1. p \in pos .. w-1 /\ At(s, p) = t /\ ~Escaped(s, pos, p)
    BY <1>3 DEF UnescapedTerms
  <2>2. ~(p \in pos .. start-1)
    BY <2>1
  <2>3. p \in start .. w-1 /\ p \in Nat /\ start <= p
    BY <2>1, <2>2
  <2> QED BY <1>2, <2>1, <2>3 DEF UnescapedTerms
<1>4. ASSUME NEW p, p \in UnescapedTerms(s, start, w, t)
      PROVE  p \in UnescapedTerms(s, pos, w, t)
  <2>1. p \in start .. w-1 /\ At(s, p) = t /\ ~Escaped(s, start, p)
    BY <1>4 DEF UnescapedTerms
  <2>2. p \in pos .. w-1 /\ p \in Nat /\ start <= p
    BY <2>1
  <2> QED BY <1>2, <2>1, <2>2 DEF UnescapedTerms
<1> QED BY <1>3, <1>4

(* What is so at 0 and passed on from each number to the next is so up to  *)
(* n: F is the set of those for which it is.                               *)
LEMMA ClimbsTo ==
  ASSUME NEW m \in Int, NEW n \in Int, NEW F, m \in F,
         \A i \in m+1..n : i-1 \in F => i \in F
  PROVE  \A i \in m..n : i \in F
<1> DEFINE B == {k \in Nat : k <= n - m /\ m + k \notin F}
<1>1. SUFFICES ASSUME B # {} PROVE FALSE
  <2>1. ASSUME NEW i \in m..n, i \notin F PROVE i - m \in B
    BY <2>1
  <2> QED BY <1>1, <2>1
<1>2. PICK k \in B : \A q \in B : k <= q
  BY <1>1, LeastExists
<1>3. k # 0
  BY <1>2
<1>4. k - 1 \notin B
  BY <1>2
<1>5. m + k \in m+1..n /\ (m + k) - 1 = m + (k - 1) /\ k - 1 \in Nat /\ k - 1 <= n - m
  BY <1>2, <1>3
<1>6. m + (k - 1) \in F
  BY <1>4, <1>5
<1> QED BY <1>2, <1>5, <1>6
=============================================================================
