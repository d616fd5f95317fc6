------------------------- MODULE SegmentStreamProofs -------------------------
(***************************************************************************)
(* The offsets, the byte budget and the memory of SegmentStream, that its  *)
(* segments tile the input, and that it agrees with the iterator over the  *)
(* slice, for inputs of any length and any chunks.                         *)
(***************************************************************************)
EXTENDS SegmentPaths, SyntaxLemmas

-----------------------------------------------------------------------------
LEMMA AccountBgm ==
  ASSUME NEW b \in Budgets
  PROVE  Account(b, "BGM") \in Budgets
BY DEF Budgets, Account, MessagesAfter, MessageSegmentsAfter

LEMMA TypeInit == Init => TypeOK
<1> SUFFICES ASSUME Init
             PROVE  TypeOK
  OBVIOUS
<1>1. NewBudget \in Budgets
  BY DEF NewBudget, Budgets
<1>2. segs \in Seq([from: Nat, to: Nat]) /\ raw \in Seq(Bytes)
  BY DEF Init
<1>3. term \in Bytes
  BY AdviceAssumption DEF Init, Bytes
<1>4. input \in Seq(Bytes) /\ consumed \in 0..Len(input) /\ avail \in 0..Left
  BY InputsAssumption DEF Init, Left
<1>5. scanned \in BOOLEAN /\ ended \in BOOLEAN
  BY DEF Init
<1> QED BY <1>1, <1>2, <1>3, <1>4, <1>5 DEF Init, TypeOK

-----------------------------------------------------------------------------
(***************************************************************************)
(* The inductive invariant.  ReaderOK: the offset is the number of bytes   *)
(* given up.  IterOK: a segment handed out ends where the reader has       *)
(* already been, and the slow path holds the bytes read since rawStart.    *)
(* InBudget: the reader stays within the byte budget.                      *)
(***************************************************************************)
ReaderOK ==
  /\ input \in Seq(Bytes)
  /\ consumed \in 0..Len(input)
  /\ avail \in 0..Left
  /\ offset = consumed

SlowOK ==
  /\ phase \in {"top", "lead", "una", "body"}
  /\ raw \in Seq(Bytes)
  /\ rawStart \in Nat
  /\ state # "Done" /\ phase \in {"una", "body"} =>
       rawStart <= consumed /\ raw = Slice(input, rawStart, consumed)

IterOK ==
  /\ state \in {"Init", "Running", "Done"}
  /\ term \in Bytes
  /\ scanned \in BOOLEAN
  /\ ended \in BOOLEAN

SegsOK ==
  /\ budget \in Budgets
  /\ segs \in Seq([from: Nat, to: Nat])
  /\ \A i \in 1..Len(segs) : segs[i].to <= consumed

InBudget == MaxInputBytes # None => consumed <= MaxInputBytes

StreamInv == ReaderOK /\ SlowOK /\ IterOK /\ SegsOK /\ InBudget

LEMMA SegmentEnd ==
  ASSUME SegsOK, NEW i \in 1..Len(segs)
  PROVE  segs[i].to \in Nat /\ segs[i].to <= consumed
<1>1. segs[i] \in [from: Nat, to: Nat]
  <2>1. segs \in Seq([from: Nat, to: Nat])
    BY DEF SegsOK
  <2> QED BY <2>1, ElementOfSeq
<1> QED BY <1>1 DEF SegsOK

LEMMA StreamInvImplies ==
  StreamInv => TypeOK /\ OffsetTracksInput /\ NothingBeyondBudget
<1> SUFFICES ASSUME StreamInv
             PROVE  TypeOK /\ OffsetTracksInput /\ NothingBeyondBudget
  OBVIOUS
<1>1. TypeOK
  <2>1. offset \in Nat
    BY DEF StreamInv, ReaderOK
  <2> QED BY <2>1 DEF StreamInv, ReaderOK, SlowOK, IterOK, SegsOK, TypeOK
<1>2. OffsetTracksInput
  BY DEF StreamInv, ReaderOK, SlowOK, OffsetTracksInput, Running
<1>3. NothingBeyondBudget
  <2> SUFFICES ASSUME MaxInputBytes # None
               PROVE  /\ consumed <= MaxInputBytes
                      /\ \A i \in 1..Len(segs) : segs[i].to <= MaxInputBytes
    BY DEF NothingBeyondBudget
  <2>1. MaxInputBytes \in Nat /\ consumed \in Nat /\ consumed <= MaxInputBytes
    BY LimitsAssumption DEF StreamInv, ReaderOK, InBudget
  <2>2. ASSUME NEW i \in 1..Len(segs) PROVE segs[i].to <= MaxInputBytes
    <3>1. segs[i].to \in Nat /\ segs[i].to <= consumed
      BY SegmentEnd DEF StreamInv
    <3> QED BY <2>1, <3>1
  <2> QED BY <2>1, <2>2
<1> QED BY <1>1, <1>2, <1>3

LEMMA StreamInit == Init => StreamInv
<1> SUFFICES ASSUME Init
             PROVE  StreamInv
  OBVIOUS
<1>1. ReaderOK /\ SlowOK /\ IterOK
  BY TypeInit DEF Init, TypeOK, ReaderOK, SlowOK, IterOK
<1>2. SegsOK
  <2>1. segs = <<>> /\ Len(segs) = 0
    BY DEF Init
  <2> QED BY <2>1, TypeInit DEF TypeOK, SegsOK
<1>3. InBudget
  BY LimitsAssumption DEF Init, InBudget
<1> QED BY <1>1, <1>2, <1>3 DEF StreamInv

(* Giving up n bytes of the buffer keeps the offset in step. *)
LEMMA ConsumeOK ==
  ASSUME ReaderOK, NEW n \in Nat, n <= avail, Consume(n)
  PROVE  ReaderOK' /\ consumed' = consumed + n /\ consumed <= consumed'
BY DEF ReaderOK, Consume, Left

(* The iteration fails: nothing else changes. *)
LEMMA FailOK ==
  ASSUME StreamInv, consumed' \in Nat, consumed <= consumed', NEW e, Fail(e)
  PROVE  SlowOK' /\ IterOK' /\ SegsOK'
<1>1. SlowOK'
  BY DEF StreamInv, SlowOK, Fail, slowVars
<1>2. IterOK'
  BY DEF StreamInv, IterOK, Fail, slowVars
<1>3. SegsOK'
  <2>1. segs' = segs /\ budget' = budget
    BY DEF Fail
  <2>2. consumed \in Nat
    BY DEF StreamInv, ReaderOK
  <2>3. ASSUME NEW i \in 1..Len(segs) PROVE segs[i].to <= consumed'
    <3>1. segs[i].to \in Nat /\ segs[i].to <= consumed
      BY SegmentEnd DEF StreamInv
    <3> QED BY <2>2, <3>1
  <2> QED BY <2>1, <2>3 DEF StreamInv, SegsOK
<1> QED BY <1>1, <1>2, <1>3

(* A segment that ends where the reader is now is handed out or refused. *)
LEMMA HandOutOK ==
  ASSUME StreamInv, consumed' \in Nat, consumed <= consumed',
         NEW g \in [from: Nat, to: Nat], g.to <= consumed', HandOut(g)
  PROVE  SlowOK' /\ IterOK' /\ SegsOK'
<1>1. CASE AdmitsSegment(budget, "BGM")
  <2> USE <1>1
  <2>1. SlowOK'
    <3>1. phase' = "top" /\ raw' = <<>> /\ rawStart' = 0
      BY DEF HandOut
    <3> QED BY <3>1 DEF SlowOK
  <2>2. IterOK'
    <3>1. state' = "Running" /\ scanned' = TRUE /\ ended' = ended /\ term' = term
      BY DEF HandOut
    <3> QED BY <3>1 DEF StreamInv, IterOK
  <2>3. SegsOK'
    <3>1. segs' = Append(segs, g) /\ budget' = Account(budget, "BGM")
      BY DEF HandOut
    <3>2. segs \in Seq([from: Nat, to: Nat]) /\ budget \in Budgets
      BY DEF StreamInv, SegsOK
    <3>3. budget' \in Budgets
      BY <3>1, <3>2, AccountBgm
    <3>4. ASSUME NEW i \in 1..Len(segs') PROVE segs'[i].to <= consumed'
      <4>1. CASE i = Len(segs) + 1
        BY <3>1, <3>2, <4>1
      <4>2. CASE i \in 1..Len(segs)
        <5>1. segs'[i] = segs[i]
          BY <3>1, <3>2, <4>2
        <5>2. segs[i].to \in Nat /\ segs[i].to <= consumed
          BY <4>2, SegmentEnd DEF StreamInv
        <5>3. consumed \in Nat
          BY DEF StreamInv, ReaderOK
        <5> QED BY <5>1, <5>2, <5>3
      <4> QED BY <3>1, <3>2, <4>1, <4>2
    <3> QED BY <3>1, <3>2, <3>3, <3>4 DEF SegsOK
  <2> QED BY <2>1, <2>2, <2>3
<1>2. CASE ~AdmitsSegment(budget, "BGM")
  BY <1>2, FailOK DEF HandOut
<1> QED BY <1>1, <1>2

-----------------------------------------------------------------------------
(* A byte that is read is in the buffer and inside the byte budget. *)
LEMMA ByteAtHand ==
  ASSUME StreamInv, Reads
  PROVE  /\ 1 <= avail /\ consumed < Len(input)
         /\ Byte \in Bytes
         /\ MaxInputBytes # None => consumed + 1 <= MaxInputBytes
<1>1. input \in Seq(Bytes) /\ consumed \in 0..Len(input) /\ avail \in 0..Left
  BY DEF StreamInv, ReaderOK
<1>2. 1 <= avail
  BY <1>1 DEF Reads, Ready, AtEof, Left
<1>3. consumed < Len(input)
  BY <1>1, <1>2 DEF Left
<1>4. Byte \in Bytes
  <2>1. consumed + 1 \in 1..Len(input)
    BY <1>1, <1>3
  <2> QED BY <1>1, <2>1, ElementOfSeq DEF Byte, At
<1>5. MaxInputBytes # None => consumed + 1 <= MaxInputBytes
  BY <1>1, LimitsAssumption DEF Reads, SeesByte, Exceeds, StreamInv, ReaderOK
<1> QED BY <1>2, <1>3, <1>4, <1>5

(* A sequence that ends where the reader is, grows by the byte read. *)
LEMMA SliceGrows ==
  ASSUME StreamInv, Reads, NEW from \in Nat, from <= consumed
  PROVE  /\ Slice(input, from, consumed) \in Seq(Bytes)
         /\ Len(Slice(input, from, consumed)) = consumed - from
         /\ Slice(input, from, consumed + 1)
              = Append(Slice(input, from, consumed), Byte)
<1>1. input \in Seq(Bytes) /\ consumed \in Nat /\ consumed < Len(input)
  BY ByteAtHand DEF StreamInv, ReaderOK
<1> QED BY <1>1 DEF Slice, Byte, At

LEMMA FirstByte ==
  ASSUME StreamInv, Reads
  PROVE  Slice(input, consumed, consumed + 1) = <<Byte>>
<1>1. consumed \in Nat
  BY DEF StreamInv, ReaderOK
<1>2. Slice(input, consumed, consumed) = <<>>
  BY <1>1 DEF Slice
<1>3. Slice(input, consumed, consumed + 1)
       = Append(Slice(input, consumed, consumed), Byte)
  BY <1>1, SliceGrows
<1>4. Append(<<>>, Byte) = <<Byte>>
  OBVIOUS
<1> QED BY <1>2, <1>3, <1>4

LEMMA ReadOne ==
  ASSUME StreamInv, Reads, Consume(1)
  PROVE  /\ ReaderOK' /\ InBudget'
         /\ consumed' = consumed + 1 /\ consumed <= consumed'
         /\ consumed' \in Nat /\ input' = input
<1>1. ReaderOK
  BY DEF StreamInv
<1>2. 1 <= avail /\ (MaxInputBytes # None => consumed + 1 <= MaxInputBytes)
  BY ByteAtHand
<1>3. ReaderOK' /\ consumed' = consumed + 1 /\ consumed <= consumed'
  BY <1>1, <1>2, ConsumeOK
<1> QED BY <1>1, <1>2, <1>3 DEF InBudget, ReaderOK, Consume

(* The segment the slow path parsed ends at the terminator just read. *)
LEMMA FinishOK ==
  ASSUME StreamInv, state # "Done", phase \in {"una", "body"},
         consumed' \in Nat, consumed' = consumed + 1, Finish(raw)
  PROVE  SlowOK' /\ IterOK' /\ SegsOK'
<1> DEFINE parsed == ParseSegment(Append(raw, term), Len(raw) + 1, term, 0)
<1>1. consumed \in Nat /\ consumed <= consumed'
  BY DEF StreamInv, ReaderOK
<1>2. raw \in Seq(Bytes) /\ rawStart \in Nat /\ rawStart + Len(raw) = consumed
  <2>1. rawStart <= consumed /\ raw = SubSeq(input, rawStart + 1, consumed)
    BY DEF StreamInv, SlowOK, Slice
  <2> QED BY <1>1, <2>1 DEF StreamInv, SlowOK, ReaderOK
<1>3. CASE parsed.is = "segment"
  <2> DEFINE g == [from |-> rawStart + parsed.from, to |-> rawStart + parsed.to]
  <2>1. Len(raw) + 1 \in Nat /\ 0 \in 0 .. Len(raw) + 1
    BY <1>2
  <2>2. /\ parsed.from \in 0 .. Len(raw) + 1
        /\ parsed.to \in parsed.from + 1 .. Len(raw) + 1
    BY <1>3, <2>1, ParsedWithin
  <2>3. HandOut(g)
    BY <1>3 DEF Finish
  <2> HIDE DEF parsed
  <2>4. g \in [from: Nat, to: Nat] /\ g.to <= consumed'
    BY <1>1, <1>2, <2>2
  <2> HIDE DEF g
  <2> QED BY <1>1, <2>3, <2>4, HandOutOK
<1>4. CASE parsed.is # "segment"
  BY <1>1, <1>4, FailOK DEF Finish
<1> QED BY <1>3, <1>4

LEMMA TermsWithin ==
  ASSUME NEW s, NEW from, NEW to, NEW t
  PROVE  UnescapedTerms(s, from, to, t) \subseteq from .. to-1
BY DEF UnescapedTerms

(* The unit of the fast path lies in the buffer and inside the budget. *)
LEMMA UnitAtHand ==
  ASSUME StreamInv, FastAdmitted
  PROVE  /\ Pos \in Nat /\ Pos + 1 <= avail
         /\ MaxInputBytes # None => consumed + Pos + 1 <= MaxInputBytes
<1>1. consumed \in Nat /\ avail \in Nat /\ offset = consumed
  BY DEF StreamInv, ReaderOK, Left
<1>2. InBuffer \subseteq consumed .. consumed + avail - 1 /\ InBuffer # {}
  <2>1. InBuffer # {}
    BY DEF FastAdmitted, FastUnit
  <2>2. InBuffer \subseteq consumed .. consumed + avail - 1
    BY <1>1, TermsWithin DEF InBuffer
  <2> QED BY <2>1, <2>2
<1>3. LeastOr(InBuffer, 0) \in InBuffer
  <2>1. InBuffer \subseteq Nat
    BY <1>1, <1>2
  <2> QED BY <1>2, <2>1, LeastIn
<1>4. Pos \in Nat /\ Pos + 1 <= avail
  <2>1. LeastOr(InBuffer, 0) \in consumed .. consumed + avail - 1
    BY <1>2, <1>3
  <2> QED BY <1>1, <2>1 DEF Pos
<1>5. MaxInputBytes # None => consumed + Pos + 1 <= MaxInputBytes
  BY <1>1, <1>4, LimitsAssumption DEF FastAdmitted, AdmitsBytes, Exceeds
<1> QED BY <1>4, <1>5

LEMMA ReadUnit ==
  ASSUME StreamInv, FastAdmitted, Consume(Pos + 1)
  PROVE  /\ ReaderOK' /\ InBudget'
         /\ consumed' = consumed + Pos + 1 /\ consumed <= consumed'
         /\ consumed' \in Nat /\ consumed \in Nat
<1>1. ReaderOK /\ consumed \in Nat
  BY DEF StreamInv, ReaderOK
<1>2. /\ Pos \in Nat /\ Pos + 1 <= avail /\ Pos + 1 \in Nat
      /\ MaxInputBytes # None => consumed + Pos + 1 <= MaxInputBytes
  BY UnitAtHand
<1>3. ReaderOK' /\ consumed' = consumed + (Pos + 1) /\ consumed <= consumed'
  BY <1>1, <1>2, ConsumeOK
<1>4. consumed' = consumed + Pos + 1 /\ consumed' \in Nat
  BY <1>1, <1>2, <1>3
<1> QED BY <1>1, <1>2, <1>3, <1>4 DEF InBudget

-----------------------------------------------------------------------------
(* The steps that leave the reader where it is. *)
LEMMA StaysOK ==
  ASSUME StreamInv, UNCHANGED <<readerVars, offset>>
  PROVE  /\ ReaderOK' /\ InBudget'
         /\ consumed' \in Nat /\ consumed <= consumed'
BY DEF StreamInv, ReaderOK, InBudget, readerVars, Left

(* The steps that leave segs alone, wherever the reader goes. *)
LEMMA SegsKept ==
  ASSUME StreamInv, consumed' \in Nat, consumed <= consumed',
         UNCHANGED <<budget, segs>>
  PROVE  SegsOK'
<1>1. consumed \in Nat
  BY DEF StreamInv, ReaderOK
<1>2. ASSUME NEW i \in 1..Len(segs) PROVE segs[i].to <= consumed'
  <2>1. segs[i].to \in Nat /\ segs[i].to <= consumed
    BY SegmentEnd DEF StreamInv
  <2> QED BY <1>1, <2>1
<1> QED BY <1>2 DEF StreamInv, SegsOK

LEMMA StreamStep == StreamInv /\ [Next]_vars => StreamInv'
<1> SUFFICES ASSUME StreamInv, [Next]_vars
             PROVE  StreamInv'
  OBVIOUS
<1>0. consumed \in Nat /\ state \in {"Init", "Running", "Done"}
  BY DEF StreamInv, ReaderOK, IterOK
<1> USE DEF StreamInv
<1>1. CASE FillBuf
  <2>1. ReaderOK' /\ InBudget'
    BY <1>1 DEF FillBuf, ReaderOK, InBudget, Left
  <2>2. UNCHANGED <<input, consumed, state, offset, term, budget, slowVars, segs,
                    error, ended>>
    BY <1>1 DEF FillBuf
  <2>3. SlowOK' /\ IterOK' /\ SegsOK'
    <3>1. SlowOK'
      BY <2>2 DEF SlowOK, slowVars
    <3>2. IterOK'
      BY <2>2 DEF IterOK, slowVars
    <3>3. SegsOK'
      BY <2>2, <1>0, SegsKept
    <3> QED BY <3>1, <3>2, <3>3
  <2> QED BY <2>1, <2>3
<1>2. ASSUME NEW e, Fail(e), UNCHANGED <<readerVars, offset>>
      PROVE  StreamInv'
  BY <1>2, StaysOK, FailOK
<1>3. CASE FillFails
  BY <1>2, <1>3 DEF FillFails
<1>4. ASSUME UNCHANGED <<readerVars, state, offset, term, budget, segs>>,
             phase' \in {"top", "lead"}, raw' = raw, rawStart' = rawStart,
             scanned' = scanned, ended' \in BOOLEAN
      PROVE  StreamInv'
  <2>1. ReaderOK' /\ InBudget' /\ consumed' \in Nat /\ consumed <= consumed'
    BY <1>4, StaysOK
  <2>2. SlowOK'
    BY <1>4 DEF SlowOK
  <2>3. IterOK'
    BY <1>4 DEF IterOK
  <2>4. SegsOK'
    BY <1>4, <2>1, SegsKept
  <2> QED BY <2>1, <2>2, <2>3, <2>4
<1>5. CASE FastEof \/ SlowEof
  <2>1. phase \in {"top", "lead"}
    BY <1>5 DEF FastEof, SlowEof, AtTop
  <2>2. End
    BY <1>5 DEF FastEof, SlowEof
  <2>3. /\ UNCHANGED <<readerVars, state, offset, term, budget, segs>>
        /\ UNCHANGED <<phase, scanned, raw, rawStart>>
        /\ ended' = TRUE
    BY <2>2 DEF End, slowVars
  <2> QED BY <1>4, <2>1, <2>3
<1>6. CASE NeedMore
  <2>1. ended \in BOOLEAN
    BY DEF IterOK
  <2> QED BY <1>4, <1>6, <2>1 DEF NeedMore
<1>7. CASE FastTooLong \/ FastOverBudget \/ FastParseError \/ SlowOverBudget
           \/ UnaEof \/ SlowTooLong \/ BodyEof
  <2>1. \E e : Fail(e) /\ UNCHANGED <<readerVars, offset>>
    BY <1>7 DEF FastTooLong, FastOverBudget, FastParseError, SlowOverBudget,
                UnaEof, SlowTooLong, BodyEof
  <2> QED BY <1>2, <2>1
<1>8. CASE FastSkip
  <2>1. FastAdmitted /\ Consume(Pos + 1)
        /\ UNCHANGED <<state, term, budget, slowVars, segs, error, ended>>
        /\ phase = "top"
    BY <1>8 DEF FastSkip, FastAdmitted, FastUnit, AtTop
  <2>2. ReaderOK' /\ InBudget' /\ consumed' \in Nat /\ consumed <= consumed'
    BY <2>1, ReadUnit
  <2>3. SlowOK'
    BY <2>1 DEF SlowOK, slowVars
  <2>4. IterOK'
    BY <2>1 DEF IterOK, slowVars
  <2>5. SegsOK'
    BY <2>1, <2>2, SegsKept
  <2> QED BY <2>2, <2>3, <2>4, <2>5
<1>9. CASE FastSegment
  <2> DEFINE g == [from |-> offset + FastParsed.from, to |-> offset + FastParsed.to]
  <2>1. FastAdmitted /\ Consume(Pos + 1) /\ FastParsed.is = "segment" /\ HandOut(g)
    BY <1>9 DEF FastSegment
  <2>2. ReaderOK' /\ InBudget' /\ consumed' \in Nat /\ consumed <= consumed'
        /\ consumed' = consumed + Pos + 1
    BY <2>1, ReadUnit
  <2>3. Pos \in Nat /\ Pos + 1 \in Nat /\ 0 \in 0 .. Pos + 1
    BY <2>1, UnitAtHand
  <2>4. FastParsed.from \in 0 .. Pos + 1
        /\ FastParsed.to \in FastParsed.from + 1 .. Pos + 1
    BY <2>1, <2>3, ParsedWithin DEF FastParsed
  <2>5. offset = consumed
    BY DEF ReaderOK
  <2>6. g \in [from: Nat, to: Nat] /\ g.to <= consumed'
    BY <1>0, <2>2, <2>3, <2>4, <2>5
  <2> HIDE DEF g
  <2> QED BY <2>1, <2>2, <2>6, HandOutOK
<1>10. CASE StripBom
  <2>1. CASE BomInBuffer /\ ~AdmitsBytes(offset + BomLen)
    BY <1>2, <1>10, <2>1 DEF StripBom
  <2>2. CASE BomInBuffer /\ AdmitsBytes(offset + BomLen)
    <3>1. /\ Consume(BomLen)
          /\ phase' = "lead"
          /\ UNCHANGED <<state, term, budget, scanned, raw, rawStart, segs, error,
                         ended>>
      BY <1>10, <2>2 DEF StripBom
    <3>2. avail \in Nat /\ BomLen \in Nat /\ BomLen <= avail /\ offset = consumed
      BY <2>2, SyntaxAssumption DEF BomInBuffer, StartsWithBom, ReaderOK, Left
    <3>3. ReaderOK' /\ consumed' = consumed + BomLen /\ consumed <= consumed'
      BY <3>1, <3>2, ConsumeOK
    <3>4. InBudget' /\ consumed' \in Nat
      BY <2>2, <3>2, <3>3, <1>0, LimitsAssumption DEF AdmitsBytes, Exceeds, InBudget
    <3>5. SlowOK'
      BY <3>1 DEF SlowOK
    <3>6. IterOK'
      BY <3>1 DEF IterOK
    <3>7. SegsOK'
      BY <3>1, <3>3, <3>4, SegsKept
    <3> QED BY <3>3, <3>4, <3>5, <3>6, <3>7
  <2>3. CASE ~BomInBuffer
    <3>1. ended \in BOOLEAN
      BY DEF IterOK
    <3> QED BY <1>4, <1>10, <2>3, <3>1 DEF StripBom
  <2> QED BY <2>1, <2>2, <2>3
<1>11. CASE SkipWhitespace
  <2>1. Reads /\ Consume(1) /\ phase = "lead"
        /\ UNCHANGED <<state, term, budget, slowVars, segs, error, ended>>
    BY <1>11 DEF SkipWhitespace
  <2>2. ReaderOK' /\ InBudget' /\ consumed' \in Nat /\ consumed <= consumed'
    BY <2>1, ReadOne
  <2>3. SlowOK'
    BY <2>1 DEF SlowOK, slowVars
  <2>4. IterOK'
    BY <2>1 DEF IterOK, slowVars
  <2>5. SegsOK'
    BY <2>1, <2>2, SegsKept
  <2> QED BY <2>2, <2>3, <2>4, <2>5
<1>12. ASSUME Reads, Consume(1), NEW e, Fail(e)
       PROVE  StreamInv'
  <2>1. ReaderOK' /\ InBudget' /\ consumed' \in Nat /\ consumed <= consumed'
    BY <1>12, ReadOne
  <2> QED BY <1>12, <2>1, FailOK
<1>13. CASE StrayTerminator
  BY <1>12, <1>13 DEF StrayTerminator
<1>14. ASSUME Reads, Consume(1), phase' \in {"una", "body"},
              raw' = <<Byte>>, rawStart' = offset, scanned' \in BOOLEAN,
              UNCHANGED <<state, term, budget, segs, error, ended>>
       PROVE  StreamInv'
  <2>1. ReaderOK' /\ InBudget' /\ consumed' \in Nat /\ consumed <= consumed'
        /\ consumed' = consumed + 1 /\ input' = input
    BY <1>14, ReadOne
  <2>2. SlowOK'
    <3>1. offset = consumed /\ Byte \in Bytes
      BY <1>14, ByteAtHand DEF ReaderOK
    <3>2. raw' = Slice(input, consumed, consumed + 1)
      BY <1>14, FirstByte
    <3>3. raw' \in Seq(Bytes)
      BY <1>14, <3>1
    <3>4. raw' = Slice(input', rawStart', consumed') /\ rawStart' <= consumed'
          /\ rawStart' \in Nat
      BY <1>0, <1>14, <2>1, <3>1, <3>2
    <3> QED BY <1>14, <3>3, <3>4 DEF SlowOK
  <2>3. IterOK'
    BY <1>14 DEF IterOK
  <2>4. SegsOK'
    BY <1>14, <2>1, SegsKept
  <2> QED BY <2>1, <2>2, <2>3, <2>4
<1>15. CASE StartUna \/ StartSegment
  <2>1. scanned' \in BOOLEAN
    BY <1>15 DEF StartUna, StartSegment, IterOK
  <2> QED BY <1>14, <1>15, <2>1 DEF StartUna, StartSegment
<1>16. ASSUME Reads, Consume(1), state # "Done", phase \in {"una", "body"},
              phase' \in {"una", "body"}, raw' = Append(raw, Byte),
              rawStart' = rawStart, scanned' \in BOOLEAN,
              UNCHANGED <<state, term, budget, segs, error, ended>>
       PROVE  StreamInv'
  <2>1. ReaderOK' /\ InBudget' /\ consumed' \in Nat /\ consumed <= consumed'
        /\ consumed' = consumed + 1 /\ input' = input
    BY <1>16, ReadOne
  <2>2. SlowOK'
    <3>1. rawStart \in Nat /\ rawStart <= consumed /\ raw \in Seq(Bytes)
          /\ raw = Slice(input, rawStart, consumed)
      BY <1>16 DEF SlowOK
    <3>2. raw' = Slice(input, rawStart, consumed + 1)
      BY <1>16, <3>1, SliceGrows
    <3>3. raw' \in Seq(Bytes)
      BY <1>16, <3>1, ByteAtHand
    <3>4. raw' = Slice(input', rawStart', consumed') /\ rawStart' <= consumed'
          /\ rawStart' \in Nat
      BY <1>0, <1>16, <2>1, <3>1, <3>2
    <3> QED BY <1>16, <3>3, <3>4 DEF SlowOK
  <2>3. IterOK'
    BY <1>16 DEF IterOK
  <2>4. SegsOK'
    BY <1>16, <2>1, SegsKept
  <2> QED BY <2>1, <2>2, <2>3, <2>4
<1>17. CASE ReadUna \/ ReadBody
  <2>1. scanned' \in BOOLEAN /\ state # "Done"
    BY <1>17 DEF ReadUna, ReadBody, IterOK, Reads, Ready, Running
  <2> QED BY <1>16, <1>17, <2>1 DEF ReadUna, ReadBody
<1>18. CASE AdoptUna
  <2>1. Reads /\ Consume(1)
    BY <1>18 DEF AdoptUna
  <2>2. CASE ValidAdvice(Append(raw, Byte))
    <3>1. /\ term' \in {Byte, term}
          /\ phase' = "lead" /\ scanned' = TRUE /\ raw' = <<>> /\ rawStart' = 0
          /\ UNCHANGED <<state, budget, segs, error, ended>>
      BY <1>18, <2>2 DEF AdoptUna
    <3>2. ReaderOK' /\ InBudget' /\ consumed' \in Nat /\ consumed <= consumed'
      BY <2>1, ReadOne
    <3>3. SlowOK'
      BY <3>1 DEF SlowOK
    <3>4. term' \in Bytes
      BY <2>1, <3>1, ByteAtHand DEF IterOK
    <3>5. IterOK'
      BY <3>1, <3>4 DEF IterOK
    <3>6. SegsOK'
      BY <3>1, <3>2, SegsKept
    <3> QED BY <3>2, <3>3, <3>5, <3>6
  <2>3. CASE ~ValidAdvice(Append(raw, Byte))
    BY <1>12, <1>18, <2>1, <2>3 DEF AdoptUna
  <2> QED BY <2>2, <2>3
<1>19. ASSUME Reads, Consume(1), phase \in {"una", "body"}, Finish(raw)
       PROVE  StreamInv'
  <2>1. state # "Done"
    BY <1>19 DEF Reads, Ready, Running
  <2>2. ReaderOK' /\ InBudget' /\ consumed' \in Nat /\ consumed' = consumed + 1
    BY <1>19, ReadOne
  <2> QED BY <1>19, <2>1, <2>2, FinishOK
<1>20. CASE NotUna
  <2>1. Reads /\ Consume(1) /\ phase = "una" /\ state # "Done"
    BY <1>20 DEF NotUna, Reads, Ready, Running
  <2>2. CASE Len(raw) > MaxSegmentBytes
    BY <1>12, <1>20, <2>1, <2>2 DEF NotUna
  <2>3. CASE ~(Len(raw) > MaxSegmentBytes) /\ Byte = term
    BY <1>19, <1>20, <2>1, <2>3 DEF NotUna
  <2>4. CASE ~(Len(raw) > MaxSegmentBytes) /\ Byte # term
    BY <1>16, <1>20, <2>1, <2>4 DEF NotUna
  <2> QED BY <2>2, <2>3, <2>4
<1>21. CASE SlowSegment
  BY <1>19, <1>21 DEF SlowSegment
<1>22. CASE UNCHANGED vars
  <2>1. UNCHANGED <<readerVars, offset>> /\ UNCHANGED <<budget, segs>>
    BY <1>22 DEF vars, readerVars
  <2>2. ReaderOK' /\ InBudget' /\ consumed' \in Nat /\ consumed <= consumed'
    BY <2>1, StaysOK
  <2>3. SlowOK'
    BY <1>22 DEF vars, slowVars, SlowOK
  <2>4. IterOK'
    BY <1>22 DEF vars, slowVars, IterOK
  <2>5. SegsOK'
    BY <2>1, <2>2, SegsKept
  <2> QED BY <2>2, <2>3, <2>4, <2>5
<1> QED BY <1>1, <1>3, <1>5, <1>6, <1>7, <1>8, <1>9, <1>10, <1>11, <1>13, <1>15,
          <1>17, <1>18, <1>20, <1>21, <1>22
       DEF Next, FastPath, SlowPath

LEMMA StreamInvariant == Spec => []StreamInv
BY StreamInit, StreamStep, PTL DEF Spec

(***************************************************************************)
(* OwnedSegmentStream keeps its variables in their types for every input,  *)
(* limit and chunking.                                                     *)
(***************************************************************************)
THEOREM TypeCorrect == Spec => []TypeOK
BY StreamInvariant, StreamInvImplies, PTL

(***************************************************************************)
(* stream_offset is the number of bytes taken from the reader, and the     *)
(* slow path holds exactly the bytes since the start of its segment.  It   *)
(* is a step to the theorems below: the offsets of errors are not in it.   *)
(***************************************************************************)
THEOREM OffsetIsConsumed == Spec => []OffsetTracksInput
BY StreamInvariant, StreamInvImplies, PTL

(***************************************************************************)
(* With max_input_bytes set, no byte beyond it is ever taken from the      *)
(* reader or handed out in a segment, by either path.                      *)
(***************************************************************************)
THEOREM BudgetIsKept == Spec => []NothingBeyondBudget
BY StreamInvariant, StreamInvImplies, PTL

-----------------------------------------------------------------------------
(* MemoryBounded is inductive: every step that adds to raw checks first.   *)
LEMMA MemoryStep == StreamInv /\ MemoryBounded /\ [Next]_vars => MemoryBounded'
<1> SUFFICES ASSUME StreamInv, MemoryBounded, [Next]_vars
             PROVE  MemoryBounded'
  OBVIOUS
<1>0. /\ raw \in Seq(Bytes) /\ Len(raw) \in Nat
      /\ MaxSegmentBytes \in Nat /\ UnaLen \in Nat /\ UnaLen > 3
  BY SyntaxAssumption DEF StreamInv, SlowOK
<1>1. ASSUME raw' = raw, phase' = phase \/ phase' \in {"top", "lead"},
             phase # "body" \/ phase' = phase
      PROVE  MemoryBounded'
  BY <1>1 DEF MemoryBounded
<1>2. ASSUME raw' = <<>>, phase' # "body"
      PROVE  MemoryBounded'
  BY <1>0, <1>2 DEF MemoryBounded
<1>3. ASSUME NEW e, Fail(e)
      PROVE  MemoryBounded'
  BY <1>1, <1>3 DEF Fail, slowVars
<1>4. ASSUME NEW g, HandOut(g)
      PROVE  MemoryBounded'
  <2>1. CASE AdmitsSegment(budget, "BGM")
    BY <1>2, <1>4, <2>1 DEF HandOut
  <2>2. CASE ~AdmitsSegment(budget, "BGM")
    BY <1>3, <1>4, <2>2 DEF HandOut
  <2> QED BY <2>1, <2>2
<1>5. ASSUME Finish(raw)
      PROVE  MemoryBounded'
  BY <1>3, <1>4, <1>5 DEF Finish
<1>6. CASE FillBuf \/ FastEof \/ SlowEof \/ FastSkip \/ SkipWhitespace
           \/ UNCHANGED vars
  <2>1. raw' = raw /\ phase' = phase
    BY <1>6 DEF FillBuf, FastEof, SlowEof, End, FastSkip, SkipWhitespace, vars,
                slowVars
  <2> QED BY <1>1, <2>1
<1>7. CASE FillFails \/ FastTooLong \/ FastOverBudget \/ FastParseError
           \/ SlowOverBudget \/ UnaEof \/ SlowTooLong \/ BodyEof
           \/ StrayTerminator
  <2>1. \E e : Fail(e)
    BY <1>7 DEF FillFails, FastTooLong, FastOverBudget, FastParseError,
                SlowOverBudget, UnaEof, SlowTooLong, BodyEof, StrayTerminator
  <2> QED BY <1>3, <2>1
<1>8. CASE NeedMore
  BY <1>1, <1>8 DEF NeedMore, AtTop
<1>9. CASE FastSegment
  BY <1>4, <1>9 DEF FastSegment
<1>10. CASE StripBom
  <2>1. CASE BomInBuffer /\ ~AdmitsBytes(offset + BomLen)
    BY <1>3, <1>10, <2>1 DEF StripBom
  <2>2. CASE ~(BomInBuffer /\ ~AdmitsBytes(offset + BomLen))
    <3>1. raw' = raw /\ phase' = "lead" /\ phase = "top"
      BY <1>10, <2>2 DEF StripBom
    <3> QED BY <1>1, <3>1
  <2> QED BY <2>1, <2>2
<1>11. CASE StartUna \/ StartSegment
  <2>1. Len(raw') = 1
    BY <1>11 DEF StartUna, StartSegment
  <2> QED BY <1>0, <2>1 DEF MemoryBounded
<1>12. CASE ReadUna
  <2>1. raw' = Append(raw, Byte) /\ Len(raw) + 1 < UnaLen /\ phase' = "una"
    BY <1>12 DEF ReadUna
  <2>2. Len(raw') = Len(raw) + 1
    BY <1>0, <2>1
  <2> QED BY <2>1, <2>2 DEF MemoryBounded
<1>13. CASE AdoptUna
  <2>1. CASE ValidAdvice(Append(raw, Byte))
    BY <1>2, <1>13, <2>1 DEF AdoptUna
  <2>2. CASE ~ValidAdvice(Append(raw, Byte))
    BY <1>3, <1>13, <2>2 DEF AdoptUna
  <2> QED BY <2>1, <2>2
<1>14. ASSUME raw' = Append(raw, Byte), phase' = "body",
              ~(Len(raw) > MaxSegmentBytes)
       PROVE  MemoryBounded'
  <2>1. Len(raw') = Len(raw) + 1
    BY <1>0, <1>14
  <2> QED BY <1>0, <1>14, <2>1 DEF MemoryBounded
<1>15. CASE NotUna
  <2>1. CASE Len(raw) > MaxSegmentBytes
    BY <1>3, <1>15, <2>1 DEF NotUna
  <2>2. CASE ~(Len(raw) > MaxSegmentBytes) /\ Byte = term
    BY <1>5, <1>15, <2>2 DEF NotUna
  <2>3. CASE ~(Len(raw) > MaxSegmentBytes) /\ Byte # term
    BY <1>14, <1>15, <2>3 DEF NotUna
  <2> QED BY <2>1, <2>2, <2>3
<1>16. CASE ReadBody
  BY <1>14, <1>16 DEF ReadBody, Oversized
<1>17. CASE SlowSegment
  BY <1>5, <1>17 DEF SlowSegment
<1> QED BY <1>6, <1>7, <1>8, <1>9, <1>10, <1>11, <1>12, <1>13, <1>15, <1>16, <1>17
       DEF Next, FastPath, SlowPath

(***************************************************************************)
(* The slow path's buffer never outgrows max_segment_bytes by more than    *)
(* the one byte that proves a segment oversized, whatever the input.       *)
(***************************************************************************)
THEOREM MemoryIsBounded == Spec => []MemoryBounded
<1>1. Init => MemoryBounded
  <2> SUFFICES ASSUME Init
               PROVE  MemoryBounded
    OBVIOUS
  <2>1. Len(raw) = 0 /\ phase = "top"
    BY DEF Init
  <2> QED BY <2>1, SyntaxAssumption DEF MemoryBounded
<1> QED BY <1>1, StreamInvariant, MemoryStep, PTL DEF Spec

-----------------------------------------------------------------------------
(***************************************************************************)
(* The tiling.  Gap and Tiled say of an input s, a terminator t and the    *)
(* segments g what SegmentsTileInput says of the variables; UpTo: nothing  *)
(* but a gap lies between the last segment and the byte at p.              *)
(***************************************************************************)
Gap(s, t, from, to) ==
  from <= to /\ \A p \in from .. to-1 : At(s, p) \in {"ws", t}

Tiled(s, t, g) ==
  /\ \A i \in 1..Len(g) : UnescapedTerms(s, g[i].from, g[i].to, t) = {g[i].to - 1}
  /\ \A i \in 1..Len(g)-1 : Gap(s, t, g[i].to, g[i+1].from)

UpTo(s, t, g, p) == g # <<>> => Gap(s, t, g[Len(g)].to, p)

LEMMA GapGrows ==
  ASSUME NEW s, NEW t, NEW from \in Int, NEW mid \in Int, NEW to \in Int,
         Gap(s, t, from, mid), Gap(s, t, mid, to)
  PROVE  Gap(s, t, from, to)
<1>1. \A p \in from .. to-1 : p \in from .. mid-1 \/ p \in mid .. to-1
  OBVIOUS
<1> HIDE DEF At
<1> QED BY <1>1 DEF Gap

LEMMA UpToGrows ==
  ASSUME NEW s, NEW t, NEW g \in Seq([from: Nat, to: Nat]), NEW p \in Int,
         NEW q \in Int, UpTo(s, t, g, p), Gap(s, t, p, q)
  PROVE  UpTo(s, t, g, q)
<1>1. SUFFICES ASSUME g # <<>>
               PROVE  Gap(s, t, g[Len(g)].to, q)
  BY DEF UpTo
<1>2. g[Len(g)].to \in Int
  <2>1. Len(g) \in 1..Len(g)
    BY <1>1
  <2>2. g[Len(g)] \in [from: Nat, to: Nat]
    BY <2>1, ElementOfSeq
  <2> QED BY <2>2
<1>3. PICK e \in Int : e = g[Len(g)].to
  BY <1>2
<1> QED BY <1>1, <1>3, GapGrows DEF UpTo

(* A segment whose bytes follow a gap joins the tiling. *)
LEMMA TiledGrows ==
  ASSUME NEW s, NEW t, NEW g \in Seq([from: Nat, to: Nat]),
         NEW h \in [from: Nat, to: Nat], Tiled(s, t, g), UpTo(s, t, g, h.from),
         UnescapedTerms(s, h.from, h.to, t) = {h.to - 1}
  PROVE  Tiled(s, t, Append(g, h)) /\ UpTo(s, t, Append(g, h), h.to)
<1> DEFINE k == Append(g, h)
<1>1. /\ Len(k) = Len(g) + 1 /\ Len(g) \in Nat
      /\ k[Len(g) + 1] = h
      /\ \A i \in 1..Len(g) : k[i] = g[i]
  OBVIOUS
<1> HIDE DEF k
<1>2. ASSUME NEW i \in 1..Len(k)
      PROVE  UnescapedTerms(s, k[i].from, k[i].to, t) = {k[i].to - 1}
  <2>1. CASE i \in 1..Len(g)
    BY <1>1, <2>1 DEF Tiled
  <2>2. CASE i = Len(g) + 1
    BY <1>1, <2>2
  <2> QED BY <1>1, <2>1, <2>2
<1>3. ASSUME NEW i \in 1..Len(k)-1
      PROVE  Gap(s, t, k[i].to, k[i+1].from)
  <2>1. CASE i \in 1..Len(g)-1
    <3>1. i \in 1..Len(g) /\ i+1 \in 1..Len(g)
      BY <1>1, <2>1
    <3> QED BY <1>1, <2>1, <3>1 DEF Tiled
  <2>2. CASE i = Len(g)
    <3>1. i \in 1..Len(g) /\ g # <<>>
      BY <1>1, <2>2
    <3>2. Gap(s, t, g[Len(g)].to, h.from)
      BY <3>1 DEF UpTo
    <3> QED BY <1>1, <2>2, <3>1, <3>2
  <2> QED BY <1>1, <2>1, <2>2
<1>4. Gap(s, t, h.to, h.to)
  <2>1. h.to \in Nat
    OBVIOUS
  <2>2. PICK e \in Nat : e = h.to
    BY <2>1
  <2>3. Gap(s, t, e, e)
    BY DEF Gap
  <2> QED BY <2>2, <2>3
<1>5. k[Len(k)] = h
  BY <1>1
<1>6. Tiled(s, t, k) /\ UpTo(s, t, k, h.to)
  BY <1>2, <1>3, <1>4, <1>5 DEF Tiled, UpTo
<1> QED BY <1>6 DEF k

(***************************************************************************)
(* The strengthening.  TermFits: no tag is so short that the UNA lookahead *)
(* could read past a terminator unseen.  HeaderFirst: that lookahead comes *)
(* before any segment.  NoEarlierEnd: the slow path's bytes hold no        *)
(* terminator in force, unless they are bound to be refused.               *)
(***************************************************************************)
TermFits == TagLen > 1 \/ term \notin {"U", "N"}

HeaderFirst ==
  /\ segs # <<>> => scanned /\ state # "Init"
  /\ phase = "una" => /\ ~scanned
                      /\ Len(raw) < 3 => raw \in {<<"U">>, <<"U", "N">>}

NoEarlierEnd ==
  phase = "body" => \/ UnescapedTerms(raw, 0, Len(raw), term) = {}
                    \/ NoTagIn(raw, term)

GapSoFar ==
  Running => /\ phase \in {"top", "lead"} => UpTo(input, term, segs, consumed)
             /\ phase = "body" => UpTo(input, term, segs, rawStart)

TileInv ==
  /\ TermFits /\ HeaderFirst /\ NoEarlierEnd /\ GapSoFar
  /\ Tiled(input, term, segs)

LEMMA TileInvImplies == TileInv => SegmentsTileInput
BY DEF TileInv, GapSoFar, Tiled, UpTo, Gap, SegmentsTileInput, IsGap

LEMMA TileInit == Init /\ (TagLen > 1 \/ Advice \notin {"U", "N"}) => TileInv
<1> SUFFICES ASSUME Init, TagLen > 1 \/ Advice \notin {"U", "N"}
             PROVE  TileInv
  OBVIOUS
<1>1. TermFits
  BY DEF Init, TermFits
<1>2. segs = <<>> /\ Len(segs) = 0 /\ phase = "top"
  BY DEF Init
<1>3. Tiled(input, term, segs)
  BY <1>2 DEF Tiled
<1>4. HeaderFirst /\ NoEarlierEnd /\ GapSoFar
  BY <1>2 DEF HeaderFirst, NoEarlierEnd, GapSoFar, UpTo
<1> QED BY <1>1, <1>3, <1>4 DEF TileInv

-----------------------------------------------------------------------------
(* What is parsed out of a piece of the input, in place. *)
Joins(h, s, t, base, end) ==
  /\ h \in [from: Nat, to: Nat] /\ h.to = end
  /\ Gap(s, t, base, h.from)
  /\ UnescapedTerms(s, h.from, h.to, t) = {h.to - 1}

LEMMA PieceParsed ==
  ASSUME NEW s, NEW u, NEW t, NEW base \in Nat, NEW len \in Nat,
         PieceOf(u, len, s, base), ParseSegment(u, len, t, 0).is = "segment",
         UnescapedTerms(u, 0, len - 1, t) = {},
         NEW h, h = [from |-> base + ParseSegment(u, len, t, 0).from,
                     to   |-> base + ParseSegment(u, len, t, 0).to],
         NEW end \in Nat, end = base + len
  PROVE  Joins(h, s, t, base, end)
<1> DEFINE P == ParseSegment(u, len, t, 0)
<1>1. /\ P.from \in 0 .. len-1 /\ P.to = len
      /\ \A q \in 0 .. P.from - 1 : At(u, q) = "ws"
      /\ UnescapedTerms(u, P.from, len, t) = {len - 1}
  BY ParsedWhole
<1> HIDE DEF P
<1>2. PICK from \in 0 .. len-1 : from = P.from
  BY <1>1
<1>3. h = [from |-> base + from, to |-> base + len]
  BY <1>1, <1>2 DEF P
<1>4. h \in [from: Nat, to: Nat] /\ h.from = base + from /\ h.to = base + len
  BY <1>3
<1>5. Gap(s, t, base, base + from)
  <2>1. ASSUME NEW p \in base .. base + from - 1
        PROVE  At(s, p) = "ws"
    <3>1. p - base \in 0 .. from-1 /\ p - base \in 0 .. len-1
          /\ base + (p - base) = p
      BY <1>2
    <3>2. At(u, p - base) = "ws"
      BY <1>1, <1>2, <3>1
    <3>3. At(u, p - base) = At(s, base + (p - base))
      BY <3>1 DEF PieceOf
    <3> QED BY <3>1, <3>2, <3>3
  <2> QED BY <2>1 DEF Gap
<1>6. UnescapedTerms(s, base + from, base + len, t) = {base + len - 1}
  <2>1. len \in from+1 .. len /\ from \in Nat
    BY <1>2
  <2>2. EndsAt(u, from, len, t)
    BY <1>1, <1>2 DEF EndsAt
  <2>3. PICK a \in Nat, b \in Nat : a = base + from /\ b = base + len
    BY <2>1
  <2>4. EndsAt(s, a, b, t)
    BY <2>1, <2>2, <2>3, EndsShift
  <2> QED BY <2>3, <2>4 DEF EndsAt
<1> QED BY <1>4, <1>5, <1>6 DEF Joins

(* The iteration fails: the segments stay, and no more is promised. *)
LEMMA FailTiles ==
  ASSUME TileInv, input' = input, NEW e, Fail(e)
  PROVE  TileInv'
<1>1. UNCHANGED <<input, term, segs, phase, scanned, raw, rawStart>>
      /\ state' = "Done"
  BY DEF Fail, slowVars
<1>2. Tiled(input, term, segs)'
  BY <1>1 DEF TileInv
<1>3. TermFits' /\ HeaderFirst' /\ NoEarlierEnd'
  BY <1>1 DEF TileInv, TermFits, HeaderFirst, NoEarlierEnd
<1>4. GapSoFar'
  BY <1>1 DEF GapSoFar, Running
<1> QED BY <1>2, <1>3, <1>4 DEF TileInv

(* A segment that follows the gap and ends at the reader's place. *)
LEMMA HandOutTiles ==
  ASSUME StreamInv, TileInv, input' = input,
         NEW h \in [from: Nat, to: Nat], UpTo(input, term, segs, h.from),
         UnescapedTerms(input, h.from, h.to, term) = {h.to - 1},
         h.to = consumed', HandOut(h)
  PROVE  TileInv'
<1>1. CASE AdmitsSegment(budget, "BGM")
  <2>1. /\ segs' = Append(segs, h) /\ state' = "Running" /\ term' = term
        /\ phase' = "top" /\ scanned' = TRUE
    BY <1>1 DEF HandOut
  <2>2. segs \in Seq([from: Nat, to: Nat]) /\ Tiled(input, term, segs)
    BY DEF StreamInv, SegsOK, TileInv
  <2>3. Tiled(input, term, Append(segs, h))
        /\ UpTo(input, term, Append(segs, h), h.to)
    BY <2>2, TiledGrows
  <2>4. Tiled(input, term, segs)' /\ UpTo(input, term, segs, consumed)'
    BY <2>1, <2>3
  <2>5. TermFits' /\ HeaderFirst' /\ NoEarlierEnd' /\ GapSoFar'
    BY <2>1, <2>4 DEF TileInv, TermFits, HeaderFirst, NoEarlierEnd, GapSoFar
  <2> QED BY <2>4, <2>5 DEF TileInv
<1>2. CASE ~AdmitsSegment(budget, "BGM")
  BY <1>2, FailTiles DEF HandOut
<1> QED BY <1>1, <1>2

LEMMA JoinedTiles ==
  ASSUME StreamInv, TileInv, input' = input, NEW base \in Nat,
         UpTo(input, term, segs, base), NEW h, HandOut(h),
         Joins(h, input, term, base, consumed')
  PROVE  TileInv'
<1>1. h \in [from: Nat, to: Nat] /\ segs \in Seq([from: Nat, to: Nat])
  BY DEF Joins, StreamInv, SegsOK
<1>2. PICK q \in Nat : q = h.from
  BY <1>1
<1>3. UpTo(input, term, segs, h.from)
  BY <1>1, <1>2, UpToGrows DEF Joins
<1> QED BY <1>1, <1>3, HandOutTiles DEF Joins

(* What the slow path holds is a piece of the input, its terminator too. *)
LEMMA RawIsAPiece ==
  ASSUME StreamInv, Reads, phase \in {"una", "body"}, Byte = term
  PROVE  /\ rawStart \in Nat /\ raw \in Seq(Bytes)
         /\ rawStart + Len(raw) = consumed
         /\ PieceOf(Append(raw, term), Len(raw) + 1, input, rawStart)
<1>1. /\ input \in Seq(Bytes) /\ consumed \in Nat /\ consumed < Len(input)
      /\ rawStart \in Nat /\ rawStart <= consumed
      /\ raw = Slice(input, rawStart, consumed)
      /\ raw \in Seq(Bytes)
  BY ByteAtHand DEF StreamInv, ReaderOK, SlowOK, Reads, Ready, Running
<1>2. /\ Append(raw, term) = Slice(input, rawStart, consumed + 1)
      /\ Len(raw) = consumed - rawStart
  BY <1>1, SliceGrows
<1>3. ASSUME NEW p \in 0 .. Len(raw)
      PROVE  At(Append(raw, term), p) = At(input, rawStart + p)
  <2>1. SubSeq(input, rawStart + 1, consumed + 1)[p + 1]
          = input[rawStart + 1 + (p + 1) - 1]
    BY <1>1, <1>2
  <2>2. rawStart + 1 + (p + 1) - 1 = rawStart + p + 1
    BY <1>1, <1>2
  <2> QED BY <1>2, <2>1, <2>2 DEF At, Slice
<1>4. Len(raw) + 1 - 1 = Len(raw) /\ rawStart + Len(raw) = consumed
  BY <1>1, <1>2
<1> QED BY <1>1, <1>3, <1>4 DEF PieceOf

(* Nothing but the last byte of a sequence decides of those before it. *)
LEMMA AppendTerms ==
  ASSUME NEW s \in Seq(Bytes), NEW b, NEW t
  PROVE  /\ UnescapedTerms(Append(s, b), 0, Len(s), t)
              = UnescapedTerms(s, 0, Len(s), t)
         /\ Escaped(Append(s, b), 0, Len(s)) <=> Escaped(s, 0, Len(s))
<1> DEFINE u == Append(s, b)
           n == Len(s)
<1>1. PieceOf(u, n, s, 0) /\ n \in Nat
  BY DEF PieceOf, At
<1> HIDE DEF u, n
<1>2. ASSUME NEW p \in 0 .. n
      PROVE  Escaped(u, 0, p) <=> Escaped(s, 0, p)
  <2>1. Escaped(u, 0, p) <=> Escaped(s, 0 + 0, 0 + p)
    BY <1>1, EscapedShift
  <2> QED BY <2>1
<1>3. \A p \in 0 .. n-1 : p \in 0 .. n /\ At(u, p) = At(s, p)
  BY <1>1 DEF PieceOf
<1>4. UnescapedTerms(u, 0, n, t) = UnescapedTerms(s, 0, n, t)
  <2> HIDE DEF At
  <2> QED BY <1>1, <1>2, <1>3 DEF UnescapedTerms
<1>5. Escaped(u, 0, n) <=> Escaped(s, 0, n)
  BY <1>1, <1>2
<1> QED BY <1>4, <1>5 DEF u, n

(* The bytes of the slow path and the terminator just read. *)
LEMMA FinishTiles ==
  ASSUME StreamInv, TileInv, Reads, phase \in {"una", "body"}, Byte = term,
         Consume(1), Finish(raw), UpTo(input, term, segs, rawStart),
         \/ UnescapedTerms(raw, 0, Len(raw), term) = {}
         \/ NoTagIn(raw, term)
  PROVE  TileInv'
<1> DEFINE u == Append(raw, term)
           n == Len(raw) + 1
           P == ParseSegment(u, n, term, 0)
           h == [from |-> rawStart + P.from, to |-> rawStart + P.to]
<1>1. /\ rawStart \in Nat /\ raw \in Seq(Bytes) /\ n \in Nat
      /\ rawStart + n = consumed + 1
      /\ PieceOf(u, n, input, rawStart)
  BY RawIsAPiece
<1>2. input' = input /\ consumed' = consumed + 1
  BY DEF Consume
<1>3. CASE P.is = "segment"
  <2>1. UnescapedTerms(raw, 0, Len(raw), term) = {}
    BY <1>1, <1>3, NoTagNoSegment
  <2>2. UnescapedTerms(u, 0, n - 1, term) = {}
    <3>1. n - 1 = Len(raw)
      BY <1>1
    <3> QED BY <1>1, <2>1, <3>1, AppendTerms
  <2>3. HandOut(h)
    BY <1>3 DEF Finish
  <2>4. PICK end \in Nat : end = rawStart + n
    BY <1>1
  <2>5. Joins(h, input, term, rawStart, end)
    <3>1. h = [from |-> rawStart + ParseSegment(u, n, term, 0).from,
               to   |-> rawStart + ParseSegment(u, n, term, 0).to]
      OBVIOUS
    <3>2. ParseSegment(u, n, term, 0).is = "segment"
      BY <1>3
    <3> HIDE DEF h, P, u, n
    <3> QED BY <1>1, <2>2, <2>4, <3>1, <3>2, PieceParsed
  <2> HIDE DEF h
  <2>6. end = consumed'
    BY <1>1, <1>2, <2>4
  <2> QED BY <1>1, <1>2, <2>3, <2>5, <2>6, JoinedTiles
<1>4. CASE P.is # "segment"
  BY <1>2, <1>4, FailTiles DEF Finish
<1> QED BY <1>3, <1>4

(* The unit of the fast path: a piece of the input that ends at the first  *)
(* terminator in force from the reader's place on.                         *)
LEMMA UnitIsAPiece ==
  ASSUME StreamInv, FastAdmitted
  PROVE  /\ Pos \in Nat /\ consumed \in Nat
         /\ PieceOf(Unit, Pos + 1, input, consumed)
         /\ UnescapedTerms(Unit, 0, Pos + 1 - 1, term) = {}
         /\ At(input, consumed + Pos) = term
<1>1. /\ input \in Seq(Bytes) /\ consumed \in Nat /\ avail \in Nat
      /\ consumed + avail <= Len(input)
  BY DEF StreamInv, ReaderOK, Left
<1>2. Pos \in Nat /\ Pos + 1 <= avail
  BY UnitAtHand
<1>3. /\ consumed + Pos \in InBuffer
      /\ \A q \in InBuffer : consumed + Pos <= q
  <2>1. InBuffer \subseteq Nat /\ InBuffer # {}
    <3>1. InBuffer \subseteq consumed .. consumed + avail - 1
      BY <1>1, TermsWithin DEF InBuffer
    <3> QED BY <1>1, <3>1 DEF FastAdmitted, FastUnit
  <2>2. LeastOr(InBuffer, 0) \in InBuffer
        /\ \A q \in InBuffer : LeastOr(InBuffer, 0) <= q
    BY <2>1, LeastIn
  <2>3. PICK least \in Nat : least = LeastOr(InBuffer, 0)
    BY <2>1, <2>2
  <2>4. consumed + Pos = least
    BY <1>1, <2>3 DEF Pos
  <2> QED BY <2>2, <2>3, <2>4
<1>5. PICK pos \in Nat : pos = Pos
  BY <1>2
<1>6. PieceOf(Unit, pos + 1, input, consumed)
  <2>1. PICK to \in Nat : to = consumed + pos + 1
    BY <1>1
  <2>2. consumed <= to /\ to <= Len(input) /\ pos + 1 = to - consumed /\ pos + 1 \in Nat
    BY <1>1, <1>2, <1>5, <2>1
  <2>3. Unit = Slice(input, consumed, to)
    BY <1>5, <2>1 DEF Unit
  <2> QED BY <1>1, <2>2, <2>3, SlicePiece
<1>7. ASSUME NEW p \in UnescapedTerms(Unit, 0, pos, term)
      PROVE  FALSE
  <2>1. p \in 0 .. pos-1 /\ p \in Nat
    BY DEF UnescapedTerms
  <2>2. consumed + p \in UnescapedTerms(input, consumed + 0, consumed + pos, term)
    <3>1. 0 \in Nat /\ pos <= pos + 1 /\ pos + 1 \in Nat
      OBVIOUS
    <3> QED BY <1>1, <1>6, <2>1, <3>1, TermsShift
  <2>3. consumed + p \in InBuffer
    <3>1. PICK mid \in Nat, to \in Nat : mid = consumed + pos /\ to = consumed + avail
      BY <1>1
    <3>2. mid <= to /\ consumed + 0 = consumed
      BY <1>1, <1>2, <1>5, <3>1
    <3>3. consumed + p \in UnescapedTerms(input, consumed, mid, term)
      BY <2>2, <3>1, <3>2
    <3>4. consumed + p \in UnescapedTerms(input, consumed, to, term)
      BY <1>1, <3>2, <3>3, TermsWiden
    <3> QED BY <3>1, <3>4 DEF InBuffer
  <2> QED BY <1>1, <1>3, <1>5, <2>1, <2>3
<1>8. pos + 1 - 1 = pos
  OBVIOUS
<1>9. At(input, consumed + Pos) = term
  BY <1>3 DEF InBuffer, UnescapedTerms
<1> QED BY <1>1, <1>2, <1>5, <1>6, <1>7, <1>8, <1>9

LEMMA TileStep == StreamInv /\ TileInv /\ [Next]_vars => TileInv'
<1> SUFFICES ASSUME StreamInv, TileInv, [Next]_vars
             PROVE  TileInv'
  OBVIOUS
<1>0. /\ consumed \in Nat /\ offset = consumed /\ raw \in Seq(Bytes)
      /\ segs \in Seq([from: Nat, to: Nat])
  BY DEF StreamInv, ReaderOK, SlowOK, SegsOK
<1>1. TermFits /\ HeaderFirst /\ NoEarlierEnd /\ GapSoFar
      /\ Tiled(input, term, segs)
  BY DEF TileInv
<1>2. ASSUME NEW e, Fail(e), input' = input
      PROVE  TileInv'
  BY <1>2, FailTiles
<1>3. ASSUME UNCHANGED <<input, term, segs, state, scanned, raw, phase>>,
             ended' = ended,
             Running /\ phase \in {"top", "lead"}
               => UpTo(input, term, segs, consumed'),
             rawStart' = rawStart
      PROVE  TileInv'
  <2>1. TermFits' /\ HeaderFirst' /\ NoEarlierEnd' /\ Tiled(input, term, segs)'
    BY <1>1, <1>3 DEF TermFits, HeaderFirst, NoEarlierEnd
  <2>2. GapSoFar'
    BY <1>1, <1>3 DEF GapSoFar, Running
  <2> QED BY <2>1, <2>2 DEF TileInv
<1>4. CASE FillBuf \/ UNCHANGED vars
  <2>1. /\ UNCHANGED <<input, term, segs, state, scanned, raw, phase>>
        /\ UNCHANGED <<ended, rawStart, consumed>>
    BY <1>4 DEF FillBuf, vars, slowVars
  <2> QED BY <1>1, <1>3, <2>1 DEF GapSoFar
<1>5. CASE FillFails \/ FastTooLong \/ FastOverBudget \/ FastParseError
           \/ SlowOverBudget \/ UnaEof \/ SlowTooLong \/ BodyEof
           \/ StrayTerminator
  <2>1. \E e : Fail(e) /\ input' = input
    BY <1>5 DEF FillFails, FastTooLong, FastOverBudget, FastParseError,
                SlowOverBudget, UnaEof, SlowTooLong, BodyEof, StrayTerminator,
                readerVars, Consume
  <2> QED BY <1>2, <2>1
<1>6. CASE FastEof \/ SlowEof
  <2>1. /\ UNCHANGED <<input, term, segs, state, scanned, raw, phase>>
        /\ ended'
    BY <1>6 DEF FastEof, SlowEof, End, readerVars, slowVars
  <2>2. TermFits' /\ HeaderFirst' /\ NoEarlierEnd' /\ Tiled(input, term, segs)'
    BY <1>1, <2>1 DEF TermFits, HeaderFirst, NoEarlierEnd
  <2>3. GapSoFar'
    BY <2>1 DEF GapSoFar, Running
  <2> QED BY <2>2, <2>3 DEF TileInv
<1>7. ASSUME phase \in {"top", "lead"}, phase' = "lead", Running,
             UNCHANGED <<input, term, segs, state, scanned, raw, ended>>,
             UpTo(input, term, segs, consumed')
      PROVE  TileInv'
  <2>1. TermFits' /\ HeaderFirst' /\ NoEarlierEnd' /\ Tiled(input, term, segs)'
    BY <1>1, <1>7 DEF TermFits, HeaderFirst, NoEarlierEnd
  <2>2. GapSoFar'
    BY <1>7 DEF GapSoFar
  <2> QED BY <2>1, <2>2 DEF TileInv
<1>8. CASE NeedMore
  <2>1. phase = "top" /\ Running /\ phase' = "lead" /\ consumed' = consumed
        /\ UNCHANGED <<input, term, segs, state, scanned, raw, ended>>
    BY <1>8 DEF NeedMore, AtTop, Ready, readerVars
  <2> QED BY <1>1, <1>7, <2>1 DEF GapSoFar
<1>9. CASE StripBom
  <2>1. CASE BomInBuffer /\ ~AdmitsBytes(offset + BomLen)
    BY <1>2, <1>9, <2>1 DEF StripBom, readerVars
  <2>2. CASE ~(BomInBuffer /\ ~AdmitsBytes(offset + BomLen))
    <3>1. phase = "top" /\ Running /\ phase' = "lead" /\ state = "Init"
          /\ UNCHANGED <<input, term, segs, state, scanned, raw, ended>>
      BY <1>9, <2>2 DEF StripBom, Ready, readerVars, Consume
    <3>2. segs = <<>>
      BY <1>1, <3>1 DEF HeaderFirst
    <3>3. UpTo(input, term, segs, consumed')
      BY <3>2 DEF UpTo
    <3> QED BY <1>7, <3>1, <3>3
  <2> QED BY <2>1, <2>2
<1>10. CASE FastSkip
  <2>1. /\ FastAdmitted /\ Blank /\ Consume(Pos + 1)
        /\ UNCHANGED <<term, segs, state, scanned, raw, phase, rawStart, ended>>
        /\ Running /\ phase = "top"
    BY <1>10 DEF FastSkip, slowVars, FastAdmitted, FastUnit, AtTop, Ready
  <2>2. PICK pos \in Nat : pos = Pos
    BY <2>1, UnitIsAPiece
  <2>3. /\ PieceOf(Unit, pos + 1, input, consumed)
        /\ At(input, consumed + pos) = term
        /\ SkipWs(Unit, 0, pos) = pos
    BY <2>1, <2>2, UnitIsAPiece DEF Blank
  <2>4. \A q \in 0 .. pos-1 : At(Unit, q) = "ws"
    <3>1. \A q \in 0 .. SkipWs(Unit, 0, pos) - 1 : At(Unit, q) = "ws"
      <4>1. 0 \in Nat /\ 0 <= pos
        OBVIOUS
      <4> QED BY <4>1, SkipWsBetween
    <3> QED BY <2>3, <3>1
  <2>5. PICK to \in Nat : to = consumed + pos + 1
    BY <1>0
  <2>6. Gap(input, term, consumed, to)
    <3>1. ASSUME NEW p \in consumed .. to-1
          PROVE  At(input, p) \in {"ws", term}
      <4>1. CASE p = consumed + pos
        BY <2>3, <4>1
      <4>2. CASE p # consumed + pos
        <5>1. p - consumed \in 0 .. pos-1 /\ p - consumed \in 0 .. pos+1-1
              /\ consumed + (p - consumed) = p
          BY <1>0, <2>5, <4>2
        <5>2. At(Unit, p - consumed) = At(input, consumed + (p - consumed))
          BY <2>3, <5>1 DEF PieceOf
        <5> QED BY <2>4, <5>1, <5>2
      <4> QED BY <4>1, <4>2
    <3> QED BY <1>0, <2>5, <3>1 DEF Gap
  <2>7. UpTo(input, term, segs, to)
    <3>1. UpTo(input, term, segs, consumed)
      BY <1>1, <2>1 DEF GapSoFar
    <3> QED BY <1>0, <2>6, <3>1, UpToGrows
  <2>8. consumed' = to /\ input' = input
    BY <1>0, <2>1, <2>2, <2>5 DEF Consume
  <2> QED BY <1>3, <2>1, <2>7, <2>8
<1>11. CASE FastSegment
  <2> DEFINE h == [from |-> offset + FastParsed.from, to |-> offset + FastParsed.to]
  <2>1. /\ FastAdmitted /\ Consume(Pos + 1) /\ FastParsed.is = "segment"
        /\ HandOut(h) /\ Running /\ phase = "top"
    BY <1>11 DEF FastSegment, FastAdmitted, FastUnit, AtTop, Ready
  <2>2. PICK len \in Nat : len = Pos + 1
    BY <2>1, UnitIsAPiece
  <2>3. /\ PieceOf(Unit, len, input, consumed)
        /\ UnescapedTerms(Unit, 0, len - 1, term) = {}
    BY <2>1, <2>2, UnitIsAPiece
  <2>4. PICK end \in Nat : end = consumed + len
    BY <1>0
  <2>5. consumed' = end /\ input' = input
    BY <1>0, <2>1, <2>2, <2>4 DEF Consume
  <2>6. /\ h = [from |-> consumed + ParseSegment(Unit, len, term, 0).from,
                to   |-> consumed + ParseSegment(Unit, len, term, 0).to]
        /\ ParseSegment(Unit, len, term, 0).is = "segment"
    BY <1>0, <2>1, <2>2 DEF FastParsed
  <2> HIDE DEF h
  <2>7. Joins(h, input, term, consumed, end)
    BY <1>0, <2>3, <2>4, <2>6, PieceParsed
  <2>8. UpTo(input, term, segs, consumed)
    BY <1>1, <2>1 DEF GapSoFar
  <2> QED BY <1>0, <2>1, <2>5, <2>7, <2>8, JoinedTiles
<1>12. CASE SkipWhitespace
  <2>1. /\ Reads /\ Consume(1) /\ phase = "lead" /\ Byte = "ws" /\ Running
        /\ UNCHANGED <<term, segs, state, scanned, raw, phase, rawStart, ended>>
    BY <1>12 DEF SkipWhitespace, slowVars, Reads, Ready
  <2>2. PICK to \in Nat : to = consumed + 1
    BY <1>0
  <2>3. Gap(input, term, consumed, to)
    <3>1. \A p \in consumed .. to-1 : p = consumed
      BY <1>0, <2>2
    <3> QED BY <1>0, <2>1, <2>2, <3>1 DEF Gap, Byte
  <2>4. UpTo(input, term, segs, to)
    <3>1. UpTo(input, term, segs, consumed)
      BY <1>1, <2>1 DEF GapSoFar
    <3> QED BY <1>0, <2>3, <3>1, UpToGrows
  <2>5. consumed' = to /\ input' = input
    BY <2>1, <2>2 DEF Consume
  <2> QED BY <1>3, <2>1, <2>4, <2>5
<1>13. CASE StartUna
  <2>1. /\ Byte = "U" /\ ~scanned /\ phase' = "una" /\ raw' = <<Byte>>
        /\ UNCHANGED <<input, term, segs, state, scanned>>
    BY <1>13 DEF StartUna, Consume
  <2>2. TermFits' /\ NoEarlierEnd' /\ GapSoFar' /\ Tiled(input, term, segs)'
    BY <1>1, <2>1 DEF TermFits, NoEarlierEnd, GapSoFar
  <2>3. HeaderFirst'
    <3>1. raw' = <<"U">>
      BY <2>1
    <3> QED BY <1>1, <2>1, <3>1 DEF HeaderFirst
  <2> QED BY <2>2, <2>3 DEF TileInv
<1>14. CASE StartSegment
  <2>1. /\ phase = "lead" /\ Running /\ Byte # term
        /\ phase' = "body" /\ raw' = <<Byte>> /\ rawStart' = offset
        /\ scanned' = TRUE /\ UNCHANGED <<input, term, segs, state>>
    BY <1>14 DEF StartSegment, Consume, Reads, Ready
  <2>2. TermFits' /\ HeaderFirst' /\ Tiled(input, term, segs)'
    BY <1>1, <2>1 DEF TermFits, HeaderFirst
  <2>3. NoEarlierEnd'
    <3>1. Len(raw') = 1 /\ At(raw', 0) = Byte
      BY <2>1 DEF At
    <3>2. UnescapedTerms(raw', 0, Len(raw'), term') = {}
      <4>1. \A p \in 0 .. Len(raw') - 1 : p = 0
        BY <3>1
      <4> HIDE DEF At
      <4> QED BY <2>1, <3>1, <4>1 DEF UnescapedTerms
    <3> QED BY <3>2 DEF NoEarlierEnd
  <2>4. GapSoFar'
    BY <1>0, <1>1, <2>1 DEF GapSoFar
  <2> QED BY <2>2, <2>3, <2>4 DEF TileInv
<1>15. CASE ReadUna
  <2>1. /\ phase = "una" /\ UnaSoFar /\ raw' = Append(raw, Byte)
        /\ UNCHANGED <<input, term, segs, state, scanned, phase>>
    BY <1>15 DEF ReadUna, Consume
  <2>2. TermFits' /\ NoEarlierEnd' /\ GapSoFar' /\ Tiled(input, term, segs)'
    BY <1>1, <2>1 DEF TermFits, NoEarlierEnd, GapSoFar
  <2>3. Len(raw') < 3 => raw' \in {<<"U">>, <<"U", "N">>}
    <3>1. raw' = raw \o <<Byte>> /\ Len(raw') = Len(raw) + 1
      BY <1>0, <2>1
    <3>2. Len(<<"U", "N", "A">>) = 3
      OBVIOUS
    <3> QED BY <1>0, <2>1, <3>1, <3>2 DEF UnaSoFar
  <2>4. HeaderFirst'
    BY <1>1, <2>1, <2>3 DEF HeaderFirst
  <2> QED BY <2>2, <2>4 DEF TileInv
<1>16. CASE AdoptUna
  <2>1. phase = "una" /\ input' = input
    BY <1>16 DEF AdoptUna, Consume
  <2>2. CASE ValidAdvice(Append(raw, Byte))
    <3>1. /\ term' = (IF Advice = None THEN Byte ELSE term)
          /\ phase' = "lead" /\ scanned' = TRUE
          /\ UNCHANGED <<state, segs>>
      BY <1>16, <2>2 DEF AdoptUna
    <3>2. segs = <<>> /\ Len(segs) = 0
      BY <1>1, <2>1 DEF HeaderFirst
    <3>3. Tiled(input, term, segs)' /\ UpTo(input, term, segs, consumed)'
      BY <3>1, <3>2 DEF Tiled, UpTo
    <3>4. TermFits'
      <4>1. CASE Advice = None
        <5>1. Len(raw) + 1 = UnaLen
          BY <1>16 DEF AdoptUna
        <5>2. At(Append(raw, Byte), UnaLen - 1) = Byte
          <6>1. Append(raw, Byte)[Len(raw) + 1] = Byte
            BY <1>0
          <6>2. UnaLen - 1 + 1 = Len(raw) + 1
            BY <1>0, <5>1
          <6> QED BY <6>1, <6>2 DEF At
        <5>3. Byte \in {"term", "alt"}
          BY <2>2, <5>2 DEF ValidAdvice
        <5> QED BY <3>1, <4>1, <5>3 DEF TermFits
      <4>2. CASE Advice # None
        BY <1>1, <3>1, <4>2 DEF TermFits
      <4> QED BY <4>1, <4>2
    <3>5. HeaderFirst' /\ NoEarlierEnd' /\ GapSoFar'
      BY <3>1, <3>2, <3>3 DEF HeaderFirst, NoEarlierEnd, GapSoFar
    <3> QED BY <3>3, <3>4, <3>5 DEF TileInv
  <2>3. CASE ~ValidAdvice(Append(raw, Byte))
    BY <1>2, <1>16, <2>1, <2>3 DEF AdoptUna
  <2> QED BY <2>2, <2>3
<1>17. ASSUME phase \in {"una", "body"}, phase' = "body", segs # <<>> => scanned',
              raw' = Append(raw, Byte),
              Byte # term \/ Escaped(raw, 0, Len(raw)),
              UnescapedTerms(raw, 0, Len(raw), term) = {} \/ NoTagIn(raw, term),
              UpTo(input, term, segs, rawStart),
              UNCHANGED <<input, term, segs, state, rawStart>>
       PROVE  TileInv'
  <2>1. TermFits' /\ HeaderFirst' /\ Tiled(input, term, segs)' /\ GapSoFar'
    BY <1>1, <1>17 DEF TermFits, HeaderFirst, GapSoFar
  <2>2. UnescapedTerms(raw', 0, Len(raw'), term) = {} \/ NoTagIn(raw', term)
    <3>1. /\ Len(raw') = Len(raw) + 1
          /\ At(raw', Len(raw)) = Byte
          /\ \A p \in 0 .. Len(raw)-1 : At(raw', p) = At(raw, p)
      BY <1>0, <1>17 DEF At
    <3>2. CASE NoTagIn(raw, term)
      <4>1. PICK p \in 0 .. TagLen-1 : p < Len(raw) /\ At(raw, p) = term
        BY <3>2 DEF NoTagIn
      <4>2. At(raw', p) = term /\ p < Len(raw')
            /\ 0 \in 0 .. Len(raw)-1
        BY <1>0, <3>1, <4>1
      <4>3. At(raw', 0) # "ws"
        BY <3>1, <3>2, <4>2 DEF NoTagIn
      <4> HIDE DEF At
      <4> QED BY <4>2, <4>3 DEF NoTagIn
    <3>3. CASE UnescapedTerms(raw, 0, Len(raw), term) = {}
      <4>1. UnescapedTerms(raw', 0, Len(raw), term) = {}
            /\ (Escaped(raw', 0, Len(raw)) <=> Escaped(raw, 0, Len(raw)))
        BY <1>0, <1>17, <3>3, AppendTerms
      <4>2. ASSUME NEW p \in UnescapedTerms(raw', 0, Len(raw'), term)
            PROVE  FALSE
        <5>1. p \in 0 .. Len(raw) /\ At(raw', p) = term /\ ~Escaped(raw', 0, p)
          BY <1>0, <3>1 DEF UnescapedTerms
        <5>2. CASE p = Len(raw)
          BY <1>17, <3>1, <4>1, <5>1, <5>2
        <5>3. CASE p # Len(raw)
          <6>1. p \in 0 .. Len(raw)-1
            BY <1>0, <5>1, <5>3
          <6> QED BY <4>1, <5>1, <6>1 DEF UnescapedTerms
        <5> QED BY <5>2, <5>3
      <4> QED BY <4>2
    <3> QED BY <1>17, <3>2, <3>3
  <2>3. NoEarlierEnd'
    BY <1>17, <2>2 DEF NoEarlierEnd
  <2> QED BY <2>1, <2>3 DEF TileInv
<1>18. CASE ReadBody
  <2>1. /\ phase = "body" /\ Running /\ phase' = "body" /\ scanned' = scanned
        /\ raw' = Append(raw, Byte)
        /\ Byte # term \/ Escaped(raw, 0, Len(raw))
        /\ UNCHANGED <<input, term, segs, state, rawStart>>
    BY <1>18 DEF ReadBody, Reads, Ready, Consume, EscapedNext
  <2>2. segs # <<>> => scanned'
    BY <1>1, <2>1 DEF HeaderFirst
  <2>3. /\ UnescapedTerms(raw, 0, Len(raw), term) = {} \/ NoTagIn(raw, term)
        /\ UpTo(input, term, segs, rawStart)
    BY <1>1, <2>1 DEF NoEarlierEnd, GapSoFar
  <2> QED BY <1>17, <2>1, <2>2, <2>3
<1>19. CASE SlowSegment
  <2>1. /\ phase = "body" /\ Reads /\ Running /\ Byte = term
        /\ Consume(1) /\ Finish(raw)
    BY <1>19 DEF SlowSegment, Reads, Ready
  <2> QED BY <1>1, <2>1, FinishTiles DEF NoEarlierEnd, GapSoFar
<1>20. CASE NotUna
  <2>1. phase = "una" /\ Reads /\ Consume(1) /\ ~UnaSoFar /\ input' = input
    BY <1>20 DEF NotUna, Consume
  <2>2. segs = <<>>
    BY <1>1, <2>1 DEF HeaderFirst
  <2>3. UpTo(input, term, segs, rawStart)
    BY <2>2 DEF UpTo
  <2>4. UnescapedTerms(raw, 0, Len(raw), term) = {} \/ NoTagIn(raw, term)
    <3>1. raw \in {<<"U">>, <<"U", "N">>}
      BY <1>0, <1>1, <2>1 DEF HeaderFirst, UnaSoFar
    <3>2. /\ Len(raw) \in 1..2 /\ At(raw, 0) = "U"
          /\ \A p \in 0 .. Len(raw)-1 : p \in 0..1 /\ At(raw, p) \in {"U", "N"}
      <4>1. CASE raw = <<"U">>
        <5>1. Len(raw) = 1 /\ raw[1] = "U"
          BY <4>1
        <5> QED BY <5>1 DEF At
      <4>2. CASE raw = <<"U", "N">>
        <5>1. Len(raw) = 2 /\ raw[1] = "U" /\ raw[2] = "N"
          BY <4>2
        <5>2. \A p \in 0..1 : p + 1 = 1 \/ p + 1 = 2
          OBVIOUS
        <5> QED BY <5>1, <5>2 DEF At
      <4> QED BY <3>1, <4>1, <4>2
    <3> SUFFICES ASSUME NEW p \in UnescapedTerms(raw, 0, Len(raw), term)
                 PROVE  NoTagIn(raw, term)
      OBVIOUS
    <3>3. p \in 0 .. Len(raw)-1 /\ At(raw, p) = term
      BY DEF UnescapedTerms
    <3>4. TagLen > 1
      BY <1>1, <3>2, <3>3 DEF TermFits
    <3>5. p \in 0 .. TagLen-1 /\ p < Len(raw)
      BY <3>2, <3>3, <3>4, SyntaxAssumption
    <3> HIDE DEF At
    <3> QED BY <3>2, <3>3, <3>5 DEF NoTagIn
  <2>5. CASE Len(raw) > MaxSegmentBytes
    BY <1>2, <1>20, <2>1, <2>5 DEF NotUna
  <2>6. CASE ~(Len(raw) > MaxSegmentBytes) /\ Byte = term
    <3>1. Finish(raw)
      BY <1>20, <2>6 DEF NotUna
    <3> QED BY <2>1, <2>3, <2>4, <2>6, <3>1, FinishTiles
  <2>7. CASE ~(Len(raw) > MaxSegmentBytes) /\ Byte # term
    <3>1. /\ phase' = "body" /\ scanned' = TRUE /\ raw' = Append(raw, Byte)
          /\ UNCHANGED <<term, segs, state, rawStart>>
      BY <1>20, <2>7 DEF NotUna
    <3> QED BY <1>17, <2>1, <2>3, <2>4, <2>7, <3>1
  <2> QED BY <2>5, <2>6, <2>7
<1> QED BY <1>4, <1>5, <1>6, <1>8, <1>9, <1>10, <1>11, <1>12, <1>13, <1>14, <1>15,
          <1>16, <1>18, <1>19, <1>20
       DEF Next, FastPath, SlowPath

(***************************************************************************)
(* The segments tile the input: each ends at the first terminator in force *)
(* and only whitespace and empty segments lie between them, whichever path *)
(* read them and however the reader chunks the input.  A tag of one byte   *)
(* and a terminator that is one of UNA's letters would not do: the UNA     *)
(* lookahead would read past that terminator.  The code's tags have three  *)
(* bytes.                                                                  *)
(***************************************************************************)
THEOREM SegmentsTile ==
  ASSUME TagLen > 1 \/ Advice \notin {"U", "N"}
  PROVE  Spec => []SegmentsTileInput
<1>1. Init => TileInv
  BY TileInit
<1>2. StreamInv /\ TileInv /\ [Next]_vars => TileInv'
  BY TileStep
<1> QED BY <1>1, <1>2, StreamInvariant, TileInvImplies, PTL DEF Spec

-----------------------------------------------------------------------------
(***************************************************************************)
(* The iterator over the slice.  Its operators are those of this module:   *)
(* FromBytes is instantiated with the same limits.                         *)
(***************************************************************************)
LEMMA SlicedAre ==
  /\ \A a, b : Sliced!Lesser(a, b) = Lesser(a, b)
  /\ \A S, d : Sliced!LeastOr(S, d) = LeastOr(S, d)
  /\ \A k, off : Sliced!Error(k, off) = Error(k, off)
  /\ \A k, off : Sliced!Failure(k, off) = Failure(k, off)
  /\ Sliced!NoError = NoError /\ Sliced!NoOffset = NoOffset
  /\ Sliced!EndOfSegments = EndOfSegments
  /\ Sliced!TagLetters = TagLetters
BY DEF Sliced!Lesser, Lesser, Sliced!LeastOr, LeastOr, Sliced!Error, Error,
   Sliced!Failure, Failure, Sliced!NoError, NoError, Sliced!NoOffset, NoOffset,
   Sliced!EndOfSegments, EndOfSegments, Sliced!TagLetters, TagLetters

LEMMA SlicedSkips ==
  ASSUME NEW s, NEW from, NEW to
  PROVE  /\ Sliced!At(s, from) = At(s, from)
         /\ Sliced!Slice(s, from, to) = Slice(s, from, to)
         /\ Sliced!SkipWs(s, from, to) = SkipWs(s, from, to)
         /\ Sliced!HasUna(s, from) = HasUna(s, from)
         /\ Sliced!PrologueLen(s) = PrologueLen(s)
<1>1. /\ Sliced!At(s, from) = At(s, from)
      /\ Sliced!Slice(s, from, to) = Slice(s, from, to)
  BY DEF Sliced!At, At, Sliced!Slice, Slice
<1>2. Sliced!SkipWs(s, from, to) = SkipWs(s, from, to)
  BY DEF Sliced!SkipWs, SkipWs, Sliced!LeastOr, LeastOr, Sliced!At, At
<1>3. Sliced!HasUna(s, from) = HasUna(s, from)
  BY DEF Sliced!HasUna, HasUna, Sliced!Slice, Slice
<1>4. Sliced!PrologueLen(s) = PrologueLen(s)
  BY DEF Sliced!PrologueLen, PrologueLen, Sliced!SkipWs, SkipWs, Sliced!LeastOr, LeastOr, Sliced!At, At,
     Sliced!StartsWithBom, StartsWithBom
<1> QED BY <1>1, <1>2, <1>3, <1>4

LEMMA SlicedTerms ==
  ASSUME NEW s, NEW from, NEW to, NEW t
  PROVE  Sliced!UnescapedTerms(s, from, to, t) = UnescapedTerms(s, from, to, t)
BY DEF Sliced!UnescapedTerms, UnescapedTerms, Sliced!Escaped, Escaped, Sliced!At, At

LEMMA SlicedValues ==
  ASSUME NEW s, NEW len, NEW t, NEW start, NEW e
  PROVE  Sliced!ParseValues(s, len, t, start, e) = ParseValues(s, len, t, start, e)
BY DEF Sliced!ParseValues, ParseValues, Sliced!Escaped, Escaped, Sliced!At, At, Sliced!LeastOr,
   LeastOr, Sliced!Lesser, Lesser, Sliced!Greatest, Greatest, Sliced!Failure, Failure,
   Sliced!Segment, Segment, Sliced!Error, Error, Sliced!NoError, NoError, Sliced!NoOffset, NoOffset

LEMMA SlicedParse ==
  ASSUME NEW s, NEW len, NEW t, NEW pos
  PROVE  Sliced!ParseSegment(s, len, t, pos) = ParseSegment(s, len, t, pos)
<1> DEFINE start == SkipWs(s, pos, len)
           w == Lesser(start + MaxSegmentBytes + 1, len)
           e == LeastOr({p \in start .. w-1 : At(s, p) \in {"sep", t}}, w)
           sstart == Sliced!SkipWs(s, pos, len)
           sw == Sliced!Lesser(sstart + MaxSegmentBytes + 1, len)
           se == Sliced!LeastOr({p \in sstart .. sw-1 : Sliced!At(s, p) \in {"sep", t}}, sw)
<1>1. sstart = start
  BY SlicedSkips
<1>2. sw = w
  BY <1>1, SlicedAre
<1>3. se = e
  <2> HIDE DEF start, w, sstart, sw
  <2> QED BY <1>1, <1>2, SlicedAre DEF Sliced!At, At
<1> DEFINE letters(f, g) == \E p \in f .. g-1 : At(s, p) \notin TagLetters
           sletters(f, g) == \E p \in f .. g-1 : Sliced!At(s, p) \notin Sliced!TagLetters
<1>4. sletters(sstart, se) <=> letters(start, e)
  <2> HIDE DEF start, sstart, e, se
  <2> QED BY <1>1, <1>3 DEF Sliced!At, At, Sliced!TagLetters, TagLetters
<1> DEFINE Told(begin, end, odd, none, fail(_, _), values) ==
             IF begin = len THEN none
             ELSE IF end = begin THEN fail("InvalidDelimiter", begin)
             ELSE IF end - begin > MaxSegmentBytes THEN fail("SegmentTooLong", begin)
             ELSE IF end - begin # TagLen \/ odd THEN fail("InvalidSegmentTag", NoOffset)
             ELSE IF end = len THEN fail("UnexpectedEof", len)
             ELSE values
<1>5. ParseSegment(s, len, t, pos) =
        Told(start, e, letters(start, e), EndOfSegments, Failure, ParseValues(s, len, t, start, e))
  BY DEF ParseSegment
<1>6. Sliced!ParseSegment(s, len, t, pos) =
        Told(sstart, se, sletters(sstart, se), Sliced!EndOfSegments, Sliced!Failure, 
             Sliced!ParseValues(s, len, t, sstart, se))
  BY SlicedAre DEF Sliced!ParseSegment
<1>7. Sliced!ParseValues(s, len, t, sstart, se) = ParseValues(s, len, t, start, e)
  <2> HIDE DEF start, sstart, e, se
  <2> QED BY <1>1, <1>3, SlicedValues
<1> HIDE DEF start, sstart, e, se, letters, sletters
<1> QED BY <1>1, <1>3, <1>4, <1>5, <1>6, <1>7, SlicedAre

(***************************************************************************)
(* The iterator over the slice s: how much of s its parser is given, and   *)
(* what it finds at offset p of it.                                        *)
(***************************************************************************)
Seen(s) == Sliced!ScannedLen(s)
Found(s, p) == ParseSegment(s, Seen(s), Sliced!TermOf(s), p)

LEMMA SeenIs ==
  ASSUME NEW s \in Seq(Bytes)
  PROVE  /\ Seen(s) \in Nat /\ Seen(s) <= Len(s) /\ Len(s) \in Nat
         /\ Sliced!Truncated(s) => Seen(s) = MaxInputBytes /\ Seen(s) < Len(s)
                                   /\ MaxInputBytes # None /\ MaxInputBytes \in Nat
         /\ ~Sliced!Truncated(s) => Seen(s) = Len(s)
         /\ \A end \in Nat : end <= Len(s) => (AdmitsBytes(end) <=> end <= Seen(s))
         /\ Sliced!BytesBudgetExceeded = BytesExceeded
         /\ BytesExceeded = Error("max_input_bytes", MaxInputBytes)
BY LimitsAssumption, SlicedAre DEF Seen, Sliced!ScannedLen, Sliced!Truncated, AdmitsBytes, Exceeds,
   Sliced!BytesBudgetExceeded, BytesExceeded, LimitError

(* over_budget, case by case. *)
LEMMA OverBudgetIs ==
  ASSUME NEW s, NEW e, NEW pos \in Nat, Sliced!Truncated(s), MaxInputBytes \in Nat,
         pos <= MaxInputBytes, NEW start \in Nat, start = SkipWs(s, pos, MaxInputBytes),
         NEW terms, terms = UnescapedTerms(s, pos, MaxInputBytes, Sliced!TermOf(s))
  PROVE  /\ e.kind = "SegmentTooLong" => Sliced!OverBudget(s, e, pos) = e
         /\ terms # {} => Sliced!OverBudget(s, e, pos) = e
         /\ e.kind # "SegmentTooLong" /\ terms = {} /\ start + MaxSegmentBytes + 1 > MaxInputBytes
              => Sliced!OverBudget(s, e, pos) = BytesExceeded
         /\ e.kind # "SegmentTooLong" /\ terms = {} /\ ~(start + MaxSegmentBytes + 1 > MaxInputBytes)
              => Sliced!OverBudget(s, e, pos)
                   = IF e = Error("InvalidReleaseSequence", MaxInputBytes - 1)
                     THEN Error("SegmentTooLong", start) ELSE e
<1>1. Sliced!Lesser(pos, MaxInputBytes) = pos
  BY DEF Sliced!Lesser
<1>2. Sliced!SkipWs(s, pos, MaxInputBytes) = start
  BY SlicedSkips
<1>3. Sliced!UnescapedTerms(s, pos, MaxInputBytes, Sliced!TermOf(s)) = terms
  BY SlicedTerms
<1>4. Sliced!BytesBudgetExceeded = BytesExceeded
  BY SlicedAre DEF Sliced!BytesBudgetExceeded, BytesExceeded, LimitError
<1>5. Sliced!OverBudget(s, e, pos) =
        IF ~Sliced!Truncated(s) \/ e.kind = "SegmentTooLong" THEN e
        ELSE IF terms # {} THEN e
        ELSE IF start + MaxSegmentBytes + 1 > MaxInputBytes THEN BytesExceeded
        ELSE IF e = Error("InvalidReleaseSequence", MaxInputBytes - 1)
          THEN Error("SegmentTooLong", start)
        ELSE e
  BY <1>1, <1>2, <1>3, <1>4, SlicedAre DEF Sliced!OverBudget
<1> QED BY <1>5

LEMMA BudgetsAre ==
  ASSUME NEW b, NEW tag
  PROVE  /\ Sliced!AdmitsSegment(b, tag) = AdmitsSegment(b, tag)
         /\ Sliced!RefusedLimit(b, tag) = RefusedLimit(b, tag)
         /\ Sliced!Account(b, tag) = Account(b, tag)
         /\ Sliced!NewBudget = NewBudget
BY DEF Sliced!AdmitsSegment, AdmitsSegment, Sliced!RefusedLimit, RefusedLimit, Sliced!Account, Account,
   Sliced!NewBudget, NewBudget, Sliced!OverSegments, OverSegments, Sliced!OverMessages, OverMessages,
   Sliced!OverMessageSize, OverMessageSize, Sliced!Exceeds, Exceeds, Sliced!PositionInMessage,
   PositionInMessage, Sliced!MessagesAfter, MessagesAfter, Sliced!MessageSegmentsAfter, MessageSegmentsAfter

(* A call of next(), case by case.                                         *)
CalledAs(next, s, found, at, b, g) ==
  /\ found.is = "end" =>
       /\ next.done /\ next.segs = g
       /\ next.error = IF Sliced!Truncated(s) THEN BytesExceeded ELSE NoError
  /\ found.is = "error" =>
       /\ next.done /\ next.segs = g
       /\ next.error = Sliced!OverBudget(s, found.error, at)
  /\ found.is = "segment" /\ ~AdmitsSegment(b, "BGM") =>
       /\ next.done /\ next.segs = g
       /\ next.error = Error(RefusedLimit(b, "BGM"), found.from)
  /\ found.is = "segment" /\ AdmitsSegment(b, "BGM") =>
       next = Sliced!Iterator(found.to, Account(b, "BGM"),
                              Append(g, [from |-> found.from, to |-> found.to]),
                              NoError, FALSE)

LEMMA CalledIs ==
  ASSUME NEW s, NEW at, NEW b, NEW g, NEW found, found = Found(s, at),
         NEW next, next = Sliced!Called(s, Sliced!Iterator(at, b, g, NoError, FALSE))
  PROVE  CalledAs(next, s, found, at, b, g)
<1> DEFINE iter == Sliced!Iterator(at, b, g, NoError, FALSE)
<1>1. iter.at = at /\ iter.budget = b /\ iter.segs = g /\ iter.done = FALSE
  BY DEF Sliced!Iterator
<1>2. \A e : /\ Sliced!EndedWith(iter, e).done /\ Sliced!EndedWith(iter, e).segs = g
             /\ Sliced!EndedWith(iter, e).error = e
  BY <1>1 DEF Sliced!EndedWith, Sliced!Iterator
<1>3. next = Sliced!Called(s, iter)
  OBVIOUS
<1>4. Sliced!ParseSegment(s, Sliced!ScannedLen(s), Sliced!TermOf(s), at) = found
  BY SlicedParse DEF Found, Seen
<1>5. Sliced!TagAt(s, found.from) = "BGM"
  BY DEF Sliced!TagAt, Ordinary
<1>6. Sliced!BytesBudgetExceeded = BytesExceeded
  BY SlicedAre DEF Sliced!BytesBudgetExceeded, BytesExceeded, LimitError
<1> HIDE DEF iter
<1>7. next = IF found.is = "end"
             THEN Sliced!EndedWith(iter, IF Sliced!Truncated(s) THEN BytesExceeded ELSE NoError)
             ELSE IF found.is = "error"
             THEN Sliced!EndedWith(iter, Sliced!OverBudget(s, found.error, at))
             ELSE IF ~AdmitsSegment(b, "BGM")
             THEN Sliced!EndedWith(iter, Error(RefusedLimit(b, "BGM"), found.from))
             ELSE Sliced!Iterator(found.to, Account(b, "BGM"),
                           Append(g, [from |-> found.from, to |-> found.to]),
                           NoError, FALSE)
  BY <1>1, <1>3, <1>4, <1>5, <1>6, SlicedAre, BudgetsAre DEF Sliced!Called
<1> QED BY <1>2, <1>7 DEF CalledAs

(* The iterator after every call, as the definition says.                  *)
LEMMA CallStep ==
  ASSUME NEW s, Len(s) \in Nat
  PROVE  /\ Sliced!AfterCall(s)[0] = Sliced!Opened(s)
         /\ \A k \in 1..Len(s)+1 : Sliced!AfterCall(s)[k] = Sliced!Called(s, Sliced!AfterCall(s)[k-1])
<1> DEFINE last == Len(s) + 1
           Turn(v) == Sliced!Called(s, v)
           Is(f, n) == f = [k \in 0..n |-> IF k = 0 THEN Sliced!Opened(s) ELSE Turn(f[k-1])]
<1>l. last \in Nat
  OBVIOUS
<1>d. Sliced!AfterCall(s) = CHOOSE f : Is(f, last)
  BY DEF Sliced!AfterCall, Turn
<1> HIDE DEF Turn, last
<1>1. \E f : Is(f, 0)
  <2> DEFINE f == [k \in 0..0 |-> Sliced!Opened(s)]
  <2>1. Is(f, 0)
    OBVIOUS
  <2> QED BY <2>1
<1>2. ASSUME NEW n \in Nat, n # 0, NEW f, Is(f, n-1)
      PROVE  \E g : Is(g, n)
  <2> DEFINE g == [k \in 0..n |-> IF k = n THEN Turn(f[n-1]) ELSE f[k]]
  <2>1. \A k \in 0..n-1 : g[k] = f[k]
    OBVIOUS
  <2>2. \A k \in 0..n : g[k] = IF k = 0 THEN Sliced!Opened(s) ELSE Turn(g[k-1])
    BY <1>2, <2>1
  <2>3. Is(g, n)
    BY <2>2
  <2> QED BY <2>3
<1> DEFINE F == {n \in Nat : \E f : Is(f, n)}
<1>3. \A i \in 0+1..last : i-1 \in F => i \in F
  <2> HIDE DEF Is
  <2>1. SUFFICES ASSUME NEW i \in 0+1..last, i-1 \in F PROVE i \in F
    OBVIOUS
  <2>2. i \in Nat /\ i # 0
    BY <1>l
  <2>3. PICK f : Is(f, i-1)
    BY <2>1
  <2>4. \E g : Is(g, i)
    BY <1>2, <2>2, <2>3
  <2> QED BY <2>2, <2>4
<1>4. 0 \in F
  BY <1>1
<1>5. \A i \in 0..last : i \in F
  <2>1. last \in Int /\ 0 \in Int
    BY <1>l
  <2> HIDE DEF F
  <2> QED BY <1>3, <1>4, <2>1, ClimbsTo, Zenon
<1>6. \E f : Is(f, last)
  BY <1>5, <1>l
<1>8. Is(Sliced!AfterCall(s), last)
  <2> HIDE DEF Is
  <2> QED BY <1>6, <1>d
<1>9. /\ Sliced!AfterCall(s)[0] = Sliced!Opened(s)
      /\ \A k \in 1..last : Sliced!AfterCall(s)[k] = Turn(Sliced!AfterCall(s)[k-1])
  <2> DEFINE f == Sliced!AfterCall(s)
  <2> HIDE DEF f
  <2>1. f = [k \in 0..last |-> IF k = 0 THEN Sliced!Opened(s) ELSE Turn(f[k-1])]
    BY <1>8 DEF f
  <2>2. f[0] = Sliced!Opened(s) /\ \A k \in 1..last : f[k] = Turn(f[k-1])
    BY <2>1, <1>l
  <2> QED BY <2>2 DEF f
<1> QED BY <1>9 DEF Turn, last

(* An iterator that is exhausted goes on returning None: what it yields is *)
(* settled.                                                                *)
LEMMA DoneStays ==
  ASSUME NEW s, Len(s) \in Nat, NEW k \in 0..Len(s)+1, Sliced!AfterCall(s)[k].done
  PROVE  /\ Sliced!Yields(s).segs = Sliced!AfterCall(s)[k].segs
         /\ Sliced!Yields(s).error = Sliced!AfterCall(s)[k].error
<1> DEFINE last == Len(s) + 1
           after == Sliced!AfterCall(s)
           F == {j \in Int : after[j] = after[k]}
<1>1. \A j \in k+1..last : j-1 \in F => j \in F
  <2>1. SUFFICES ASSUME NEW j \in k+1..last, j-1 \in F PROVE after[j] = after[k]
    OBVIOUS
  <2>2. after[j] = Sliced!Called(s, after[j-1])
    <3>1. j \in 1..Len(s)+1
      OBVIOUS
    <3> QED BY <3>1, CallStep
  <2>3. after[j-1] = after[k]
    BY <2>1
  <2>4. Sliced!Called(s, after[k]) = after[k]
    BY DEF Sliced!Called
  <2> QED BY <2>2, <2>3, <2>4
<1>2. k \in F /\ k \in Int /\ last \in Int /\ last \in k..last
  OBVIOUS
<1>3. \A j \in k..last : j \in F
  <2> HIDE DEF F, last
  <2> QED BY <1>1, <1>2, ClimbsTo, Zenon
<1>4. after[last] = after[k]
  BY <1>2, <1>3
<1> QED BY <1>4 DEF Sliced!Yields


(* After n calls the iterator stands at p, with the segments g handed out; *)
(* or it ends, with an error or without, when those were handed out.       *)
Stands(s, n, p, b, g) ==
  /\ p \in 0..Seen(s) /\ n \in 0..p
  /\ Sliced!AfterCall(s)[n] = Sliced!Iterator(p, b, g, NoError, FALSE)

Ends(s, g, e) == Sliced!Yields(s).segs = g /\ Sliced!Yields(s).error = e

LEMMA NextIs ==
  ASSUME NEW s \in Seq(Bytes), NEW n, NEW p, NEW b, NEW g, Stands(s, n, p, b, g),
         NEW found, found = Found(s, p)
  PROVE  /\ found.is = "end" => Ends(s, g, IF Sliced!Truncated(s) THEN BytesExceeded ELSE NoError)
         /\ found.is = "error" => Ends(s, g, Sliced!OverBudget(s, found.error, p))
         /\ found.is = "segment" /\ ~AdmitsSegment(b, "BGM") =>
              Ends(s, g, Error(RefusedLimit(b, "BGM"), found.from))
         /\ found.is = "segment" /\ AdmitsSegment(b, "BGM") /\ p < found.to /\ found.to <= Seen(s) =>
              \A to, account, segments :
                to = found.to /\ account = Account(b, "BGM")
                  /\ segments = Append(g, [from |-> found.from, to |-> found.to]) =>
                Stands(s, n+1, to, account, segments)
<1>1. n \in Nat /\ p \in Nat /\ Len(s) \in Nat /\ Seen(s) \in Nat /\ n <= p /\ p <= Seen(s) /\ Seen(s) <= Len(s)
  BY SeenIs DEF Stands
<1>2. n+1 \in 1..Len(s)+1 /\ n+1 \in 0..Len(s)+1 /\ (n+1)-1 = n
  BY <1>1
<1> DEFINE next == Sliced!AfterCall(s)[n+1]
<1>3. next = Sliced!Called(s, Sliced!AfterCall(s)[n])
  BY <1>1, <1>2, CallStep
<1>4. next = Sliced!Called(s, Sliced!Iterator(p, b, g, NoError, FALSE))
  BY <1>3 DEF Stands
<1>5. next.done => Sliced!Yields(s).segs = next.segs /\ Sliced!Yields(s).error = next.error
  BY <1>1, <1>2, DoneStays
<1> HIDE DEF next
<1>6. CalledAs(next, s, found, p, b, g)
  BY <1>4, CalledIs
<1>7. ASSUME found.is = "segment", AdmitsSegment(b, "BGM"), p < found.to, found.to <= Seen(s),
             NEW to, to = found.to, NEW account, account = Account(b, "BGM"),
             NEW segments, segments = Append(g, [from |-> found.from, to |-> found.to]),
             found.to \in Nat
      PROVE  Stands(s, n+1, to, account, segments)
  <2>1. next = Sliced!Iterator(to, account, segments, NoError, FALSE)
    BY <1>6, <1>7 DEF CalledAs
  <2>2. to \in 0..Seen(s) /\ n+1 \in 0..to
    BY <1>1, <1>7
  <2> QED BY <2>1, <2>2 DEF Stands, next
<1>8. found.is = "segment" => found.to \in Nat
  <2> SUFFICES ASSUME found.is = "segment" PROVE found.to \in Nat
    OBVIOUS
  <2>1. p \in 0..Seen(s)
    BY DEF Stands
  <2>2. found.from \in p..Seen(s) /\ found.to \in found.from+1..Seen(s)
    BY <1>1, <2>1, ParsedWithin DEF Found
  <2> QED BY <1>1, <2>2
<1> QED BY <1>5, <1>6, <1>7, <1>8 DEF CalledAs, Ends

-----------------------------------------------------------------------------
(***************************************************************************)
(* What the slice's iterator finds where it stands, told by where the      *)
(* segment begins and where its first unescaped terminator lies.           *)
(***************************************************************************)
(* A segment at start whose first unescaped terminator is at z.            *)
WellFormed(s, t, start, z) ==
  /\ start + TagLen <= z
  /\ \A p \in start .. start + TagLen - 1 : At(s, p) \in TagLetters /\ At(s, p) # t
  /\ At(s, start + TagLen) \in {"sep", t}
  /\ \A p \in start + TagLen .. z-1 : At(s, p) # "bad"

FirstTerm(s, t, start, z) == z \in Nat /\ start <= z /\ UnescapedTerms(s, start, z + 1, t) = {z}

LEMMA FirstTermIs ==
  ASSUME NEW s, NEW t, NEW start \in Nat, NEW z, FirstTerm(s, t, start, z), NEW w \in Nat
  PROVE  /\ z < w => z \in UnescapedTerms(s, start, w, t)
         /\ \A q \in UnescapedTerms(s, start, w, t) : q \in Nat /\ z <= q
         /\ w <= z => UnescapedTerms(s, start, w, t) = {}
<1>1. z \in Nat /\ start <= z /\ z \in UnescapedTerms(s, start, z + 1, t)
      /\ \A q \in UnescapedTerms(s, start, z + 1, t) : q = z
  BY DEF FirstTerm
<1>2. z < w => z \in UnescapedTerms(s, start, w, t)
  <2>1. start \in Int /\ z + 1 \in Int /\ w \in Int
    BY <1>1
  <2> QED BY <1>1, <2>1, TermsWiden
<1>3. ASSUME NEW q \in UnescapedTerms(s, start, w, t) PROVE q \in Nat /\ z <= q /\ q < w
  <2>1. q \in start .. w-1 /\ At(s, q) = t /\ ~Escaped(s, start, q)
    BY <1>3 DEF UnescapedTerms
  <2>2. q <= z => q \in UnescapedTerms(s, start, z + 1, t)
    <3>1. q <= z => q \in start .. (z+1)-1
      BY <1>1, <2>1
    <3> QED BY <2>1, <3>1 DEF UnescapedTerms
  <2> QED BY <1>1, <2>1, <2>2
<1>4. w <= z => UnescapedTerms(s, start, w, t) = {}
  BY <1>1, <1>3
<1> QED BY <1>2, <1>3, <1>4

LEMMA FirstTermLeast ==
  ASSUME NEW s, NEW t, NEW start \in Nat, NEW z, FirstTerm(s, t, start, z), NEW w \in Nat,
         NEW q, q \in UnescapedTerms(s, start, w, t)
  PROVE  q \in Nat /\ z \in Nat /\ z <= q
BY FirstTermIs DEF FirstTerm

LEMMA WellFormedIs ==
  ASSUME NEW s, NEW t, NEW len \in Nat, NEW pos \in 0 .. len,
         NEW start, start = SkipWs(s, pos, len),
         NEW z, z < len, FirstTerm(s, t, start, z), z - start <= MaxSegmentBytes,
         NEW found, found = ParseSegment(s, len, t, pos)
  PROVE  /\ found.is = "segment" =>
              WellFormed(s, t, start, z) /\ found.from = start /\ found.to = z + 1
         /\ WellFormed(s, t, start, z) => found.is = "segment"
         /\ found.is # "segment" =>
              found.is = "error" /\ found.error.kind \in
                ParseErrors \ {"SegmentTooLong", "UnexpectedEof", "InvalidReleaseSequence"}
<1> DEFINE w == Window(start, len)
           e == TagEnd(s, t, start, w)
           stops == ValueStops(s, t, e, w)
           term_ == LeastOr(TermStops(s, t, e, w), w)
           bads == BadsIn(s, e, term_)
<1>1. start \in Nat /\ z \in Nat /\ start <= z /\ start < len
  <2>1. start \in pos .. len
    BY SkipWsBetween
  <2> QED BY <2>1 DEF FirstTerm
<1>2. w \in start+1 .. len /\ w \in Nat /\ z < w /\ w <= start + MaxSegmentBytes + 1
  <2>1. w \in start+1 .. len
    BY <1>1, Bounds
  <2>2. z < w /\ w <= start + MaxSegmentBytes + 1
    BY <1>1, SyntaxAssumption DEF Window, Lesser
  <2> QED BY <1>1, <2>1, <2>2
<1>3. /\ e \in start .. w /\ e \in Nat
      /\ \A p \in start .. e-1 : At(s, p) # t
  <2>1. e \in start .. w /\ \A p \in start .. e-1 : At(s, p) # t
    <3> HIDE DEF At
    <3> QED BY <1>1, Bounds
  <2>2. e \in Nat
    <3> HIDE DEF e, w
    <3> QED BY <1>1, <1>2, <2>1
  <2> QED BY <2>1, <2>2
<1>4. found = SegmentIn(s, len, t, start, w, e)
  <2>1. start # len
    BY <1>1
  <2> QED BY <2>1, SegmentIs
<1>5. ReturnsFor(found, s, t, start, len)
  BY Returns
<1>6. z \in UnescapedTerms(s, start, w, t)
  <2> HIDE DEF w
  <2> QED BY <1>1, <1>2, FirstTermIs
<1>7. found.is # "segment" =>
        found.is = "error" /\ found.error.kind \in
          ParseErrors \ {"SegmentTooLong", "UnexpectedEof", "InvalidReleaseSequence"}
  BY <1>1, <1>5, <1>6 DEF ReturnsFor
<1> HIDE DEF w
<1>8. ASSUME found.is = "segment"
      PROVE  WellFormed(s, t, start, z) /\ found.from = start /\ found.to = z + 1
  <2>1. /\ found.from = start /\ found.to \in start+1 .. len
        /\ UnescapedTerms(s, start, found.to, t) = {found.to - 1}
    <3>1. LiesAt(found, s, t, start, len)
      BY <1>8, SegmentLies
    <3> QED BY <3>1 DEF LiesAt
  <2>2. found.to = z + 1
    <3>1. found.to \in Nat
      BY <1>1, <2>1
    <3>2. found.to - 1 \in UnescapedTerms(s, start, found.to, t)
      BY <2>1
    <3>3. z <= found.to - 1
      <4> DEFINE q == found.to - 1
      <4>1. q \in UnescapedTerms(s, start, found.to, t)
        BY <3>2
      <4> HIDE DEF q
      <4>2. z <= q
        BY <1>1, <3>1, <4>1, FirstTermLeast
      <4> QED BY <4>2 DEF q
    <3>4. z \in UnescapedTerms(s, start, found.to, t)
      <4>1. z < found.to
        BY <1>1, <2>1, <3>3
      <4> QED BY <1>1, <3>1, <4>1, FirstTermIs
    <3> QED BY <1>1, <2>1, <3>4
  <2> DEFINE values == ValuesIn(s, len, t, start, w, e)
             letters == Letters(s, start, e)
  <2>3. found = TagRead(len, start, e, letters, values)
    BY <1>4 DEF SegmentIn
  <2>4. letters \in BOOLEAN
    BY DEF Letters
  <2> HIDE DEF values, letters, e
  <2>5. /\ e # start /\ ~(e - start > MaxSegmentBytes) /\ letters
        /\ e - start = TagLen /\ e # len /\ found = values
    <3>1. \A k, off : Failure(k, off).is # "segment"
      BY FailureIs
    <3> QED BY <1>8, <2>3, <2>4, <3>1 DEF TagRead
  <2>6. e < w
    <3>1. e # w
      <4>1. ~(start + MaxSegmentBytes + 1 <= len) => w = len
        BY <1>1, Bounds DEF w
      <4>2. start + MaxSegmentBytes + 1 <= len => w = start + MaxSegmentBytes + 1
        BY <1>1, Bounds DEF w
      <4> QED BY <1>1, <1>3, <2>5, <4>1, <4>2, SyntaxAssumption
    <3> QED BY <1>2, <1>3, <3>1
  <2>7. At(s, e) \in {"sep", t}
    <3>1. e \in TagStops(s, t, start, w)
      <4>1. TagStops(s, t, start, w) \subseteq start .. w-1
        BY DEF TagStops
      <4>2. e = LeastOr(TagStops(s, t, start, w), w)
        BY DEF e, TagEnd
      <4>3. e < w => e \in TagStops(s, t, start, w)
        <5> HIDE DEF e
        <5> QED BY <1>1, <1>2, <4>1, <4>2, LeastBetween
      <4> QED BY <2>6, <4>3
    <3> QED BY <3>1 DEF TagStops
  <2>8. e = start + TagLen
    BY <1>1, <1>3, <2>5, SyntaxAssumption
  <2>9. e <= z
    <3>1. z \notin start .. e-1
      <4>1. At(s, z) = t
        BY <1>6 DEF UnescapedTerms
      <4> QED BY <1>3, <4>1
    <3> QED BY <1>1, <1>3, <3>1
  <2>10. term_ = z
    <3>1. Overtaken(bads, stops) = {} /\ term_ < w /\ found = Segment(start, term_ + 1)
      <4>1. found = ValuesRead(s, len, start, w, stops, term_, bads, Dangles(s, e, len))
        BY <2>5 DEF values, ValuesIn
      <4> HIDE DEF stops, term_, bads
      <4> QED BY <1>8, <4>1, FailureIs DEF ValuesRead
    <3>2. found.to = term_ + 1
      <4> HIDE DEF stops, term_, bads
      <4> QED BY <3>1, SegmentFields
    <3>3. term_ \in e .. w
      <4>1. e <= w
        BY <2>6, <1>2, <1>3
      <4> QED BY <1>2, <1>3, <4>1, NoTermLeft
    <3> HIDE DEF term_
    <3> QED BY <1>1, <1>2, <1>3, <2>2, <3>2, <3>3
  <2>11. \A p \in e .. z-1 : At(s, p) # "bad"
    <3>1. Overtaken(bads, stops) = {}
      <4>1. found = ValuesRead(s, len, start, w, stops, term_, bads, Dangles(s, e, len))
        BY <2>5 DEF values, ValuesIn
      <4> HIDE DEF stops, term_, bads
      <4> QED BY <1>8, <4>1, FailureIs DEF ValuesRead
    <3>2. z \in stops
      <4>1. z \in UnescapedTerms(s, e, w, t)
        <5>1. start < e
          BY <1>1, <1>3, <2>5
        <5>2. UnescapedTerms(s, start, w, t) = UnescapedTerms(s, e, w, t)
          <6>1. Letters(s, start, e)
            BY <2>5 DEF letters
          <6> HIDE DEF At
          <6> QED BY <1>1, <1>2, <1>3, <5>1, <6>1, TermsAfterTag
        <5> QED BY <1>6, <5>2
      <4> QED BY <4>1 DEF UnescapedTerms, ValueStops
    <3>3. SUFFICES ASSUME NEW p \in e .. z-1, At(s, p) = "bad" PROVE FALSE
      OBVIOUS
    <3>4. p \in bads
      BY <2>10, <3>3 DEF BadsIn
    <3>5. z > p
      BY <1>1, <1>3, <3>3
    <3> HIDE DEF bads, stops
    <3> QED BY <3>1, <3>2, <3>4, <3>5 DEF Overtaken
  <2>12. WellFormed(s, t, start, z)
    <3>1. \A p \in start .. e-1 : At(s, p) \in TagLetters /\ At(s, p) # t
      BY <1>3, <2>5 DEF letters, Letters
    <3> HIDE DEF e, At
    <3>2. /\ start + TagLen <= z
          /\ \A p \in start .. start + TagLen - 1 : At(s, p) \in TagLetters /\ At(s, p) # t
      <4>2. ASSUME NEW p \in start .. start + TagLen - 1
            PROVE  At(s, p) \in TagLetters /\ At(s, p) # t
        <5>1. p \in start .. e-1
          BY <1>1, <1>3, <2>8, SyntaxAssumption
        <5> QED BY <3>1, <5>1
      <4> QED BY <2>8, <2>9, <4>2
    <3>3. /\ At(s, start + TagLen) \in {"sep", t}
          /\ \A p \in start + TagLen .. z-1 : At(s, p) # "bad"
      BY <2>7, <2>8, <2>11
    <3> QED BY <3>2, <3>3 DEF WellFormed
  <2> QED BY <2>1, <2>2, <2>12
<1>9. ASSUME WellFormed(s, t, start, z)
      PROVE  found.is = "segment"
  <2> DEFINE f == start + TagLen
  <2>1. /\ f \in Nat /\ start < f /\ f <= z
        /\ \A p \in start .. f-1 : At(s, p) \in TagLetters /\ At(s, p) # t
        /\ At(s, f) \in {"sep", t}
        /\ \A p \in f .. z-1 : At(s, p) # "bad"
    BY <1>1, <1>9, SyntaxAssumption DEF WellFormed
  <2>f. f - start = TagLen /\ f - start <= MaxSegmentBytes /\ f # len /\ f < w
    BY <1>1, <1>2, <2>1, SyntaxAssumption
  <2> HIDE DEF f
  <2>2. e = f
    <3>1. f \in TagStops(s, t, start, w) /\ \A q \in TagStops(s, t, start, w) : f <= q
      <4>1. f \in start .. w-1
        BY <1>1, <1>2, <2>1, <2>f
      <4>2. ASSUME NEW q \in TagStops(s, t, start, w) PROVE f <= q
        <5>1. q \in start .. w-1 /\ At(s, q) \in {"sep", t}
          BY <4>2 DEF TagStops
        <5>2. "sep" \notin TagLetters
          BY DEF TagLetters
        <5>3. q \notin start .. f-1
          BY <2>1, <5>1, <5>2
        <5> QED BY <1>1, <1>2, <2>1, <5>1, <5>3
      <4>3. f \in TagStops(s, t, start, w)
        BY <2>1, <4>1 DEF TagStops
      <4> QED BY <4>2, <4>3
    <3>2. TagStops(s, t, start, w) \subseteq Nat
      BY <1>1, <1>2 DEF TagStops
    <3>3. e \in TagStops(s, t, start, w) /\ e <= f
      <4>1. TagStops(s, t, start, w) # {}
        BY <3>1
      <4> HIDE DEF TagStops
      <4> QED BY <3>1, <3>2, <4>1, LeastIn DEF TagEnd
    <3> HIDE DEF e
    <3> QED BY <1>3, <2>1, <3>1, <3>3
  <2>3. Letters(s, start, e)
    BY <2>1, <2>2 DEF Letters
  <2>4. z \in UnescapedTerms(s, e, w, t) /\ UnescapedTerms(s, start, w, t) = UnescapedTerms(s, e, w, t)
    <3>1. start < e
      BY <2>1, <2>2
    <3>2. UnescapedTerms(s, start, w, t) = UnescapedTerms(s, e, w, t)
      <4> HIDE DEF At, e
      <4> QED BY <1>1, <1>2, <1>3, <2>3, <3>1, TermsAfterTag
    <3> QED BY <1>6, <3>2
  <2>5. term_ < w /\ term_ = z
    <3>1. z \in TermStops(s, t, e, w)
      BY <2>4 DEF UnescapedTerms, TermStops, ValueStops
    <3>2. TermStops(s, t, e, w) \subseteq Nat
      BY <1>2, <1>3 DEF TermStops, ValueStops
    <3>3. term_ \in TermStops(s, t, e, w) /\ term_ <= z
      <4>1. TermStops(s, t, e, w) # {}
        BY <3>1
      <4> HIDE DEF e
      <4> QED BY <3>1, <3>2, <4>1, LeastIn
    <3>4. term_ \in UnescapedTerms(s, e, w, t)
      <4> HIDE DEF term_
      <4> QED BY <3>3 DEF UnescapedTerms, TermStops, ValueStops
    <3>5. z <= term_ /\ term_ \in Nat
      <4> HIDE DEF term_, e
      <4> QED BY <1>1, <1>2, <2>4, <3>4, FirstTermLeast
    <3> HIDE DEF term_
    <3> QED BY <1>1, <1>2, <3>3, <3>5
  <2>6. bads = {}
    BY <2>1, <2>2, <2>5 DEF BadsIn
  <2>7. ValuesIn(s, len, t, start, w, e) = Segment(start, term_ + 1)
    <3>1. Overtaken(bads, stops) = {}
      BY <2>6 DEF Overtaken
    <3>2. ValuesIn(s, len, t, start, w, e)
            = ValuesRead(s, len, start, w, stops, term_, bads, Dangles(s, e, len))
      BY DEF ValuesIn
    <3> HIDE DEF bads, stops, term_, e
    <3> QED BY <2>5, <3>1, <3>2 DEF ValuesRead
  <2>8. found = ValuesIn(s, len, t, start, w, e)
    <3>1. found = TagRead(len, start, e, Letters(s, start, e), ValuesIn(s, len, t, start, w, e))
      BY <1>4 DEF SegmentIn
    <3>2. e # start /\ ~(e - start > MaxSegmentBytes) /\ e - start = TagLen /\ e # len
      <4> HIDE DEF e
      <4> QED BY <1>1, <2>1, <2>2, <2>f, SyntaxAssumption
    <3> HIDE DEF e
    <3> QED BY <2>3, <3>1, <3>2 DEF TagRead
  <2> HIDE DEF term_, e
  <2> QED BY <2>7, <2>8, SegmentFields
<1> QED BY <1>7, <1>8, <1>9

LEMMA OverBudgetUncut ==
  ASSUME NEW s, NEW e, NEW pos, ~Sliced!Truncated(s)
  PROVE  Sliced!OverBudget(s, e, pos) = e
BY DEF Sliced!OverBudget

(* Where the parser looks from p of a slice.                               *)
LEMMA Looking ==
  ASSUME NEW s \in Seq(Bytes), NEW p \in 0..Seen(s), NEW start, start = SkipWs(s, p, Len(s))
  PROVE  /\ start \in Nat /\ p \in Nat /\ p <= start /\ start <= Len(s)
         /\ Len(s) \in Nat /\ Seen(s) \in Nat /\ p <= Seen(s) /\ Seen(s) <= Len(s)
         /\ \A q \in p .. start-1 : At(s, q) = "ws"
         /\ start < Seen(s) => SkipWs(s, p, Seen(s)) = start
         /\ ~(start < Seen(s)) => SkipWs(s, p, Seen(s)) = Seen(s)
<1>1. Len(s) \in Nat /\ Seen(s) \in Nat /\ p \in Nat /\ p <= Seen(s) /\ Seen(s) <= Len(s)
      /\ p <= Len(s)
  BY SeenIs
<1>2. /\ start \in p .. Len(s)
      /\ \A q \in p .. start-1 : At(s, q) = "ws"
  BY <1>1, SkipWsBetween
<1>3. SkipWs(s, p, Seen(s)) = IF start < Seen(s) THEN start ELSE Seen(s)
  BY <1>1, SkipPrefix
<1> QED BY <1>1, <1>2, <1>3

LEMMA FoundBlank ==
  ASSUME NEW s \in Seq(Bytes), NEW p \in 0..Seen(s), NEW start, start = SkipWs(s, p, Len(s)),
         ~(start < Seen(s)), NEW found, found = Found(s, p)
  PROVE  found.is = "end"
<1> DEFINE m == Seen(s)
           t == Sliced!TermOf(s)
           from == SkipWs(s, p, m)
<1>1. m \in Nat /\ p \in 0 .. m /\ from = m
  BY Looking
<1>2. found = ParseSegment(s, m, t, p)
  BY DEF Found
<1> HIDE DEF m, t
<1>3. ReturnsFor(found, s, t, from, m)
  BY <1>1, <1>2, Returns
<1> QED BY <1>1, <1>3 DEF ReturnsFor

LEMMA FoundWhole ==
  ASSUME NEW s \in Seq(Bytes), NEW p \in 0..Seen(s), NEW start, start = SkipWs(s, p, Len(s)),
         NEW t, t = Sliced!TermOf(s), t # "ws",
         NEW z, z < Seen(s), FirstTerm(s, t, start, z), z - start <= MaxSegmentBytes,
         NEW found, found = Found(s, p)
  PROVE  /\ found.is = "segment" =>
              WellFormed(s, t, start, z) /\ found.from = start /\ found.to = z + 1
         /\ WellFormed(s, t, start, z) => found.is = "segment"
         /\ found.is # "segment" =>
              /\ found.is = "error" /\ Sliced!OverBudget(s, found.error, p) = found.error
              /\ found.error # NoError /\ found.error.kind \notin LimitKinds
<1> DEFINE m == Seen(s)
<1>1. /\ m \in Nat /\ p \in 0 .. m /\ p \in Nat /\ p <= m /\ p <= start /\ start \in Nat /\ z \in Nat
      /\ start <= z /\ start < m /\ SkipWs(s, p, m) = start
      /\ \A q \in p .. start-1 : At(s, q) = "ws"
  <2>1. z \in Nat /\ start <= z
    BY DEF FirstTerm
  <2> QED BY <2>1, Looking
<1>2. found = ParseSegment(s, m, t, p)
  BY DEF Found
<1>3. Sliced!Truncated(s) => m = MaxInputBytes
  BY SeenIs
<1>m. z < m
  OBVIOUS
<1> HIDE DEF m
<1>4. /\ found.is = "segment" =>
           WellFormed(s, t, start, z) /\ found.from = start /\ found.to = z + 1
      /\ WellFormed(s, t, start, z) => found.is = "segment"
      /\ found.is # "segment" =>
           found.is = "error" /\ found.error.kind \in
             ParseErrors \ {"SegmentTooLong", "UnexpectedEof", "InvalidReleaseSequence"}
  BY <1>1, <1>2, <1>m, WellFormedIs
<1>5. found.is # "segment" => found.error # NoError /\ found.error.kind \notin LimitKinds
  <2>1. NoError.kind = "none"
    BY DEF NoError, Error
  <2> QED BY <1>4, <2>1 DEF ParseErrors, LimitKinds
<1>6. Sliced!OverBudget(s, found.error, p) = found.error
  <2>1. CASE ~Sliced!Truncated(s)
    BY <2>1, OverBudgetUncut
  <2>2. CASE Sliced!Truncated(s)
    <3>1. MaxInputBytes = m
      BY <1>3, <2>2
    <3>2. z \in UnescapedTerms(s, start, m, t)
      BY <1>1, <1>m, FirstTermIs
    <3>3. UnescapedTerms(s, p, m, t) = UnescapedTerms(s, start, m, t)
      <4> HIDE DEF At
      <4> QED BY <1>1, TermsAfterBlanks
    <3>4. UnescapedTerms(s, p, MaxInputBytes, Sliced!TermOf(s)) # {}
      BY <3>1, <3>2, <3>3
    <3>5. \A terms : terms = UnescapedTerms(s, p, MaxInputBytes, Sliced!TermOf(s)) /\ terms # {} =>
            Sliced!OverBudget(s, found.error, p) = found.error
      BY <1>1, <2>2, <3>1, OverBudgetIs
    <3> QED BY <3>4, <3>5
  <2> QED BY <2>1, <2>2
<1> QED BY <1>4, <1>5, <1>6

(* A segment overlong within what the iterator sees.                       *)
LEMMA FoundOverlong ==
  ASSUME NEW s \in Seq(Bytes), NEW p \in 0..Seen(s), NEW start, start = SkipWs(s, p, Len(s)),
         NEW t, t = Sliced!TermOf(s), t # "ws",
         start + MaxSegmentBytes + 1 <= Seen(s),
         UnescapedTerms(s, start, start + MaxSegmentBytes + 1, t) = {},
         NEW found, found = Found(s, p),
         NEW whole, whole = ParseSegment(s, Len(s), t, p),
         NEW e, e = Sliced!OverBudget(s, found.error, p)
  PROVE  /\ found.is = "error" /\ e # NoError
         /\ whole.error.kind = "SegmentTooLong" => e = Error("SegmentTooLong", start)
<1> DEFINE m == Seen(s)
           len == Len(s)
           w == start + MaxSegmentBytes + 1
<1>1. /\ m \in Nat /\ len \in Nat /\ p \in 0 .. m /\ p \in 0..len /\ p \in Nat /\ p <= m /\ p <= start
      /\ start \in Nat /\ m <= len /\ start < m /\ start < len /\ SkipWs(s, p, m) = start
      /\ start = SkipWs(s, p, len)
      /\ \A q \in p .. start-1 : At(s, q) = "ws"
      /\ w \in Nat /\ w <= m /\ w <= len
  BY Looking, SyntaxAssumption
<1>2. found = ParseSegment(s, m, t, p) /\ whole = ParseSegment(s, len, t, p)
  BY DEF Found
<1>3. Sliced!Truncated(s) => m = MaxInputBytes /\ m < len
  BY SeenIs
<1>4. ~Sliced!Truncated(s) => m = len
  BY SeenIs
<1>5. UnescapedTerms(s, start, w, t) = {}
  OBVIOUS
<1>w. w = start + MaxSegmentBytes + 1
  OBVIOUS
<1> HIDE DEF m, len, w
<1>6. Window(start, m) = w /\ Window(start, len) = w
  BY <1>1, <1>w DEF Window, Lesser
<1>7. ReturnsFor(whole, s, t, start, len)
  <2>1. ReturnsFor(ParseSegment(s, len, t, p), s, t, SkipWs(s, p, len), len)
    BY <1>1, Returns
  <2> QED BY <1>1, <1>2, <2>1
<1>8. whole.is = "error"
  <2>1. whole.is # "segment"
    <3> SUFFICES ASSUME whole.is = "segment" PROVE FALSE
      OBVIOUS
    <3>1. whole.to \in start+1 .. w
      BY <1>6, <1>7 DEF ReturnsFor
    <3>2. whole.to <= w
      BY <1>1, <3>1
    <3>3. whole.to - 1 \in UnescapedTerms(s, start, w, t)
      BY <1>1, <1>2, <3>2, SegmentTerm
    <3> QED BY <1>5, <3>3
  <2>2. start # len
    BY <1>1
  <2> QED BY <1>7, <2>1, <2>2 DEF ReturnsFor
<1>9. /\ whole.error.kind \in ParseErrors
      /\ whole.error.kind = "SegmentTooLong" => whole.error = Error("SegmentTooLong", start)
      /\ w # len => whole.error.kind # "InvalidReleaseSequence"
  BY <1>6, <1>7, <1>8 DEF ReturnsFor
<1>10. whole.error # NoError /\ Error("SegmentTooLong", start) # NoError
  <2>1. NoError.kind = "none" /\ Error("SegmentTooLong", start).kind = "SegmentTooLong"
    BY DEF NoError, Error
  <2> QED BY <1>9, <2>1 DEF ParseErrors
<1>11. CASE ~Sliced!Truncated(s)
  <2>1. found = whole
    BY <1>2, <1>4, <1>11
  <2>2. e = whole.error
    BY <1>11, <2>1, OverBudgetUncut
  <2> QED BY <1>8, <1>9, <1>10, <2>1, <2>2
<1>12. CASE Sliced!Truncated(s)
  <2>1. m = MaxInputBytes /\ m < len
    BY <1>3, <1>12
  <2>2. \/ found = whole
        \/ /\ found = Failure("InvalidReleaseSequence", m - 1)
           /\ whole = Failure("SegmentTooLong", start)
           /\ Window(start, m) = m
    BY <1>1, <1>2, <1>w, <2>1, ProofInside
  <2> DEFINE terms == UnescapedTerms(s, p, MaxInputBytes, Sliced!TermOf(s))
  <2>3. /\ start = SkipWs(s, p, MaxInputBytes) /\ MaxInputBytes \in Nat /\ p <= MaxInputBytes
        /\ ~(start + MaxSegmentBytes + 1 > MaxInputBytes)
    <3>1. start = SkipWs(s, p, MaxInputBytes) /\ MaxInputBytes \in Nat /\ p <= MaxInputBytes
      BY <1>1, <2>1
    <3>2. ~(start + MaxSegmentBytes + 1 > MaxInputBytes)
      <4>1. w \in Nat /\ w <= MaxInputBytes
        BY <1>1, <2>1
      <4> QED BY <1>w, <2>1, <4>1, <3>1
    <3> QED BY <3>1, <3>2
  <2> HIDE DEF terms
  <2>4. CASE found = whole
    <3> DEFINE x == found.error
    <3>1. x # Error("InvalidReleaseSequence", MaxInputBytes - 1)
      <4>1. w # len
        BY <1>1, <2>1
      <4> QED BY <1>9, <2>4, <4>1 DEF Error
    <3> HIDE DEF x
    <3>2. Sliced!OverBudget(s, x, p) = x
      BY <1>1, <1>12, <2>3, <3>1, OverBudgetIs DEF terms
    <3>3. e = whole.error
      BY <2>4, <3>2 DEF x
    <3> QED BY <1>8, <1>9, <1>10, <2>4, <3>3
  <2>5. CASE /\ found = Failure("InvalidReleaseSequence", m - 1)
             /\ whole = Failure("SegmentTooLong", start)
             /\ Window(start, m) = m
    <3> DEFINE x == found.error
    <3>1. found.is = "error" /\ x = Error("InvalidReleaseSequence", MaxInputBytes - 1)
          /\ x.kind # "SegmentTooLong"
      BY <2>1, <2>5 DEF Failure, Error
    <3>2. terms = {}
      <4>1. w = m
        BY <1>6, <2>5
      <4>2. UnescapedTerms(s, p, m, t) = UnescapedTerms(s, start, m, t)
        <5> HIDE DEF At
        <5> QED BY <1>1, TermsAfterBlanks
      <4> QED BY <1>5, <2>1, <4>1, <4>2 DEF terms
    <3> HIDE DEF x
    <3>3. Sliced!OverBudget(s, x, p) = Error("SegmentTooLong", start)
      BY <1>1, <1>12, <2>3, <3>1, <3>2, OverBudgetIs DEF terms
    <3>4. e = Error("SegmentTooLong", start)
      BY <3>3 DEF x
    <3> QED BY <1>10, <3>1, <3>4
  <2> QED BY <2>2, <2>4, <2>5
<1> QED BY <1>11, <1>12

(* A segment without a terminator in what the iterator sees, and too short *)
(* there to be called overlong.                                            *)
LEMMA FoundUnterminated ==
  ASSUME NEW s \in Seq(Bytes), NEW p \in 0..Seen(s), NEW start, start = SkipWs(s, p, Len(s)),
         NEW t, t = Sliced!TermOf(s), t # "ws",
         start < Seen(s), start + MaxSegmentBytes + 1 > Seen(s),
         UnescapedTerms(s, start, Seen(s), t) = {},
         NEW found, found = Found(s, p),
         NEW e, e = Sliced!OverBudget(s, found.error, p)
  PROVE  /\ found.is = "error"
         /\ Sliced!Truncated(s) => e = BytesExceeded
         /\ ~Sliced!Truncated(s) => e # NoError /\ e.kind \notin LimitKinds
<1> DEFINE m == Seen(s)
           w == start + MaxSegmentBytes + 1
<1>1. /\ m \in Nat /\ p \in 0 .. m /\ p \in Nat /\ p <= m /\ p <= start
      /\ start \in Nat /\ start < m /\ SkipWs(s, p, m) = start
      /\ \A q \in p .. start-1 : At(s, q) = "ws"
      /\ w \in Nat /\ w > m
  BY Looking, SyntaxAssumption
<1>2. found = ParseSegment(s, m, t, p)
  BY DEF Found
<1>3. Sliced!Truncated(s) => m = MaxInputBytes
  BY SeenIs
<1>5. UnescapedTerms(s, start, m, t) = {}
  OBVIOUS
<1>w. w = start + MaxSegmentBytes + 1
  OBVIOUS
<1> HIDE DEF m, w
<1>6. Window(start, m) = m
  BY <1>1, <1>w DEF Window, Lesser
<1>7. ReturnsFor(found, s, t, start, m)
  <2>1. ReturnsFor(ParseSegment(s, m, t, p), s, t, SkipWs(s, p, m), m)
    BY <1>1, Returns
  <2> QED BY <1>1, <1>2, <2>1
<1>8. found.is = "error"
  <2>1. found.is # "segment"
    <3> SUFFICES ASSUME found.is = "segment" PROVE FALSE
      OBVIOUS
    <3>1. found.to \in start+1 .. m
      BY <1>6, <1>7 DEF ReturnsFor
    <3>2. found.to <= m
      BY <1>1, <3>1
    <3>3. found.to - 1 \in UnescapedTerms(s, start, m, t)
      BY <1>1, <1>2, <3>2, SegmentTerm
    <3> QED BY <1>5, <3>3
  <2>2. start # m
    BY <1>1
  <2> QED BY <1>7, <2>1, <2>2 DEF ReturnsFor
<1>9. found.error.kind \in ParseErrors /\ found.error.kind # "SegmentTooLong"
  <2>1. w # m
    BY <1>1
  <2> QED BY <1>6, <1>7, <1>8, <1>w, <2>1 DEF ReturnsFor
<1>10. CASE ~Sliced!Truncated(s)
  <2>1. e = found.error
    BY <1>10, OverBudgetUncut
  <2>2. e # NoError
    <3>1. NoError.kind = "none"
      BY DEF NoError, Error
    <3> QED BY <1>9, <2>1, <3>1 DEF ParseErrors
  <2> QED BY <1>8, <1>9, <1>10, <2>1, <2>2 DEF ParseErrors, LimitKinds
<1>11. CASE Sliced!Truncated(s)
  <2>1. m = MaxInputBytes
    BY <1>3, <1>11
  <2> DEFINE terms == UnescapedTerms(s, p, MaxInputBytes, Sliced!TermOf(s))
             x == found.error
  <2>2. /\ start = SkipWs(s, p, MaxInputBytes) /\ MaxInputBytes \in Nat /\ p <= MaxInputBytes
    BY <1>1, <2>1
  <2>3. start + MaxSegmentBytes + 1 > MaxInputBytes
    BY <1>1, <1>w, <2>1
  <2>4. terms = {}
    <3>1. UnescapedTerms(s, p, m, t) = UnescapedTerms(s, start, m, t)
      <4> HIDE DEF At
      <4> QED BY <1>1, TermsAfterBlanks
    <3> QED BY <1>5, <2>1, <3>1 DEF terms
  <2>5. x.kind # "SegmentTooLong"
    BY <1>9
  <2> HIDE DEF x, terms
  <2>6. Sliced!OverBudget(s, x, p) = BytesExceeded
    BY <1>1, <1>11, <2>2, <2>3, <2>4, <2>5, OverBudgetIs DEF terms
  <2> QED BY <1>8, <1>11, <2>6 DEF x
<1> QED BY <1>10, <1>11

-----------------------------------------------------------------------------
(* The iterator as it is opened.                                           *)
LEMMA PrologueEndIs ==
  ASSUME NEW s \in Seq(Bytes)
  PROVE  /\ Sliced!PrologueEnd(s) = PrologueLen(s) + (IF HasUna(s, PrologueLen(s)) THEN UnaLen ELSE 0)
         /\ Sliced!UnaOf(s) = Slice(s, PrologueLen(s), Sliced!PrologueEnd(s))
         /\ Sliced!BadUna(s) <=> HasUna(s, PrologueLen(s)) /\ ~ValidAdvice(Sliced!UnaOf(s))
         /\ Sliced!TermOf(s) = IF Advice # None THEN Advice
              ELSE IF HasUna(s, PrologueLen(s)) THEN At(Sliced!UnaOf(s), UnaLen - 1) ELSE "term"
<1>1. Sliced!PrologueLen(s) = PrologueLen(s)
  BY SlicedSkips
<1>2. Sliced!HasUna(s, PrologueLen(s)) = HasUna(s, PrologueLen(s))
  BY SlicedSkips
<1>3. Sliced!PrologueEnd(s) = PrologueLen(s) + (IF HasUna(s, PrologueLen(s)) THEN UnaLen ELSE 0)
  BY <1>1, <1>2 DEF Sliced!PrologueEnd
<1>4. Sliced!UnaOf(s) = Slice(s, PrologueLen(s), Sliced!PrologueEnd(s))
  BY <1>1, SlicedSkips DEF Sliced!UnaOf
<1>5. Sliced!ValidAdvice(Sliced!UnaOf(s)) = ValidAdvice(Sliced!UnaOf(s))
  BY DEF Sliced!ValidAdvice, ValidAdvice, Sliced!At, At
<1>6. Sliced!BadUna(s) <=> HasUna(s, PrologueLen(s)) /\ ~ValidAdvice(Sliced!UnaOf(s))
  BY <1>1, <1>2, <1>5 DEF Sliced!BadUna
<1>7. Sliced!TermOf(s) = IF Advice # None THEN Advice
              ELSE IF HasUna(s, PrologueLen(s)) THEN At(Sliced!UnaOf(s), UnaLen - 1) ELSE "term"
  <2>1. Sliced!At(Sliced!UnaOf(s), UnaLen - 1) = At(Sliced!UnaOf(s), UnaLen - 1)
    BY SlicedSkips
  <2> QED BY <1>1, <1>2, <2>1 DEF Sliced!TermOf
<1> QED BY <1>3, <1>4, <1>6, <1>7

LEMMA PrologueWithin ==
  ASSUME NEW s \in Seq(Bytes)
  PROVE  /\ PrologueLen(s) \in Nat /\ PrologueLen(s) <= Len(s) /\ Len(s) \in Nat
         /\ Sliced!PrologueEnd(s) \in Nat /\ Sliced!PrologueEnd(s) <= Len(s)
         /\ PrologueLen(s) <= Sliced!PrologueEnd(s)
<1>1. PrologueLen(s) \in Nat /\ PrologueLen(s) <= Len(s) /\ Len(s) \in Nat
  <2> DEFINE from == IF StartsWithBom(s, 0, Len(s)) THEN BomLen ELSE 0
  <2>1. from \in Nat /\ from <= Len(s) /\ Len(s) \in Nat
    BY SyntaxAssumption DEF StartsWithBom
  <2>2. PrologueLen(s) = SkipWs(s, from, Len(s))
    BY DEF PrologueLen
  <2> HIDE DEF from
  <2>3. SkipWs(s, from, Len(s)) \in from .. Len(s)
    BY <2>1, SkipWsBetween
  <2> QED BY <2>1, <2>2, <2>3
<1>2. HasUna(s, PrologueLen(s)) => PrologueLen(s) + UnaLen <= Len(s)
  BY <1>1, SyntaxAssumption DEF HasUna
<1> DEFINE n == IF HasUna(s, PrologueLen(s)) THEN UnaLen ELSE 0
<1>3. n \in Nat /\ PrologueLen(s) + n <= Len(s)
  BY <1>1, <1>2, SyntaxAssumption
<1>4. Sliced!PrologueEnd(s) = PrologueLen(s) + n
  BY PrologueEndIs
<1> HIDE DEF n
<1> QED BY <1>1, <1>3, <1>4

(* An opened iterator is exhausted at once, or stands behind the prologue. *)
LEMMA OpenedIs ==
  ASSUME NEW s \in Seq(Bytes)
  PROVE  /\ Sliced!Truncated(s) /\ Sliced!PrologueEnd(s) > MaxInputBytes =>
              Ends(s, <<>>, Sliced!PrologueError(s))
         /\ ~(Sliced!Truncated(s) /\ Sliced!PrologueEnd(s) > MaxInputBytes) /\ Sliced!BadUna(s) =>
              Ends(s, <<>>, Error("InvalidUna", NoOffset))
         /\ ~(Sliced!Truncated(s) /\ Sliced!PrologueEnd(s) > MaxInputBytes) /\ ~Sliced!BadUna(s) =>
              \A p, b, g : p = Sliced!PrologueEnd(s) /\ b = NewBudget /\ g = <<>> => Stands(s, 0, p, b, g)
<1> DEFINE opened == Sliced!Iterator(Sliced!PrologueEnd(s), NewBudget, <<>>, NoError, FALSE)
           first == Sliced!AfterCall(s)[0]
<1>1. Len(s) \in Nat /\ 0 \in 0..Len(s)+1 /\ first = Sliced!Opened(s)
  <2>1. Len(s) \in Nat
    BY SeenIs
  <2> QED BY <2>1, CallStep
<1>2. opened.segs = <<>> /\ \A e : /\ Sliced!EndedWith(opened, e).done
                                   /\ Sliced!EndedWith(opened, e).segs = <<>>
                                   /\ Sliced!EndedWith(opened, e).error = e
  BY DEF Sliced!EndedWith, Sliced!Iterator
<1>3. opened = Sliced!Iterator(Sliced!PrologueEnd(s), Sliced!NewBudget, <<>>, Sliced!NoError, FALSE)
  BY BudgetsAre, SlicedAre
<1>4. first = IF Sliced!Truncated(s) /\ Sliced!PrologueEnd(s) > MaxInputBytes
              THEN Sliced!EndedWith(opened, Sliced!PrologueError(s))
              ELSE IF Sliced!BadUna(s) THEN Sliced!EndedWith(opened, Error("InvalidUna", NoOffset))
              ELSE opened
  <2> HIDE DEF opened
  <2> QED BY <1>1, <1>3, SlicedAre DEF Sliced!Opened
<1>5. first.done => Sliced!Yields(s).segs = first.segs /\ Sliced!Yields(s).error = first.error
  BY <1>1, DoneStays
<1>6. Sliced!PrologueEnd(s) \in Nat /\ Sliced!PrologueEnd(s) <= Len(s)
  BY PrologueWithin
<1>7. ~(Sliced!Truncated(s) /\ Sliced!PrologueEnd(s) > MaxInputBytes) =>
        Sliced!PrologueEnd(s) \in 0..Seen(s) /\ 0 \in 0..Sliced!PrologueEnd(s)
  BY <1>6, SeenIs
<1> HIDE DEF opened, first
<1>8. ASSUME ~(Sliced!Truncated(s) /\ Sliced!PrologueEnd(s) > MaxInputBytes), ~Sliced!BadUna(s),
             NEW p, NEW b, NEW g, p = Sliced!PrologueEnd(s), b = NewBudget, g = <<>>
      PROVE  Stands(s, 0, p, b, g)
  BY <1>4, <1>7, <1>8 DEF Stands, first, opened
<1>9. Sliced!Truncated(s) /\ Sliced!PrologueEnd(s) > MaxInputBytes => Ends(s, <<>>, Sliced!PrologueError(s))
  BY <1>2, <1>4, <1>5 DEF Ends
<1>10. ~(Sliced!Truncated(s) /\ Sliced!PrologueEnd(s) > MaxInputBytes) /\ Sliced!BadUna(s) =>
              Ends(s, <<>>, Error("InvalidUna", NoOffset))
  BY <1>2, <1>4, <1>5 DEF Ends
<1> QED BY <1>8, <1>9, <1>10

(* A prologue that crosses the budget, when a UNA's letters fit a segment. *)
LEMMA PrologueErrorIs ==
  ASSUME NEW s \in Seq(Bytes), Sliced!Truncated(s), MaxSegmentBytes >= 2
  PROVE  Sliced!PrologueError(s) = BytesExceeded
<1> DEFINE start == Sliced!PrologueLen(s)
<1>1. start \in Nat
  BY SlicedSkips, PrologueWithin
<1>2. MaxInputBytes \in Nat /\ MaxSegmentBytes \in Nat
  BY SeenIs, SyntaxAssumption
<1>3. Sliced!BytesBudgetExceeded = BytesExceeded
  BY SeenIs
<1>4. Sliced!PrologueError(s) =
        IF /\ Sliced!HasUna(s, start) /\ start + 3 > MaxInputBytes
           /\ MaxInputBytes - start > MaxSegmentBytes
        THEN Sliced!Error("SegmentTooLong", start) ELSE Sliced!BytesBudgetExceeded
  BY DEF Sliced!PrologueError
<1> HIDE DEF start
<1> QED BY <1>1, <1>2, <1>3, <1>4

-----------------------------------------------------------------------------
(* The units of the input: a unit begins at p, its first byte that is not  *)
(* whitespace is at start, and it ends at z.                               *)
UnitAt(p, start, z) ==
  /\ p \in Nat /\ start \in Nat /\ z \in Nat /\ InputEnd \in Nat
  /\ p <= start /\ start <= z /\ z <= InputEnd /\ p < InputEnd
  /\ Lead(p) = start
  /\ z < InputEnd => FirstTerm(input, InputTerm, start, z)
                     /\ z + 1 \in UnitStarts \cup {InputEnd}

LEMMA UnitIs ==
  ASSUME input \in Seq(Bytes), InputTerm \notin {"ws", "rel"}, NEW p \in UnitStarts,
         NEW start, start = SkipWs(input, p, InputEnd), NEW z, z = UnitEnd(p)
  PROVE  /\ UnitAt(p, start, z)
         /\ \A w \in Nat : w <= z => UnescapedTerms(input, start, w, InputTerm) = {}
<1> DEFINE t == InputTerm
           len == InputEnd
           b == BodyBegin
           S == {q \in Terminators : q >= p}
<1>1. len \in Nat /\ b \in Nat /\ b <= len /\ Terminators \subseteq b .. len-1
  <2>1. len \in Nat /\ b \in Nat /\ b <= len
    BY PrologueWithin DEF BodyBegin, InputEnd
  <2>2. Terminators \subseteq b .. len-1
    BY DEF Terminators, UnescapedTerms
  <2> QED BY <2>1, <2>2
<1>2. /\ p \in Nat /\ b <= p /\ p < len
      /\ p = b \/ At(input, p-1) # "rel"
  <2>1. p # len /\ (p = b \/ \E q \in Terminators : p = q + 1)
    BY DEF UnitStarts
  <2>2. CASE p = b
    BY <1>1, <2>1, <2>2
  <2>3. CASE \E q \in Terminators : p = q + 1
    <3>1. PICK q \in Terminators : p = q + 1
      BY <2>3
    <3>2. q \in b .. len-1 /\ q \in Nat /\ p - 1 = q
      BY <1>1, <3>1
    <3>3. At(input, q) = t
      BY DEF Terminators, UnescapedTerms
    <3>4. At(input, p-1) # "rel"
      <4> HIDE DEF At
      <4> QED BY <3>2, <3>3
    <3> HIDE DEF b, len
    <3> QED BY <1>1, <2>1, <3>1, <3>2, <3>4
  <2> QED BY <2>1, <2>2, <2>3
<1>s. start \in p .. len /\ start \in Nat /\ \A q \in p .. start-1 : At(input, q) = "ws"
  <2>1. p <= len
    BY <1>1, <1>2
  <2>2. start \in p .. len /\ \A q \in p .. start-1 : At(input, q) = "ws"
    <3> HIDE DEF At
    <3> QED BY <1>1, <1>2, <2>1, SkipWsBetween
  <2> QED BY <1>1, <1>2, <2>2
<1>3. S = UnescapedTerms(input, p, len, t)
  <2>1. ASSUME NEW q \in p .. len-1
        PROVE  q \in Terminators <=> q \in UnescapedTerms(input, p, len, t)
    <3>1. q \in Int /\ p \in Int /\ b \in Int /\ b <= p /\ p <= q /\ q \in b .. len-1
      BY <1>1, <1>2, <2>1
    <3>2. Escaped(input, b, q) <=> Escaped(input, p, q)
      <4> HIDE DEF b
      <4> QED BY <1>2, <3>1, EscapedFrom
    <3>3. q \in Terminators <=> At(input, q) = t /\ ~Escaped(input, b, q)
      <4> HIDE DEF At
      <4> QED BY <3>1 DEF Terminators, UnescapedTerms
    <3>4. q \in UnescapedTerms(input, p, len, t) <=> At(input, q) = t /\ ~Escaped(input, p, q)
      <4> HIDE DEF At
      <4> QED BY <2>1 DEF UnescapedTerms
    <3> QED BY <3>2, <3>3, <3>4
  <2>2. ASSUME NEW q \in S PROVE q \in p .. len-1
    BY <1>1, <1>2
  <2>3. ASSUME NEW q \in UnescapedTerms(input, p, len, t) PROVE q \in p .. len-1 /\ q >= p
    <3>1. q \in p .. len-1
      BY DEF UnescapedTerms
    <3> QED BY <1>1, <1>2, <3>1
  <2> QED BY <2>1, <2>2, <2>3
<1>4. UnescapedTerms(input, p, len, t) = UnescapedTerms(input, start, len, t)
  <2>1. t # "ws" /\ p <= start
    BY <1>1, <1>2, <1>s
  <2> HIDE DEF At, t
  <2> QED BY <1>1, <1>2, <1>s, <2>1, TermsAfterBlanks
<1> DEFINE U == UnescapedTerms(input, start, len, t)
<1>5. /\ z \in p .. len /\ z \in Nat
      /\ z < len => z \in U
      /\ \A q \in U : z <= q
  <2>1. S \subseteq p .. len-1 /\ S \subseteq Nat
    <3>1. ASSUME NEW q \in S PROVE q \in p .. len-1 /\ q \in Nat
      <4>1. q \in Terminators /\ q >= p
        OBVIOUS
      <4>2. q \in b .. len-1
        BY <1>1, <4>1
      <4> HIDE DEF b, len
      <4> QED BY <1>1, <1>2, <4>1, <4>2
    <3> QED BY <3>1
  <2>2. z = LeastOr(S, len)
    BY DEF UnitEnd
  <2>3. U = S
    BY <1>3, <1>4
  <2> HIDE DEF S, U
  <2>4. z \in p .. len /\ (z < len => z \in S)
    <3>1. p <= len
      BY <1>1, <1>2
    <3> QED BY <1>1, <1>2, <2>1, <2>2, <3>1, LeastBetween
  <2>5. ASSUME NEW q \in S PROVE z <= q
    <3>1. S # {}
      OBVIOUS
    <3> HIDE DEF len
    <3>2. \A r \in S : LeastOr(S, len) <= r
      BY <2>1, <3>1, LeastIn
    <3> QED BY <2>2, <3>2
  <2> QED BY <1>1, <1>2, <2>3, <2>4, <2>5
<1>6. start <= z
  <2>1. CASE z < len
    <3>1. At(input, z) = t
      BY <1>5, <2>1 DEF UnescapedTerms
    <3>2. z \notin p .. start-1
      BY <1>s, <3>1
    <3> QED BY <1>1, <1>2, <1>s, <1>5, <3>2
  <2>2. CASE ~(z < len)
    BY <1>1, <1>2, <1>s, <1>5, <2>2
  <2> QED BY <2>1, <2>2
<1>7. ASSUME NEW w \in Nat, w <= z PROVE UnescapedTerms(input, start, w, t) = {}
  <2> SUFFICES ASSUME NEW q \in UnescapedTerms(input, start, w, t) PROVE FALSE
    OBVIOUS
  <2>1. q \in start .. w-1 /\ At(input, q) = t /\ ~Escaped(input, start, q)
    BY DEF UnescapedTerms
  <2>2. q \in start .. len-1 /\ q \in Nat /\ q < z
    BY <1>1, <1>s, <1>5, <1>7, <2>1
  <2>3. q \in U
    BY <2>1, <2>2 DEF UnescapedTerms
  <2> QED BY <1>5, <2>2, <2>3
<1>8. z < len => FirstTerm(input, t, start, z)
  <2> SUFFICES ASSUME z < len PROVE FirstTerm(input, t, start, z)
    OBVIOUS
  <2>1. z \in U
    BY <1>5
  <2>2. At(input, z) = t /\ ~Escaped(input, start, z)
    BY <2>1 DEF UnescapedTerms
  <2>3. z \in UnescapedTerms(input, start, z+1, t)
    <3>1. z \in start .. (z+1)-1
      BY <1>s, <1>5, <1>6
    <3> HIDE DEF At
    <3> QED BY <2>2, <3>1 DEF UnescapedTerms
  <2>4. ASSUME NEW q \in UnescapedTerms(input, start, z+1, t) PROVE q = z
    <3>1. q \in start .. (z+1)-1 /\ At(input, q) = t /\ ~Escaped(input, start, q)
      BY DEF UnescapedTerms
    <3>2. q \in start .. len-1 /\ q \in Nat /\ q <= z
      BY <1>1, <1>s, <1>5, <3>1
    <3>3. q \in U
      <4> HIDE DEF At
      <4> QED BY <3>1, <3>2 DEF UnescapedTerms
    <3> QED BY <1>5, <3>2, <3>3
  <2>5. UnescapedTerms(input, start, z+1, t) = {z}
    BY <2>3, <2>4
  <2> QED BY <1>5, <1>6, <2>5 DEF FirstTerm
<1>9. z < len => z + 1 \in UnitStarts \cup {len}
  <2> SUFFICES ASSUME z < len PROVE z + 1 \in UnitStarts \cup {len}
    OBVIOUS
  <2>1. z \in Terminators
    BY <1>3, <1>4, <1>5
  <2> QED BY <2>1 DEF UnitStarts
<1>10. Lead(p) = start
  <2>1. Lead(p) = SkipWs(input, p, z)
    BY DEF Lead
  <2>2. p <= z /\ z <= len /\ start = SkipWs(input, p, len)
    BY <1>1, <1>2, <1>5
  <2>3. SkipWs(input, p, z) = IF start < z THEN start ELSE z
    <3> HIDE DEF len
    <3> QED BY <1>1, <1>2, <1>5, <2>2, SkipPrefix
  <2> QED BY <1>s, <1>5, <1>6, <2>1, <2>3
<1>11. p <= start /\ z <= len
  BY <1>1, <1>2, <1>s, <1>5
<1> HIDE DEF U, S, b
<1> QED BY <1>1, <1>2, <1>s, <1>5, <1>6, <1>7, <1>8, <1>9, <1>10, <1>11 DEF UnitAt

(* What a regular input promises of a unit.                                *)
LEMMA RegularUnit ==
  ASSUME input \in Seq(Bytes), InputTerm \notin {"ws", "rel"}, NEW p \in UnitStarts,
         NEW start, start = SkipWs(input, p, InputEnd), NEW z, z = UnitEnd(p), Regular
  PROVE  /\ z < InputEnd => start < z
         /\ z - p > MaxSegmentBytes => start = p
         /\ OneFault /\ z - start > MaxSegmentBytes =>
              ParseSegment(input, InputEnd, InputTerm, p).error.kind = "SegmentTooLong"
<1>1. UnitAt(p, start, z)
  BY UnitIs
<1>2. ~EmptyUnit(p) /\ ~PaddedOverLimit(p)
  BY DEF Regular
<1>3. z < InputEnd => start < z
  BY <1>1, <1>2 DEF UnitAt, EmptyUnit
<1>4. z - p > MaxSegmentBytes => start = p
  BY <1>1, <1>2 DEF UnitAt, PaddedOverLimit
<1>5. OneFault => ~OversizedAndMalformed(p)
  BY DEF OneFault
<1>6. OneFault /\ z - start > MaxSegmentBytes =>
              ParseSegment(input, InputEnd, InputTerm, p).error.kind = "SegmentTooLong"
  BY <1>1, <1>5 DEF UnitAt, OversizedAndMalformed
<1> QED BY <1>3, <1>4, <1>6

LEMMA WellFormedShift ==
  ASSUME NEW s, NEW u, NEW t, NEW base \in Nat, NEW n \in Nat, PieceOf(u, n, s, base),
         NEW a \in Nat, NEW y \in Nat, y < n,
         NEW start \in Nat, start = base + a, NEW z \in Nat, z = base + y
  PROVE  WellFormed(u, t, a, y) <=> WellFormed(s, t, start, z)
<1> DEFINE f == a + TagLen
           g == start + TagLen
<1>1. TagLen \in Nat /\ f \in Nat /\ g \in Nat /\ g = base + f /\ a <= f /\ start <= g
  BY SyntaxAssumption
<1> DEFINE Near == \A p \in a .. f-1 : At(u, p) \in TagLetters /\ At(u, p) # t
           Far  == \A q \in start .. g-1 : At(s, q) \in TagLetters /\ At(s, q) # t
           NearText == \A p \in f .. y-1 : At(u, p) # "bad"
           FarText  == \A q \in g .. z-1 : At(s, q) # "bad"
<1>w. WellFormed(u, t, a, y) <=> f <= y /\ Near /\ At(u, f) \in {"sep", t} /\ NearText
  BY <1>1, SyntaxAssumption DEF WellFormed
<1>x. WellFormed(s, t, start, z) <=> g <= z /\ Far /\ At(s, g) \in {"sep", t} /\ FarText
  BY <1>1, SyntaxAssumption DEF WellFormed
<1>f. f = a + TagLen /\ g = start + TagLen
  OBVIOUS
<1>2. ASSUME NEW p \in Nat, p < n, NEW q \in Nat, q = base + p
      PROVE  At(u, p) = At(s, q)
  BY <1>2 DEF PieceOf
<1> HIDE DEF f, g, At
<1>3. f <= y <=> g <= z
  BY <1>1
<1>4. ASSUME f <= y
      PROVE  /\ At(u, f) = At(s, g)
             /\ (\A p \in a .. f-1 : At(u, p) \in TagLetters /\ At(u, p) # t)
                  <=> (\A q \in start .. g-1 : At(s, q) \in TagLetters /\ At(s, q) # t)
             /\ (\A p \in f .. y-1 : At(u, p) # "bad") <=> (\A q \in g .. z-1 : At(s, q) # "bad")
  <2>1. At(u, f) = At(s, g)
    BY <1>1, <1>2, <1>4
  <2>2. ASSUME NEW p \in a .. y-1
        PROVE  \E q \in start .. z-1 : /\ At(u, p) = At(s, q)
                                       /\ p < f => q \in start .. g-1
                                       /\ f <= p => q \in g .. z-1
    <3>1. p \in Nat /\ p < n /\ base + p \in Nat /\ base + p \in start .. z-1
          /\ (p < f => base + p \in start .. g-1) /\ (f <= p => base + p \in g .. z-1)
      BY <1>1, <1>4
    <3>2. At(u, p) = At(s, base + p)
      BY <1>2, <3>1
    <3> QED BY <3>1, <3>2
  <2>3. ASSUME NEW q \in start .. z-1
        PROVE  \E p \in a .. y-1 : /\ At(u, p) = At(s, q)
                                   /\ q < g => p \in a .. f-1
                                   /\ g <= q => p \in f .. y-1
    <3> DEFINE p == q - base
    <3>1. p \in Nat /\ p < n /\ q \in Nat /\ q = base + p /\ p \in a .. y-1
          /\ (q < g => p \in a .. f-1) /\ (g <= q => p \in f .. y-1)
      BY <1>1, <1>4
    <3> HIDE DEF p
    <3>2. At(u, p) = At(s, q)
      BY <1>2, <3>1
    <3> QED BY <3>1, <3>2
  <2>4. /\ \A p \in a .. f-1 : p \in a .. y-1 /\ p < f
        /\ \A q \in start .. g-1 : q \in start .. z-1 /\ q < g
        /\ \A p \in f .. y-1 : p \in a .. y-1 /\ f <= p
        /\ \A q \in g .. z-1 : q \in start .. z-1 /\ g <= q
    BY <1>1, <1>3, <1>4
  <2>5. (\A p \in a .. f-1 : At(u, p) \in TagLetters /\ At(u, p) # t)
          <=> (\A q \in start .. g-1 : At(s, q) \in TagLetters /\ At(s, q) # t)
    <3>1. ASSUME \A p \in a .. f-1 : At(u, p) \in TagLetters /\ At(u, p) # t,
                 NEW q \in start .. g-1
          PROVE  At(s, q) \in TagLetters /\ At(s, q) # t
      BY <2>3, <2>4, <3>1
    <3>2. ASSUME \A q \in start .. g-1 : At(s, q) \in TagLetters /\ At(s, q) # t,
                 NEW p \in a .. f-1
          PROVE  At(u, p) \in TagLetters /\ At(u, p) # t
      BY <2>2, <2>4, <3>2
    <3> QED BY <3>1, <3>2
  <2>6. (\A p \in f .. y-1 : At(u, p) # "bad") <=> (\A q \in g .. z-1 : At(s, q) # "bad")
    <3>1. ASSUME \A p \in f .. y-1 : At(u, p) # "bad", NEW q \in g .. z-1
          PROVE  At(s, q) # "bad"
      BY <2>3, <2>4, <3>1
    <3>2. ASSUME \A q \in g .. z-1 : At(s, q) # "bad", NEW p \in f .. y-1
          PROVE  At(u, p) # "bad"
      BY <2>2, <2>4, <3>2
    <3> QED BY <3>1, <3>2
  <2> QED BY <2>1, <2>5, <2>6
<1>7. f <= y => At(u, f) = At(s, g) /\ (Near <=> Far) /\ (NearText <=> FarText)
  BY <1>4
<1> HIDE DEF Near, Far, NearText, FarText
<1>8. CASE f <= y
  BY <1>3, <1>w, <1>x, <1>7, <1>8
<1>9. CASE ~(f <= y)
  BY <1>3, <1>w, <1>x, <1>9
<1> QED BY <1>8, <1>9

(* A unit of the input is parsed on its own as it is where it lies.        *)
LEMMA PieceFound ==
  ASSUME NEW s, NEW u, NEW t, NEW base \in Nat, NEW n \in Nat, PieceOf(u, n, s, base),
         NEW start \in Nat, base <= start, NEW z, FirstTerm(s, t, start, z), z + 1 = base + n,
         \A q \in base .. start-1 : At(s, q) = "ws", At(s, start) # "ws",
         z - start <= MaxSegmentBytes,
         NEW parsed, parsed = ParseSegment(u, n, t, 0)
  PROVE  /\ parsed.is = "segment" =>
              /\ WellFormed(s, t, start, z)
              /\ base + parsed.from = start /\ base + parsed.to = z + 1
         /\ WellFormed(s, t, start, z) => parsed.is = "segment"
         /\ parsed.is # "segment" =>
              /\ parsed.is = "error" /\ parsed.error # NoError
              /\ parsed.error.kind \notin LimitKinds
<1> DEFINE a == start - base
           y == z - base
<1>1. z \in Nat /\ start <= z
  BY DEF FirstTerm
<1>2. a \in Nat /\ y \in Nat /\ a <= y /\ y < n /\ y + 1 = n /\ start = base + a /\ z = base + y
      /\ y - a <= MaxSegmentBytes
  BY <1>1, SyntaxAssumption
<1> HIDE DEF a, y
<1>3. ASSUME NEW p \in Nat, p < n, NEW q \in Nat, q = base + p
      PROVE  At(u, p) = At(s, q)
  BY <1>3 DEF PieceOf
<1>4. SkipWs(u, 0, n) = a
  <2> DEFINE c == SkipWs(u, 0, n)
  <2>1. c \in 0 .. n /\ c \in Nat /\ \A p \in 0 .. c-1 : At(u, p) = "ws"
    <3>1. 0 \in Nat /\ 0 <= n
      OBVIOUS
    <3>2. c \in 0 .. n /\ \A p \in 0 .. c-1 : At(u, p) = "ws"
      <4> HIDE DEF At
      <4> QED BY <3>1, SkipWsBetween
    <3> QED BY <3>2
  <2>2. c < n => At(u, c) # "ws"
    <3> HIDE DEF At
    <3> QED BY SkipWsBetween
  <2> HIDE DEF c, At
  <2>3. ~(a < c)
    <3>1. At(u, a) = At(s, start)
      BY <1>2, <1>3
    <3>2. a < c => a \in 0 .. c-1
      BY <1>2, <2>1
    <3> QED BY <2>1, <3>1, <3>2
  <2>4. ~(c < a)
    <3> SUFFICES ASSUME c < a PROVE FALSE
      OBVIOUS
    <3>1. c < n /\ base + c \in Nat /\ base + c \in base .. start-1
      BY <1>2, <2>1
    <3>2. At(u, c) = At(s, base + c)
      BY <1>3, <2>1, <3>1
    <3> QED BY <2>2, <3>1, <3>2
  <2>5. c = a
    BY <1>2, <2>1, <2>3, <2>4
  <2> QED BY <2>5 DEF c
<1>5. FirstTerm(u, t, a, y)
  <2>1. UnescapedTerms(s, start, z + 1, t) = {z}
    BY DEF FirstTerm
  <2>2. ASSUME NEW p \in a .. n-1
        PROVE  p \in UnescapedTerms(u, a, n, t) <=> p = y
    <3>1. p \in UnescapedTerms(u, a, n, t) <=> base + p \in UnescapedTerms(s, base + a, base + n, t)
      BY <1>2, TermsShift
    <3>2. UnescapedTerms(s, base + a, base + n, t) = {z}
      BY <1>2, <2>1
    <3> QED BY <1>2, <3>1, <3>2
  <2>3. UnescapedTerms(u, a, n, t) = {y}
    <3>1. \A p \in UnescapedTerms(u, a, n, t) : p \in a .. n-1
      BY DEF UnescapedTerms
    <3>2. y \in a .. n-1
      BY <1>2
    <3> QED BY <2>2, <3>1, <3>2
  <2> QED BY <1>2, <2>3 DEF FirstTerm
<1>6. WellFormed(u, t, a, y) <=> WellFormed(s, t, start, z)
  BY <1>1, <1>2, WellFormedShift
<1>7. /\ parsed.is = "segment" =>
              WellFormed(u, t, a, y) /\ parsed.from = a /\ parsed.to = y + 1
      /\ WellFormed(u, t, a, y) => parsed.is = "segment"
      /\ parsed.is # "segment" =>
           parsed.is = "error" /\ parsed.error.kind \in
             ParseErrors \ {"SegmentTooLong", "UnexpectedEof", "InvalidReleaseSequence"}
  <2>1. 0 \in 0 .. n
    OBVIOUS
  <2> QED BY <1>2, <1>4, <1>5, <2>1, WellFormedIs
<1>8. parsed.is # "segment" => parsed.error # NoError /\ parsed.error.kind \notin LimitKinds
  <2>1. NoError.kind = "none"
    BY DEF NoError, Error
  <2> QED BY <1>7, <2>1 DEF ParseErrors, LimitKinds
<1> QED BY <1>2, <1>6, <1>7, <1>8

-----------------------------------------------------------------------------
(***************************************************************************)
(* When the two agree: the slice's iterator stands at the unit that the    *)
(* stream is about to read, and what it makes of it settles what a         *)
(* verdict of the stream has to be.                                        *)
(***************************************************************************)
(* The error e agrees with what the slice yields.                          *)
AgreesOn(e) ==
  /\ segs = SliceYields.segs
  /\ e = NoError <=> SliceYields.error = NoError
  /\ OneFault /\ {e.kind, SliceYields.error.kind} \cap LimitKinds # {} => e = SliceYields.error

StandsAt(p) ==
  p \in UnitStarts \cup {InputEnd} /\ Stands(input, Len(segs), p, budget, segs)

LEMMA EndsAgree ==
  ASSUME NEW x, Ends(input, segs, x), NEW e,
         \/ e = x
         \/ e # NoError /\ x # NoError /\ (OneFault => e = x)
         \/ e # NoError /\ x # NoError /\ e.kind \notin LimitKinds /\ x.kind \notin LimitKinds
  PROVE  AgreesOn(e)
<1>1. segs = SliceYields.segs /\ SliceYields.error = x
  BY DEF Ends, SliceYields
<1>2. e = NoError <=> x = NoError
  OBVIOUS
<1>3. OneFault /\ {e.kind, x.kind} \cap LimitKinds # {} => e = x
  OBVIOUS
<1> QED BY <1>1, <1>2, <1>3 DEF AgreesOn

LEMMA StandsWithin ==
  ASSUME input \in Seq(Bytes), NEW p, StandsAt(p)
  PROVE  /\ p \in 0..Seen(input) /\ p \in Nat /\ p <= Seen(input)
         /\ Seen(input) \in Nat /\ Seen(input) <= InputEnd /\ InputEnd \in Nat
         /\ p # InputEnd => p \in UnitStarts
BY SeenIs DEF StandsAt, Stands, InputEnd

(* Nothing but whitespace is left of what the slice's iterator sees.       *)
LEMMA AgreeOnNothing ==
  ASSUME input \in Seq(Bytes), NEW p, StandsAt(p), NEW start, start = SkipWs(input, p, InputEnd),
         ~(start < Seen(input))
  PROVE  /\ Sliced!Truncated(input) => AgreesOn(BytesExceeded)
         /\ ~Sliced!Truncated(input) => AgreesOn(NoError)
<1> DEFINE found == Found(input, p)
<1>1. p \in 0..Seen(input)
  BY StandsWithin
<1>2. found.is = "end"
  BY <1>1, FoundBlank DEF InputEnd
<1>3. Stands(input, Len(segs), p, budget, segs)
  BY DEF StandsAt
<1>4. found.is = "end" => Ends(input, segs, IF Sliced!Truncated(input) THEN BytesExceeded ELSE NoError)
  <2>1. \A n, b, g : n = Len(segs) /\ b = budget /\ g = segs /\ Stands(input, n, p, b, g) =>
           (found.is = "end" => Ends(input, g, IF Sliced!Truncated(input) THEN BytesExceeded ELSE NoError))
    BY NextIs
  <2> QED BY <1>3, <2>1
<1>5. Sliced!Truncated(input) => Ends(input, segs, BytesExceeded)
  BY <1>2, <1>4
<1>6. ~Sliced!Truncated(input) => Ends(input, segs, NoError)
  BY <1>2, <1>4
<1> QED BY <1>5, <1>6, EndsAgree

(* A unit that the slice's iterator does not see whole, and that is not    *)
(* overlong in what it sees.                                               *)
LEMMA AgreeOnUnterminated ==
  ASSUME input \in Seq(Bytes), InputTerm \notin {"ws", "rel"}, NEW p, StandsAt(p), p \in UnitStarts,
         NEW start, start = SkipWs(input, p, InputEnd), NEW z, z = UnitEnd(p),
         start < Seen(input), start + MaxSegmentBytes + 1 > Seen(input), Seen(input) <= z
  PROVE  /\ Sliced!Truncated(input) => AgreesOn(BytesExceeded)
         /\ ~Sliced!Truncated(input) =>
              \A e : e # NoError /\ e.kind \notin LimitKinds => AgreesOn(e)
<1> DEFINE found == Found(input, p)
           x == Sliced!OverBudget(input, found.error, p)
           m == Seen(input)
<1>1. p \in 0..m /\ m \in Nat
  BY StandsWithin
<1>2. UnescapedTerms(input, start, m, InputTerm) = {}
  <2>1. \A w \in Nat : w <= z => UnescapedTerms(input, start, w, InputTerm) = {}
    BY UnitIs
  <2>2. m <= z
    OBVIOUS
  <2> HIDE DEF m
  <2> QED BY <1>1, <2>1, <2>2
<1>3. /\ found.is = "error"
      /\ Sliced!Truncated(input) => x = BytesExceeded
      /\ ~Sliced!Truncated(input) => x # NoError /\ x.kind \notin LimitKinds
  BY <1>1, <1>2, FoundUnterminated DEF InputEnd, InputTerm
<1>4. Ends(input, segs, x)
  <2>1. \A n, b, g : n = Len(segs) /\ b = budget /\ g = segs /\ Stands(input, n, p, b, g) =>
           (found.is = "error" => Ends(input, g, Sliced!OverBudget(input, found.error, p)))
    BY NextIs
  <2> QED BY <1>3, <2>1 DEF StandsAt
<1> HIDE DEF x, found
<1> QED BY <1>3, <1>4, EndsAgree

(* A unit overlong within what the slice's iterator sees.                  *)
LEMMA AgreeOnOverlong ==
  ASSUME input \in Seq(Bytes), InputTerm \notin {"ws", "rel"}, NEW p, StandsAt(p), p \in UnitStarts,
         NEW start, start = SkipWs(input, p, InputEnd), NEW z, z = UnitEnd(p), Regular,
         start + MaxSegmentBytes + 1 <= Seen(input), z - start > MaxSegmentBytes,
         NEW e, e = Error("SegmentTooLong", start)
  PROVE  AgreesOn(e)
<1> DEFINE found == Found(input, p)
           x == Sliced!OverBudget(input, found.error, p)
           w == start + MaxSegmentBytes + 1
           whole == ParseSegment(input, Len(input), InputTerm, p)
<1>1. p \in 0..Seen(input)
  BY StandsWithin
<1>2. UnescapedTerms(input, start, w, InputTerm) = {}
  <2>1. UnitAt(p, start, z)
    BY UnitIs
  <2>2. \A v \in Nat : v <= z => UnescapedTerms(input, start, v, InputTerm) = {}
    BY UnitIs
  <2>3. w \in Nat /\ w <= z
    BY <2>1, SyntaxAssumption DEF UnitAt
  <2> HIDE DEF w
  <2> QED BY <2>2, <2>3
<1>3. /\ found.is = "error" /\ x # NoError
      /\ whole.error.kind = "SegmentTooLong" => x = e
  BY <1>1, <1>2, FoundOverlong DEF InputEnd, InputTerm
<1>4. OneFault => whole.error.kind = "SegmentTooLong"
  BY RegularUnit DEF InputEnd
<1>5. Ends(input, segs, x)
  <2>1. \A n, b, g : n = Len(segs) /\ b = budget /\ g = segs /\ Stands(input, n, p, b, g) =>
           (found.is = "error" => Ends(input, g, Sliced!OverBudget(input, found.error, p)))
    BY NextIs
  <2> QED BY <1>3, <2>1 DEF StandsAt
<1>6. e # NoError
  BY DEF Error, NoError
<1> HIDE DEF x, found, whole
<1> QED BY <1>3, <1>4, <1>5, <1>6, EndsAgree

(* A unit that the slice's iterator sees whole.                            *)
LEMMA AgreeOnWhole ==
  ASSUME input \in Seq(Bytes), InputTerm \notin {"ws", "rel"}, NEW p, StandsAt(p), p \in UnitStarts,
         NEW start, start = SkipWs(input, p, InputEnd), NEW z, z = UnitEnd(p),
         z < Seen(input), z - start <= MaxSegmentBytes
  PROVE  /\ ~WellFormed(input, InputTerm, start, z) =>
              \A e : e # NoError /\ e.kind \notin LimitKinds => AgreesOn(e)
         /\ WellFormed(input, InputTerm, start, z) /\ ~AdmitsSegment(budget, "BGM") =>
              \A e : e = Error(RefusedLimit(budget, "BGM"), start) => AgreesOn(e)
         /\ WellFormed(input, InputTerm, start, z) /\ AdmitsSegment(budget, "BGM") =>
              \A to, b, g : to = z + 1 /\ b = Account(budget, "BGM")
                            /\ g = Append(segs, [from |-> start, to |-> z + 1]) =>
                 Stands(input, Len(segs)+1, to, b, g) /\ to \in UnitStarts \cup {InputEnd}
<1> DEFINE found == Found(input, p)
           x == Sliced!OverBudget(input, found.error, p)
<1>1. /\ p \in 0..Seen(input) /\ p \in Nat /\ p <= Seen(input) /\ Seen(input) \in Nat
      /\ Seen(input) <= InputEnd /\ InputEnd \in Nat
  BY StandsWithin
<1>2. z < InputEnd /\ z \in Nat /\ start \in Nat /\ p <= start /\ start <= z
      /\ FirstTerm(input, InputTerm, start, z)
      /\ z + 1 \in UnitStarts \cup {InputEnd}
  <2>1. UnitAt(p, start, z)
    BY UnitIs
  <2>2. z \in Nat /\ start \in Nat /\ p <= start /\ start <= z
    BY <2>1 DEF UnitAt
  <2>3. z < InputEnd
    <3> HIDE DEF InputEnd
    <3> QED BY <1>1, <2>2
  <2> QED BY <2>1, <2>2, <2>3 DEF UnitAt
<1>3. /\ found.is = "segment" =>
           WellFormed(input, InputTerm, start, z) /\ found.from = start /\ found.to = z + 1
      /\ WellFormed(input, InputTerm, start, z) => found.is = "segment"
      /\ found.is # "segment" =>
           /\ found.is = "error" /\ x = found.error
           /\ found.error # NoError /\ found.error.kind \notin LimitKinds
  BY <1>1, <1>2, FoundWhole DEF InputEnd, InputTerm
<1>4. Stands(input, Len(segs), p, budget, segs)
  BY DEF StandsAt
<1>5. /\ found.is = "error" => Ends(input, segs, x)
      /\ found.is = "segment" /\ ~AdmitsSegment(budget, "BGM") =>
           Ends(input, segs, Error(RefusedLimit(budget, "BGM"), found.from))
      /\ found.is = "segment" /\ AdmitsSegment(budget, "BGM") /\ p < found.to /\ found.to <= Seen(input) =>
           \A to, b, g : to = found.to /\ b = Account(budget, "BGM")
               /\ g = Append(segs, [from |-> found.from, to |-> found.to]) =>
             Stands(input, Len(segs)+1, to, b, g)
  <2> HIDE DEF found
  <2>0. found = Found(input, p)
    BY DEF found
  <2>1. ASSUME NEW n, NEW c, NEW h, Stands(input, n, p, c, h)
        PROVE  /\ found.is = "error" => Ends(input, h, x)
               /\ found.is = "segment" /\ ~AdmitsSegment(c, "BGM") =>
                    Ends(input, h, Error(RefusedLimit(c, "BGM"), found.from))
               /\ found.is = "segment" /\ AdmitsSegment(c, "BGM") /\ p < found.to
                  /\ found.to <= Seen(input) =>
                    \A to, b, g : to = found.to /\ b = Account(c, "BGM")
                        /\ g = Append(h, [from |-> found.from, to |-> found.to]) =>
                      Stands(input, n+1, to, b, g)
    BY <2>0, <2>1, NextIs
  <2>2. /\ found.is = "error" => Ends(input, segs, x)
        /\ found.is = "segment" /\ ~AdmitsSegment(budget, "BGM") =>
             Ends(input, segs, Error(RefusedLimit(budget, "BGM"), found.from))
    BY <1>4, <2>1
  <2>3. found.is = "segment" /\ AdmitsSegment(budget, "BGM") /\ p < found.to /\ found.to <= Seen(input) =>
           \A to, b, g : to = found.to /\ b = Account(budget, "BGM")
               /\ g = Append(segs, [from |-> found.from, to |-> found.to]) =>
             Stands(input, Len(segs)+1, to, b, g)
    BY <1>4, <2>1
  <2> QED BY <2>2, <2>3
<1> HIDE DEF x, found
<1>6. ASSUME ~WellFormed(input, InputTerm, start, z), NEW e, e # NoError, e.kind \notin LimitKinds
      PROVE  AgreesOn(e)
  <2>1. Ends(input, segs, x) /\ x # NoError /\ x.kind \notin LimitKinds
    BY <1>3, <1>5, <1>6
  <2> QED BY <1>6, <2>1, EndsAgree
<1>7. ASSUME WellFormed(input, InputTerm, start, z), ~AdmitsSegment(budget, "BGM"),
             NEW e, e = Error(RefusedLimit(budget, "BGM"), start)
      PROVE  AgreesOn(e)
  <2>1. Ends(input, segs, e)
    BY <1>3, <1>5, <1>7
  <2> QED BY <2>1, EndsAgree
<1>8. ASSUME WellFormed(input, InputTerm, start, z), AdmitsSegment(budget, "BGM"),
             NEW to, NEW b, NEW g, to = z + 1, b = Account(budget, "BGM"),
             g = Append(segs, [from |-> start, to |-> z + 1])
      PROVE  Stands(input, Len(segs)+1, to, b, g) /\ to \in UnitStarts \cup {InputEnd}
  <2>1. found.is = "segment" /\ found.from = start /\ found.to = z + 1
    BY <1>3, <1>8
  <2>2. p < found.to /\ found.to <= Seen(input)
    <3>1. p < z + 1 /\ z + 1 <= Seen(input)
      BY <1>1, <1>2
    <3> QED BY <2>1, <3>1
  <2> QED BY <1>2, <1>5, <1>8, <2>1, <2>2
<1> QED BY <1>6, <1>7, <1>8

(* No unit ends before its first terminator.                               *)
LEMMA EndNotBefore ==
  ASSUME input \in Seq(Bytes), InputTerm \notin {"ws", "rel"}, NEW p \in UnitStarts,
         NEW start, start = SkipWs(input, p, InputEnd), NEW z, z = UnitEnd(p),
         NEW w \in Nat, w <= InputEnd, UnescapedTerms(input, start, w, InputTerm) = {}
  PROVE  w <= z
<1>1. UnitAt(p, start, z)
  BY UnitIs
<1>2. start \in Nat /\ z \in Nat /\ InputEnd \in Nat
      /\ (z < InputEnd => FirstTerm(input, InputTerm, start, z))
  BY <1>1 DEF UnitAt
<1>3. z < InputEnd /\ z < w => z \in UnescapedTerms(input, start, w, InputTerm)
  BY <1>2, FirstTermIs
<1> HIDE DEF InputEnd
<1> QED BY <1>2, <1>3

(* ... but at it.                                                          *)
LEMMA TermFixesEnd ==
  ASSUME input \in Seq(Bytes), InputTerm \notin {"ws", "rel"}, NEW p \in UnitStarts,
         NEW start, start = SkipWs(input, p, InputEnd), NEW z, z = UnitEnd(p),
         NEW w \in Nat, w <= InputEnd, NEW q, q \in UnescapedTerms(input, start, w, InputTerm),
         \A r \in UnescapedTerms(input, start, w, InputTerm) : q <= r
  PROVE  q = z /\ z < InputEnd
<1> DEFINE t == InputTerm
<1>1. UnitAt(p, start, z) /\ \A v \in Nat : v <= z => UnescapedTerms(input, start, v, t) = {}
  BY UnitIs
<1>2. start \in Nat /\ z \in Nat /\ InputEnd \in Nat
      /\ (z < InputEnd => FirstTerm(input, InputTerm, start, z))
  BY <1>1 DEF UnitAt
<1>3. q \in start .. w-1 /\ q \in Nat /\ q < w
  <2>1. q \in start .. w-1
    BY DEF UnescapedTerms
  <2> QED BY <1>2, <2>1
<1>4. ~(w <= z)
  BY <1>1
<1>5. z < w /\ z < InputEnd
  <2> HIDE DEF InputEnd
  <2> QED BY <1>2, <1>4
<1>6. z \in UnescapedTerms(input, start, w, t)
  BY <1>2, <1>5, FirstTermIs
<1>7. q <= z
  BY <1>6
<1>8. z <= q
  BY <1>2, <1>5, FirstTermLeast
<1> QED BY <1>2, <1>3, <1>5, <1>7, <1>8

(* What the budget admits is what the slice's iterator sees.               *)
LEMMA WithinSeen ==
  ASSUME StreamInv
  PROVE  /\ input \in Seq(Bytes) /\ consumed \in Nat /\ avail \in Nat /\ offset = consumed
         /\ InputEnd \in Nat /\ Seen(input) \in Nat /\ Seen(input) <= InputEnd
         /\ consumed <= Seen(input) /\ consumed + avail <= InputEnd /\ consumed <= InputEnd
         /\ \A end \in Nat : end <= InputEnd => (AdmitsBytes(end) <=> end <= Seen(input))
         /\ \A end \in Nat : end <= InputEnd => (SeesByte(end) <=> end <= Seen(input))
         /\ Sliced!Truncated(input) <=> Seen(input) # InputEnd
<1>1. input \in Seq(Bytes) /\ consumed \in 0..Len(input) /\ avail \in 0..Left /\ offset = consumed
      /\ (MaxInputBytes # None => consumed <= MaxInputBytes)
  BY DEF StreamInv, ReaderOK, InBudget
<1>2. /\ Seen(input) \in Nat /\ Seen(input) <= Len(input) /\ Len(input) \in Nat
      /\ Sliced!Truncated(input) => Seen(input) = MaxInputBytes /\ Seen(input) < Len(input)
                                    /\ MaxInputBytes # None /\ MaxInputBytes \in Nat
      /\ ~Sliced!Truncated(input) => Seen(input) = Len(input)
      /\ \A end \in Nat : end <= Len(input) => (AdmitsBytes(end) <=> end <= Seen(input))
  BY <1>1, SeenIs
<1>3. consumed <= Seen(input)
  BY <1>1, <1>2
<1>4. consumed \in Nat /\ avail \in Nat /\ consumed + avail <= Len(input) /\ consumed <= Len(input)
  BY <1>1 DEF Left
<1>5. \A end : SeesByte(end) <=> AdmitsBytes(end)
  BY DEF SeesByte, AdmitsBytes
<1>6. Sliced!Truncated(input) <=> Seen(input) # Len(input)
  BY <1>2
<1>7. InputEnd = Len(input)
  BY DEF InputEnd
<1> HIDE DEF InputEnd
<1> QED BY <1>1, <1>2, <1>3, <1>4, <1>5, <1>6, <1>7

(* The unit of the fast path is a unit of the input.                       *)
LEMMA FastUnitIs ==
  ASSUME StreamInv, FastUnit, term = InputTerm, InputTerm \notin {"ws", "rel"},
         consumed \in UnitStarts \cup {InputEnd},
         NEW start, start = SkipWs(input, consumed, InputEnd), NEW z, z = UnitEnd(consumed)
  PROVE  /\ consumed \in UnitStarts /\ UnitAt(consumed, start, z)
         /\ z < InputEnd /\ Pos \in Nat /\ consumed + Pos = z
         /\ PieceOf(Unit, Pos + 1, input, consumed)
         /\ SkipWs(Unit, 0, Pos) = start - consumed
<1> DEFINE far == consumed + avail
<1>1. /\ input \in Seq(Bytes) /\ consumed \in Nat /\ avail \in Nat /\ InputEnd \in Nat
      /\ far \in Nat /\ far <= InputEnd
  BY WithinSeen
<1>2. InBuffer = UnescapedTerms(input, consumed, far, InputTerm) /\ InBuffer # {}
      /\ InBuffer \subseteq consumed .. far-1
  <2>1. InBuffer = UnescapedTerms(input, consumed, far, InputTerm)
    BY DEF InBuffer
  <2>2. InBuffer # {}
    BY DEF FastUnit
  <2> QED BY <2>1, <2>2, TermsWithin
<1>3. Pos \in Nat /\ consumed + Pos \in InBuffer /\ \A r \in InBuffer : consumed + Pos <= r
  <2>1. InBuffer \subseteq Nat
    <3> HIDE DEF far
    <3> QED BY <1>1, <1>2
  <2>2. LeastOr(InBuffer, 0) \in InBuffer /\ \A r \in InBuffer : LeastOr(InBuffer, 0) <= r
    BY <1>2, <2>1, LeastIn
  <2>3. PICK least \in Nat : least = LeastOr(InBuffer, 0)
    BY <2>1, <2>2
  <2>4. least \in consumed .. far-1
    BY <1>2, <2>2, <2>3
  <2>5. Pos = least - consumed
    BY <2>3 DEF Pos
  <2>6. consumed + Pos = least /\ Pos \in Nat
    <3> HIDE DEF far
    <3> QED BY <1>1, <2>4, <2>5
  <2> QED BY <2>2, <2>3, <2>6
<1>4. PICK pos \in Nat : pos = Pos
  BY <1>3
<1> DEFINE q == consumed + pos
<1>5. q \in Nat /\ q < far /\ q < InputEnd /\ consumed < InputEnd
  <2>1. q \in consumed .. far-1
    BY <1>2, <1>3, <1>4
  <2> HIDE DEF far, q, InputEnd
  <2> QED BY <1>1, <2>1
<1>6. consumed \in UnitStarts
  BY <1>1, <1>5
<1>7. UnitAt(consumed, start, z)
  BY <1>1, <1>6, UnitIs
<1>8. /\ start \in Nat /\ consumed <= start
      /\ \A r \in consumed .. start-1 : At(input, r) = "ws"
      /\ start < InputEnd => At(input, start) # "ws"
  <2>1. start \in Nat /\ consumed <= start
    BY <1>7 DEF UnitAt
  <2>2. consumed <= InputEnd
    BY WithinSeen
  <2> HIDE DEF At, InputEnd
  <2> QED BY <1>1, <2>1, <2>2, SkipWsBetween
<1>9. InBuffer = UnescapedTerms(input, start, far, InputTerm)
  <2>1. UnescapedTerms(input, consumed, far, InputTerm) = UnescapedTerms(input, start, far, InputTerm)
    <3>1. InputTerm # "ws"
      OBVIOUS
    <3> HIDE DEF At, far, InputTerm
    <3> QED BY <1>1, <1>8, <3>1, TermsAfterBlanks
  <2> QED BY <1>2, <2>1
<1>10. q = z /\ z < InputEnd
  <2>1. q \in UnescapedTerms(input, start, far, InputTerm)
        /\ \A r \in UnescapedTerms(input, start, far, InputTerm) : q <= r
    BY <1>3, <1>4, <1>9
  <2> HIDE DEF q, far
  <2> QED BY <1>1, <1>6, <2>1, TermFixesEnd
<1>11. PieceOf(Unit, pos + 1, input, consumed)
  <2>1. PICK to \in Nat : to = consumed + pos + 1
    BY <1>1
  <2>2. consumed <= to /\ to <= Len(input) /\ pos + 1 = to - consumed /\ pos + 1 \in Nat
    BY <1>1, <1>5, <2>1 DEF InputEnd
  <2>3. Unit = Slice(input, consumed, to)
    BY <1>4, <2>1 DEF Unit
  <2> QED BY <1>1, <2>2, <2>3, SlicePiece
<1>12. SkipWs(Unit, 0, pos) = start - consumed
  <2> DEFINE c == SkipWs(Unit, 0, pos)
  <2>1. c \in 0 .. pos /\ (\A r \in 0 .. c-1 : At(Unit, r) = "ws")
        /\ (c < pos => At(Unit, c) # "ws")
    <3>1. 0 \in Nat /\ 0 <= pos
      OBVIOUS
    <3> HIDE DEF At
    <3> QED BY <3>1, SkipWsBetween
  <2>2. start <= q
    BY <1>7, <1>10 DEF UnitAt
  <2>3. ASSUME NEW r \in Nat, r <= pos, NEW v \in Nat, v = consumed + r PROVE At(Unit, r) = At(input, v)
    <3>1. r \in 0 .. (pos+1)-1
      BY <2>3
    <3> HIDE DEF At
    <3> QED BY <1>11, <2>3, <3>1 DEF PieceOf
  <2> HIDE DEF c, At
  <2>4. ~(consumed + c < start)
    <3> SUFFICES ASSUME consumed + c < start PROVE FALSE
      OBVIOUS
    <3>1. c \in Nat /\ c < pos /\ consumed + c \in Nat /\ consumed + c \in consumed .. start-1
      BY <1>1, <1>8, <2>1, <2>2
    <3>2. At(Unit, c) = At(input, consumed + c)
      BY <2>3, <3>1
    <3> QED BY <1>8, <2>1, <3>1, <3>2
  <2>5. ~(start < consumed + c)
    <3> SUFFICES ASSUME start < consumed + c PROVE FALSE
      OBVIOUS
    <3> DEFINE r == start - consumed
    <3>1. r \in Nat /\ r <= pos /\ start = consumed + r /\ r \in 0 .. c-1
      BY <1>1, <1>8, <2>1, <2>2
    <3> HIDE DEF r
    <3>2. At(Unit, r) = At(input, start)
      BY <1>8, <2>3, <3>1
    <3>3. start < InputEnd
      <4> HIDE DEF InputEnd
      <4> QED BY <1>1, <1>5, <1>8, <2>2
    <3> QED BY <1>8, <2>1, <3>1, <3>2, <3>3
  <2>6. c = start - consumed
    BY <1>1, <1>8, <2>1, <2>4, <2>5
  <2> QED BY <2>6 DEF c
<1> QED BY <1>3, <1>4, <1>6, <1>7, <1>10, <1>11, <1>12

-----------------------------------------------------------------------------
(***************************************************************************)
(* The stream, step by step, stays abreast of the slice's iterator.        *)
(***************************************************************************)
(* Until the header has been scanned the slow path has read nothing but    *)
(* the prologue of the input, or what may yet be its UNA.                  *)
Marked  == StartsWithBom(input, 0, InputEnd)
MarkEnd == IF Marked THEN BomLen ELSE 0
Start   == PrologueLen(input)

Spells(n) ==
  /\ At(input, Start) = "U"
  /\ n >= 2 => At(input, Start + 1) = "N"
  /\ n >= 3 => At(input, Start + 2) = "A"

Ahead ==
  /\ segs = <<>> /\ budget = NewBudget /\ state = "Init"
  /\ term = IF Advice = None THEN "term" ELSE Advice
  /\ phase # "body"
  /\ phase = "top" => consumed = 0 /\ (avail > 0 /\ Marked => avail >= BomLen)
  /\ phase = "lead" => MarkEnd <= consumed /\ consumed <= Start
  /\ phase = "una" => /\ rawStart = Start
                      /\ Start < consumed /\ consumed < Start + UnaLen
                      /\ Spells(consumed - Start)

(* From then on it reads the unit at which the slice's iterator stands.    *)
Plain(t) == t \notin {"ws", "rel", "U", "N"}

AbreastAt(p) ==
  /\ p \in Nat /\ StandsAt(p) /\ p <= consumed
  /\ phase = "top" => p = consumed /\ state = "Running"
  /\ phase = "lead" => \A q \in p .. consumed-1 : At(input, q) = "ws"
  /\ phase = "body" => /\ rawStart = SkipWs(input, p, InputEnd) /\ rawStart < consumed
                       /\ UnescapedTerms(input, rawStart, consumed, InputTerm) = {}

Abreast ==
  /\ term = InputTerm /\ Plain(InputTerm) /\ phase # "una"
  /\ \E p : AbreastAt(p)

PathInv ==
  /\ Running => error = NoError
  /\ RegularPathsAgree
  /\ Regular /\ Running => IF scanned THEN Abreast ELSE Ahead

LEMMA InputStays ==
  ASSUME input' = input
  PROVE  /\ InputEnd' = InputEnd /\ InputTerm' = InputTerm /\ SliceYields' = SliceYields
         /\ UnitStarts' = UnitStarts /\ (Regular' <=> Regular) /\ (OneFault' <=> OneFault)
         /\ MarkEnd' = MarkEnd /\ Start' = Start /\ (Marked' <=> Marked)
<1>1. InputEnd' = InputEnd
  BY DEF InputEnd
<1>2. InputTerm' = InputTerm
  BY DEF InputTerm
<1>3. SliceYields' = SliceYields
  BY DEF SliceYields
<1>4. BodyBegin' = BodyBegin
  BY DEF BodyBegin
<1>5. Terminators' = Terminators
  BY <1>1, <1>2, <1>4 DEF Terminators
<1>6. UnitStarts' = UnitStarts
  BY <1>1, <1>4, <1>5 DEF UnitStarts
<1>7. \A p : UnitEnd(p)' = UnitEnd(p)
  BY <1>1, <1>5 DEF UnitEnd
<1>8. \A p : Lead(p)' = Lead(p)
  BY <1>7 DEF Lead
<1>9. CutUna' <=> CutUna
  BY <1>1 DEF CutUna
<1>10. \A p : (EmptyUnit(p)' <=> EmptyUnit(p)) /\ (PaddedOverLimit(p)' <=> PaddedOverLimit(p))
  BY <1>1, <1>7, <1>8 DEF EmptyUnit, PaddedOverLimit
<1>11. Regular' <=> Regular
  BY <1>6, <1>9, <1>10 DEF Regular
<1>12. \A p : OversizedAndMalformed(p)' <=> OversizedAndMalformed(p)
  BY <1>1, <1>2, <1>7, <1>8 DEF OversizedAndMalformed
<1>13. OneFault' <=> OneFault
  BY <1>6, <1>12 DEF OneFault
<1>14. Start' = Start /\ (Marked' <=> Marked)
  BY <1>1 DEF Start, Marked
<1>15. MarkEnd' = MarkEnd
  BY <1>14 DEF MarkEnd
<1> QED BY <1>1, <1>2, <1>3, <1>6, <1>11, <1>13, <1>14, <1>15

LEMMA Agreement == RegularPathsAgree <=> (Answered /\ Regular => AgreesOn(error))
BY DEF RegularPathsAgree, AgreesOn

LEMMA AgreesStays ==
  ASSUME input' = input, segs' = segs, NEW e, e = error', Regular => AgreesOn(e)
  PROVE  Regular' => AgreesOn(error)'
<1>1. SliceYields' = SliceYields /\ (OneFault' <=> OneFault) /\ (Regular' <=> Regular)
  BY InputStays
<1> QED BY <1>1 DEF AgreesOn

LEMMA FailPaths ==
  ASSUME PathInv, Running, input' = input, NEW e, Fail(e),
         Regular /\ e.kind # "Io" => AgreesOn(e)
  PROVE  PathInv'
<1>1. state' = "Done" /\ error' = e /\ segs' = segs
  BY DEF Fail
<1>2. ~Running'
  BY <1>1 DEF Running
<1>3. RegularPathsAgree'
  <2>1. CASE e.kind = "Io"
    <3>1. ~Answered'
      BY <1>1, <2>1 DEF Answered
    <3> QED BY <3>1 DEF RegularPathsAgree
  <2>2. CASE e.kind # "Io"
    <3>1. Regular' => AgreesOn(error)'
      BY <1>1, <2>2, AgreesStays
    <3> QED BY <3>1 DEF RegularPathsAgree, AgreesOn
  <2> QED BY <2>1, <2>2
<1> QED BY <1>2, <1>3 DEF PathInv

LEMMA EndPaths ==
  ASSUME PathInv, Running, End, Regular => AgreesOn(NoError)
  PROVE  PathInv'
<1>1. input' = input /\ segs' = segs /\ error' = error /\ ended' = TRUE /\ error = NoError
  BY DEF PathInv, End, readerVars
<1>2. ~Running'
  BY <1>1 DEF Running
<1>3. RegularPathsAgree'
  <2>1. Regular' => AgreesOn(error)'
    BY <1>1, AgreesStays
  <2> QED BY <2>1 DEF RegularPathsAgree, AgreesOn
<1> QED BY <1>2, <1>3 DEF PathInv

LEMMA GoPaths ==
  ASSUME PathInv, Running, input' = input, error' = error, Running',
         Regular => (IF scanned' THEN Abreast' ELSE Ahead')
  PROVE  PathInv'
<1>1. error' = NoError
  BY DEF PathInv
<1>2. RegularPathsAgree'
  BY DEF RegularPathsAgree, Answered
<1>3. Regular' <=> Regular
  BY InputStays
<1> QED BY <1>1, <1>2, <1>3 DEF PathInv

LEMMA DonePaths ==
  ASSUME PathInv, ~Running, [Next]_vars
  PROVE  PathInv'
<1>1. UNCHANGED vars
  BY DEF Next, FillBuf, FillFails, FastPath, SlowPath, FastEof, NeedMore, FastTooLong, FastOverBudget,
     FastSkip, FastParseError, FastSegment, FastAdmitted, FastUnit, AtTop, StripBom, SlowOverBudget,
     SlowEof, SkipWhitespace, StrayTerminator, StartUna, StartSegment, ReadUna, AdoptUna, UnaEof,
     NotUna, SlowTooLong, ReadBody, SlowSegment, BodyEof, Reads, Ready
<1>2. input' = input /\ segs' = segs /\ error' = error /\ state' = state /\ ended' = ended
  BY <1>1 DEF vars
<1>3. ~Running' /\ (Answered' <=> Answered)
  BY <1>2 DEF Running, Answered
<1>4. RegularPathsAgree'
  <2>1. RegularPathsAgree
    BY DEF PathInv
  <2>2. Answered => (Regular => AgreesOn(error))
    BY <2>1 DEF RegularPathsAgree, AgreesOn
  <2>3. Answered => (Regular' => AgreesOn(error)')
    BY <1>2, <2>2, AgreesStays
  <2> QED BY <1>3, <2>3 DEF RegularPathsAgree, AgreesOn
<1> QED BY <1>3, <1>4 DEF PathInv

LEMMA StandsStays ==
  ASSUME input' = input, segs' = segs, budget' = budget, NEW p, StandsAt(p)
  PROVE  StandsAt(p)'
<1>1. UnitStarts' = UnitStarts /\ InputEnd' = InputEnd
  BY InputStays
<1>2. Stands(input, Len(segs), p, budget, segs)' <=> Stands(input, Len(segs), p, budget, segs)
  BY DEF Stands
<1> QED BY <1>1, <1>2 DEF StandsAt

(* A well-formed unit is handed out, or refused, as the slice's is.        *)
LEMMA HandOutPaths ==
  ASSUME StreamInv, PathInv, Running, input' = input, term = InputTerm, Plain(InputTerm),
         NEW p, StandsAt(p), p \in UnitStarts,
         NEW start, start = SkipWs(input, p, InputEnd), NEW z \in Nat, z = UnitEnd(p),
         z < Seen(input), z - start <= MaxSegmentBytes,
         WellFormed(input, InputTerm, start, z), consumed' = z + 1,
         NEW h, h = [from |-> start, to |-> z + 1], HandOut(h)
  PROVE  PathInv'
<1>1. input \in Seq(Bytes) /\ segs \in Seq([from: Nat, to: Nat]) /\ InputTerm \notin {"ws", "rel"}
  BY DEF StreamInv, ReaderOK, SegsOK, Plain
<1>2. /\ ~AdmitsSegment(budget, "BGM") =>
           \A e : e = Error(RefusedLimit(budget, "BGM"), start) => AgreesOn(e)
      /\ AdmitsSegment(budget, "BGM") =>
           \A to, b, g : to = z + 1 /\ b = Account(budget, "BGM")
                         /\ g = Append(segs, [from |-> start, to |-> z + 1]) =>
              Stands(input, Len(segs)+1, to, b, g) /\ to \in UnitStarts \cup {InputEnd}
  BY <1>1, AgreeOnWhole
<1>3. CASE AdmitsSegment(budget, "BGM")
  <2>1. /\ budget' = Account(budget, "BGM") /\ segs' = Append(segs, h)
        /\ state' = "Running" /\ phase' = "top" /\ scanned' = TRUE
        /\ term' = term /\ error' = error /\ ended' = ended
    BY <1>3 DEF HandOut
  <2>0. PICK to \in Nat : to = z + 1
    OBVIOUS
  <2>2. Stands(input, Len(segs)+1, to, budget', segs') /\ to \in UnitStarts \cup {InputEnd}
    <3>1. segs' = Append(segs, [from |-> start, to |-> z + 1])
      BY <2>1
    <3> QED BY <1>2, <1>3, <2>0, <2>1, <3>1
  <2>3. Len(segs') = Len(segs) + 1
    BY <1>1, <2>1
  <2>4. UnitStarts' = UnitStarts /\ InputEnd' = InputEnd /\ InputTerm' = InputTerm
    BY InputStays
  <2>5. StandsAt(to)'
    <3>1. Stands(input', Len(segs'), to, budget', segs')
      BY <2>2, <2>3
    <3> QED BY <2>2, <2>4, <3>1 DEF StandsAt, Stands
  <2>6. AbreastAt(to)'
    BY <2>0, <2>1, <2>5 DEF AbreastAt
  <2>7. Abreast'
    BY <2>1, <2>4, <2>6 DEF Abreast, Plain
  <2>8. Running'
    BY <2>1 DEF Running
  <2> QED BY <2>1, <2>7, <2>8, GoPaths
<1>4. CASE ~AdmitsSegment(budget, "BGM")
  <2>1. Fail(LimitError(RefusedLimit(budget, "BGM"), start))
    <3>1. h.from = start
      OBVIOUS
    <3> QED BY <1>4, <3>1 DEF HandOut
  <2>2. AgreesOn(LimitError(RefusedLimit(budget, "BGM"), start))
    BY <1>2, <1>4 DEF LimitError
  <2> QED BY <2>1, <2>2, FailPaths
<1> QED BY <1>3, <1>4

(* A unit is parsed on its own, with what may lead it.                     *)
LEMMA ParsedPaths ==
  ASSUME StreamInv, PathInv, Running, input' = input, term = InputTerm, Plain(InputTerm),
         NEW p, StandsAt(p), p \in UnitStarts,
         NEW start, start = SkipWs(input, p, InputEnd), NEW z, z = UnitEnd(p),
         z < Seen(input), z - start <= MaxSegmentBytes, start < z,
         NEW u, NEW base \in Nat, NEW n \in Nat, p <= base, base <= start,
         PieceOf(u, n, input, base), z + 1 = base + n,
         NEW parsed, parsed = ParseSegment(u, n, term, 0),
         parsed.is = "segment" =>
           /\ consumed' = z + 1
           /\ HandOut([from |-> base + parsed.from, to |-> base + parsed.to]),
         parsed.is # "segment" => Fail(parsed.error)
  PROVE  PathInv'
<1>1. input \in Seq(Bytes) /\ InputTerm \notin {"ws", "rel"}
  BY DEF StreamInv, ReaderOK, Plain
<1>2. UnitAt(p, start, z)
  BY <1>1, UnitIs
<1>3. /\ p \in Nat /\ start \in Nat /\ z \in Nat /\ InputEnd \in Nat
      /\ p <= start /\ start <= z /\ z <= InputEnd
      /\ z < InputEnd => FirstTerm(input, InputTerm, start, z)
  BY <1>2 DEF UnitAt
<1>4. z < InputEnd
  <2>1. Seen(input) \in Nat /\ Seen(input) <= InputEnd
    BY WithinSeen
  <2> HIDE DEF InputEnd
  <2> QED BY <1>3, <2>1
<1>5. (\A q \in p .. start-1 : At(input, q) = "ws") /\ At(input, start) # "ws"
  <2>1. p <= InputEnd /\ start < InputEnd
    <3> HIDE DEF InputEnd
    <3> QED BY <1>3, <1>4
  <2> HIDE DEF At, InputEnd
  <2> QED BY <1>3, <2>1, SkipWsBetween
<1>6. \A q \in base .. start-1 : At(input, q) = "ws"
  <2> HIDE DEF At
  <2> QED BY <1>3, <1>5
<1>7. /\ parsed.is = "segment" =>
           /\ WellFormed(input, InputTerm, start, z)
           /\ base + parsed.from = start /\ base + parsed.to = z + 1
      /\ WellFormed(input, InputTerm, start, z) => parsed.is = "segment"
      /\ parsed.is # "segment" =>
           /\ parsed.is = "error" /\ parsed.error # NoError
           /\ parsed.error.kind \notin LimitKinds
  <2>1. FirstTerm(input, InputTerm, start, z)
    BY <1>3, <1>4
  <2>2. parsed = ParseSegment(u, n, InputTerm, 0)
    OBVIOUS
  <2> HIDE DEF At
  <2> QED BY <1>3, <1>5, <1>6, <2>1, <2>2, PieceFound
<1>8. CASE parsed.is = "segment"
  <2>1. WellFormed(input, InputTerm, start, z) /\ consumed' = z + 1
    BY <1>7, <1>8
  <2>2. HandOut([from |-> start, to |-> z + 1])
    BY <1>7, <1>8
  <2> QED BY <1>3, <2>1, <2>2, HandOutPaths
<1>9. CASE parsed.is # "segment"
  <2>1. ~WellFormed(input, InputTerm, start, z) /\ parsed.error # NoError
        /\ parsed.error.kind \notin LimitKinds
    BY <1>7, <1>9
  <2>2. AgreesOn(parsed.error)
    <3>1. \A e : e # NoError /\ e.kind \notin LimitKinds => AgreesOn(e)
      BY <1>1, <2>1, AgreeOnWhole
    <3> QED BY <2>1, <3>1
  <2> QED BY <1>9, <2>2, FailPaths
<1> QED BY <1>8, <1>9

Going == StreamInv /\ PathInv /\ Running /\ Regular

LEMMA StepKeeps ==
  ASSUME Next
  PROVE  input' = input /\ (state' = "Done" \/ error' = error)
<1> USE DEF readerVars, Consume, Fail, End
<1>1. ASSUME NEW g, HandOut(g) PROVE state' = "Done" \/ error' = error
  BY <1>1 DEF HandOut
<1>2. ASSUME Finish(raw) PROVE state' = "Done" \/ error' = error
  BY <1>1, <1>2 DEF Finish
<1>3. FillBuf \/ FillFails => input' = input /\ (state' = "Done" \/ error' = error)
  BY DEF FillBuf, FillFails
<1>4. FastPath => input' = input /\ (state' = "Done" \/ error' = error)
  BY <1>1 DEF FastPath, FastEof, NeedMore, FastTooLong, FastOverBudget, FastSkip, FastParseError, FastSegment
<1>5. CASE StripBom
  BY <1>5 DEF StripBom
<1>6. CASE SlowOverBudget \/ SlowEof \/ SkipWhitespace \/ StrayTerminator \/ StartUna
           \/ StartSegment \/ ReadUna \/ UnaEof \/ SlowTooLong \/ ReadBody \/ BodyEof
  BY <1>6 DEF SlowOverBudget, SlowEof, SkipWhitespace, StrayTerminator, StartUna,
     StartSegment, ReadUna, UnaEof, SlowTooLong, ReadBody, BodyEof
<1>7. CASE AdoptUna
  BY <1>7 DEF AdoptUna
<1>8. CASE NotUna
  BY <1>2, <1>8 DEF NotUna
<1>9. CASE SlowSegment
  BY <1>2, <1>9 DEF SlowSegment
<1> QED BY <1>3, <1>4, <1>5, <1>6, <1>7, <1>8, <1>9 DEF Next, SlowPath

LEMMA IrregularPaths ==
  ASSUME PathInv, Running, ~Regular, Next
  PROVE  PathInv'
<1>1. input' = input /\ (state' = "Done" \/ error' = error)
  BY StepKeeps
<1>2. ~Regular'
  BY <1>1, InputStays
<1>3. Running' => error' = NoError
  BY <1>1 DEF PathInv, Running
<1> QED BY <1>2, <1>3 DEF PathInv, RegularPathsAgree

(* Where the two paths meet the slice's iterator: at the top.              *)
LEMMA TopIs ==
  ASSUME Going, AtTop
  PROVE  /\ term = InputTerm /\ Plain(InputTerm) /\ InputTerm \notin {"ws", "rel"}
         /\ StandsAt(consumed) /\ consumed \in UnitStarts \cup {InputEnd} /\ scanned
<1>1. state = "Running" /\ phase = "top"
  BY DEF AtTop
<1>2. scanned /\ Abreast
  BY <1>1 DEF Going, PathInv, Ahead
<1>3. PICK p : AbreastAt(p)
  BY <1>2 DEF Abreast
<1>4. p = consumed /\ StandsAt(p)
  BY <1>1, <1>3 DEF AbreastAt
<1> QED BY <1>2, <1>4 DEF Abreast, StandsAt, Plain

LEMMA FastEofPaths == ASSUME Going, FastEof PROVE PathInv'
<1>1. StreamInv /\ PathInv /\ Running /\ AtTop /\ AtEof /\ End
  BY DEF Going, FastEof
<1>2. StandsAt(consumed) /\ InputTerm \notin {"ws", "rel"}
  BY <1>1, TopIs
<1>3. /\ input \in Seq(Bytes) /\ consumed \in Nat /\ InputEnd \in Nat /\ Seen(input) \in Nat
      /\ Seen(input) <= InputEnd /\ consumed <= Seen(input)
      /\ Sliced!Truncated(input) <=> Seen(input) # InputEnd
  BY <1>1, WithinSeen
<1>4. consumed = InputEnd
  BY <1>1, <1>3 DEF AtEof, Left, InputEnd
<1> DEFINE start == SkipWs(input, consumed, InputEnd)
<1> HIDE DEF InputEnd
<1>5. start \in consumed .. InputEnd
  BY <1>3, <1>4, SkipWsBetween
<1>6. ~(start < Seen(input)) /\ ~Sliced!Truncated(input)
  BY <1>3, <1>4, <1>5
<1>7. AgreesOn(NoError)
  BY <1>2, <1>3, <1>6, AgreeOnNothing
<1> QED BY <1>1, <1>7, EndPaths

LEMMA NeedMorePaths == ASSUME Going, NeedMore PROVE PathInv'
<1>1. StreamInv /\ PathInv /\ Running /\ AtTop
  BY DEF Going, NeedMore
<1>2. /\ phase' = "lead" /\ input' = input /\ consumed' = consumed /\ state' = state /\ term' = term
      /\ budget' = budget /\ scanned' = scanned /\ segs' = segs /\ error' = error /\ ended' = ended
  BY DEF NeedMore, readerVars
<1>3. term = InputTerm /\ Plain(InputTerm) /\ StandsAt(consumed) /\ scanned
  BY <1>1, TopIs
<1>4. PICK p \in Nat : p = consumed
  BY <1>1, WithinSeen
<1>5. StandsAt(p)' /\ InputTerm' = InputTerm
  BY <1>2, <1>3, <1>4, StandsStays, InputStays
<1>6. AbreastAt(p)'
  BY <1>2, <1>4, <1>5 DEF AbreastAt
<1>7. Abreast'
  BY <1>2, <1>3, <1>5, <1>6 DEF Abreast, Plain
<1>8. Running'
  BY <1>1, <1>2 DEF Running
<1> QED BY <1>1, <1>2, <1>3, <1>7, <1>8, GoPaths

LEMMA FastFacts ==
  ASSUME Going, FastUnit,
         NEW start, start = SkipWs(input, consumed, InputEnd), NEW z, z = UnitEnd(consumed)
  PROVE  /\ StandsAt(consumed) /\ consumed \in UnitStarts
         /\ consumed \in Nat /\ start \in Nat /\ z \in Nat /\ InputEnd \in Nat /\ Seen(input) \in Nat
         /\ consumed <= start /\ start < z /\ z < InputEnd /\ Seen(input) <= InputEnd
         /\ Pos \in Nat /\ consumed + Pos = z
         /\ z - consumed > MaxSegmentBytes => start = consumed
         /\ FastOversized <=> z - consumed > MaxSegmentBytes /\ start + MaxSegmentBytes + 1 <= Seen(input)
         /\ AdmitsBytes(offset + Pos + 1) <=> z + 1 <= Seen(input)
         /\ PieceOf(Unit, Pos + 1, input, consumed)
         /\ SkipWs(Unit, 0, Pos) = start - consumed
<1>1. StreamInv /\ Regular /\ AtTop
  BY DEF Going, FastUnit
<1>2. /\ term = InputTerm /\ InputTerm \notin {"ws", "rel"} /\ StandsAt(consumed)
      /\ consumed \in UnitStarts \cup {InputEnd}
  BY <1>1, TopIs
<1>3. /\ consumed \in UnitStarts /\ UnitAt(consumed, start, z)
      /\ z < InputEnd /\ Pos \in Nat /\ consumed + Pos = z
      /\ PieceOf(Unit, Pos + 1, input, consumed)
      /\ SkipWs(Unit, 0, Pos) = start - consumed
  BY <1>1, <1>2, FastUnitIs
<1>4. /\ input \in Seq(Bytes) /\ consumed \in Nat /\ InputEnd \in Nat /\ Seen(input) \in Nat
      /\ Seen(input) <= InputEnd /\ offset = consumed
      /\ \A end \in Nat : end <= InputEnd => (AdmitsBytes(end) <=> end <= Seen(input))
      /\ \A end \in Nat : end <= InputEnd => (SeesByte(end) <=> end <= Seen(input))
  BY <1>1, WithinSeen
<1>5. start \in Nat /\ z \in Nat /\ consumed <= start
  BY <1>3 DEF UnitAt
<1>6. start < z /\ (z - consumed > MaxSegmentBytes => start = consumed)
  BY <1>1, <1>2, <1>3, <1>4, RegularUnit
<1>7. PICK pos \in Nat : pos = Pos
  BY <1>3
<1> HIDE DEF InputEnd
<1>8. AdmitsBytes(offset + Pos + 1) <=> z + 1 <= Seen(input)
  <2>1. offset + Pos + 1 = z + 1 /\ z + 1 \in Nat /\ z + 1 <= InputEnd
    BY <1>3, <1>4, <1>5, <1>7
  <2> QED BY <1>4, <2>1
<1>9. FastOversized <=> z - consumed > MaxSegmentBytes /\ start + MaxSegmentBytes + 1 <= Seen(input)
  <2>1. Pos = z - consumed
    BY <1>3, <1>4, <1>5, <1>7
  <2>2. DetectedAt = start + MaxSegmentBytes + 1
    <3>1. DetectedAt = offset + (start - consumed) + MaxSegmentBytes + 1
      BY <1>3 DEF DetectedAt
    <3> QED BY <1>4, <1>5, <3>1, SyntaxAssumption
  <2>3. ASSUME z - consumed > MaxSegmentBytes
        PROVE  SeesByte(DetectedAt) <=> start + MaxSegmentBytes + 1 <= Seen(input)
    <3>1. PICK w \in Nat : w = start + MaxSegmentBytes + 1
      BY <1>5, SyntaxAssumption
    <3>2. w <= InputEnd
      BY <1>3, <1>4, <1>5, <1>6, <2>3, <3>1, SyntaxAssumption
    <3> QED BY <1>4, <2>2, <3>1, <3>2
  <2> QED BY <2>1, <2>3 DEF FastOversized
<1> QED BY <1>2, <1>3, <1>4, <1>5, <1>6, <1>8, <1>9

LEMMA FastTooLongPaths == ASSUME Going, FastTooLong PROVE PathInv'
<1>1. StreamInv /\ PathInv /\ Running /\ Regular /\ AtTop /\ FastUnit /\ FastOversized
      /\ Fail(Error("SegmentTooLong", offset)) /\ input' = input /\ offset = consumed
      /\ input \in Seq(Bytes)
  BY DEF Going, FastTooLong, FastUnit, readerVars, StreamInv, ReaderOK
<1> DEFINE start == SkipWs(input, consumed, InputEnd)
           z == UnitEnd(consumed)
<1>2. InputTerm \notin {"ws", "rel"}
  BY <1>1, TopIs
<1>3. /\ StandsAt(consumed) /\ consumed \in UnitStarts
      /\ start \in Nat /\ z \in Nat /\ consumed \in Nat
      /\ z - consumed > MaxSegmentBytes => start = consumed
      /\ z - consumed > MaxSegmentBytes /\ start + MaxSegmentBytes + 1 <= Seen(input)
  BY <1>1, FastFacts
<1>4. start = consumed /\ z - start > MaxSegmentBytes
  BY <1>3
<1> HIDE DEF start, z
<1>5. AgreesOn(Error("SegmentTooLong", start))
  BY <1>1, <1>2, <1>3, <1>4, AgreeOnOverlong DEF start, z
<1> QED BY <1>1, <1>4, <1>5, FailPaths

LEMMA FastOverBudgetPaths == ASSUME Going, FastOverBudget PROVE PathInv'
<1>1. StreamInv /\ PathInv /\ Running /\ Regular /\ AtTop /\ FastUnit /\ ~FastOversized
      /\ ~AdmitsBytes(offset + Pos + 1)
      /\ Fail(BytesExceeded) /\ input' = input /\ input \in Seq(Bytes)
  BY DEF Going, FastOverBudget, FastUnit, readerVars, StreamInv, ReaderOK
<1> DEFINE start == SkipWs(input, consumed, InputEnd)
           z == UnitEnd(consumed)
<1>2. InputTerm \notin {"ws", "rel"}
  BY <1>1, TopIs
<1>3. /\ StandsAt(consumed) /\ consumed \in UnitStarts
      /\ start \in Nat /\ z \in Nat /\ consumed \in Nat /\ InputEnd \in Nat /\ Seen(input) \in Nat
      /\ consumed <= start /\ start < z /\ z < InputEnd
      /\ z - consumed > MaxSegmentBytes => start = consumed
      /\ ~(z - consumed > MaxSegmentBytes /\ start + MaxSegmentBytes + 1 <= Seen(input))
      /\ ~(z + 1 <= Seen(input))
  BY <1>1, FastFacts
<1> HIDE DEF start, z, InputEnd
<1>4. Seen(input) <= z /\ Seen(input) # InputEnd /\ start + MaxSegmentBytes + 1 > Seen(input)
  BY <1>3, SyntaxAssumption
<1>5. Sliced!Truncated(input)
  BY <1>1, <1>4, WithinSeen
<1>6. AgreesOn(BytesExceeded)
  <2>1. CASE start < Seen(input)
    BY <1>1, <1>2, <1>3, <1>4, <1>5, <2>1, AgreeOnUnterminated DEF start, z
  <2>2. CASE ~(start < Seen(input))
    BY <1>1, <1>3, <1>5, <2>2, AgreeOnNothing DEF start
  <2> QED BY <2>1, <2>2
<1> QED BY <1>1, <1>6, FailPaths

LEMMA FastAdmittedIs ==
  ASSUME Going, FastAdmitted,
         NEW start, start = SkipWs(input, consumed, InputEnd), NEW z, z = UnitEnd(consumed)
  PROVE  ~Blank /\ z < Seen(input) /\ z - start <= MaxSegmentBytes
<1>1. FastUnit /\ ~FastOversized /\ AdmitsBytes(offset + Pos + 1)
  BY DEF FastAdmitted
<1>2. /\ start \in Nat /\ z \in Nat /\ consumed \in Nat /\ Seen(input) \in Nat
      /\ consumed <= start /\ start < z
      /\ Pos \in Nat /\ consumed + Pos = z
      /\ z - consumed > MaxSegmentBytes => start = consumed
      /\ ~(z - consumed > MaxSegmentBytes /\ start + MaxSegmentBytes + 1 <= Seen(input))
      /\ z + 1 <= Seen(input)
      /\ SkipWs(Unit, 0, Pos) = start - consumed
  BY <1>1, FastFacts
<1>3. PICK pos \in Nat : pos = Pos
  BY <1>2
<1>4. z < Seen(input) /\ z - start <= MaxSegmentBytes
  BY <1>2, SyntaxAssumption
<1>5. ~Blank
  <2>1. start - consumed # pos
    BY <1>2, <1>3
  <2> QED BY <1>2, <1>3, <2>1 DEF Blank
<1> QED BY <1>4, <1>5

LEMMA FastSkipPaths == ASSUME Going, FastSkip PROVE PathInv'
BY FastAdmittedIs DEF FastSkip

LEMMA FastParsePaths == ASSUME Going, FastParseError \/ FastSegment PROVE PathInv'
<1> DEFINE start == SkipWs(input, consumed, InputEnd)
           z == UnitEnd(consumed)
<1>1. StreamInv /\ PathInv /\ Running /\ FastAdmitted /\ FastUnit /\ AtTop /\ offset = consumed
  BY DEF Going, FastParseError, FastSegment, FastAdmitted, FastUnit, StreamInv, ReaderOK
<1>2. input' = input
  BY DEF FastParseError, FastSegment, readerVars, Consume
<1>3. term = InputTerm /\ Plain(InputTerm)
  BY <1>1, TopIs
<1>4. /\ StandsAt(consumed) /\ consumed \in UnitStarts /\ consumed \in Nat
      /\ consumed <= start /\ start < z /\ start \in Nat /\ z \in Nat
      /\ Pos \in Nat /\ consumed + Pos = z /\ PieceOf(Unit, Pos + 1, input, consumed)
  BY <1>1, FastFacts
<1>5. z < Seen(input) /\ z - start <= MaxSegmentBytes
  BY <1>1, FastAdmittedIs
<1>6. PICK n \in Nat : n = Pos + 1
  BY <1>4
<1> DEFINE parsed == ParseSegment(Unit, n, term, 0)
<1>7. parsed = FastParsed
  BY <1>6 DEF FastParsed
<1> HIDE DEF start, z, parsed
<1>8. consumed + n = z + 1
  BY <1>4, <1>6
<1>9. parsed.is = "segment" =>
        consumed' = z + 1 /\ HandOut([from |-> consumed + parsed.from, to |-> consumed + parsed.to])
  <2>1. ASSUME parsed.is = "segment" PROVE FastSegment
    BY <1>7, <2>1 DEF FastParseError
  <2>2. ASSUME FastSegment PROVE consumed' = z + 1
    <3>1. consumed' = consumed + (Pos + 1)
      BY <2>2 DEF FastSegment, Consume
    <3> QED BY <1>6, <1>8, <3>1
  <2>3. ASSUME FastSegment
        PROVE  HandOut([from |-> consumed + parsed.from, to |-> consumed + parsed.to])
    BY <1>1, <1>7, <2>3 DEF FastSegment
  <2> QED BY <2>1, <2>2, <2>3
<1>10. parsed.is # "segment" => Fail(parsed.error)
  BY <1>7 DEF FastParseError, FastSegment
<1>11. PieceOf(Unit, n, input, consumed) /\ consumed <= consumed /\ z + 1 = consumed + n
  BY <1>4, <1>6, <1>8
<1> QED BY <1>1, <1>2, <1>3, <1>4, <1>5, <1>9, <1>10, <1>11, ParsedPaths DEF start, z, parsed

(* The slow path is inside the unit at p, which is not over yet.           *)
BodyAt(p) ==
  /\ p \in Nat /\ StandsAt(p) /\ p \in UnitStarts /\ term = InputTerm /\ Plain(InputTerm)
  /\ rawStart = SkipWs(input, p, InputEnd) /\ p <= rawStart /\ rawStart < consumed
  /\ consumed <= UnitEnd(p) /\ UnitEnd(p) \in Nat
  /\ UnescapedTerms(input, rawStart, consumed, InputTerm) = {}

LEMMA BodyBegun ==
  ASSUME StreamInv, NEW p, StandsAt(p), term = InputTerm, Plain(InputTerm),
         rawStart = SkipWs(input, p, InputEnd), rawStart < consumed, p <= consumed,
         UnescapedTerms(input, rawStart, consumed, InputTerm) = {}
  PROVE  BodyAt(p)
<1>1. /\ input \in Seq(Bytes) /\ consumed \in Nat /\ InputEnd \in Nat /\ consumed <= InputEnd
      /\ rawStart \in Nat
  BY WithinSeen DEF StreamInv, SlowOK
<1>2. p \in Nat /\ (p # InputEnd => p \in UnitStarts)
  BY <1>1, StandsWithin
<1>3. rawStart \in p .. InputEnd
  <2> HIDE DEF InputEnd
  <2>1. p <= InputEnd
    BY <1>1, <1>2
  <2> QED BY <1>1, <1>2, <2>1, SkipWsBetween
<1>4. p \in UnitStarts /\ p <= rawStart
  <2> HIDE DEF InputEnd
  <2> QED BY <1>1, <1>2, <1>3
<1>5. InputTerm \notin {"ws", "rel"}
  BY DEF Plain
<1> DEFINE z == UnitEnd(p)
<1>6. consumed <= z
  BY <1>1, <1>4, <1>5, EndNotBefore
<1>7. z \in Nat
  BY <1>1, <1>4, <1>5, UnitIs DEF UnitAt
<1> QED BY <1>2, <1>4, <1>6, <1>7 DEF BodyAt

LEMMA BodyIs ==
  ASSUME Going, phase = "body"
  PROVE  scanned /\ \E p : BodyAt(p)
<1>1. StreamInv /\ scanned /\ Abreast
  BY DEF Going, PathInv, Ahead
<1>2. PICK p : AbreastAt(p)
  BY <1>1 DEF Abreast
<1>3. BodyAt(p)
  BY <1>1, <1>2, BodyBegun DEF AbreastAt, Abreast
<1> QED BY <1>1, <1>3

(* The bytes held are those since the first of the unit.                   *)
LEMMA RawIs ==
  ASSUME Going, phase \in {"una", "body"}
  PROVE  /\ consumed \in Nat /\ rawStart \in Nat /\ rawStart <= consumed
         /\ Len(raw) \in Nat /\ Len(raw) = consumed - rawStart
         /\ PieceOf(raw, consumed - rawStart, input, rawStart)
         /\ Escaped(raw, 0, Len(raw)) <=> Escaped(input, rawStart, consumed)
<1>1. /\ input \in Seq(Bytes) /\ consumed \in Nat /\ rawStart \in Nat /\ rawStart <= consumed
      /\ raw = Slice(input, rawStart, consumed) /\ raw \in Seq(Bytes) /\ consumed <= Len(input)
  <2>1. StreamInv /\ state # "Done"
    BY DEF Going, Running
  <2>2. rawStart <= consumed /\ raw = Slice(input, rawStart, consumed) /\ rawStart \in Nat
        /\ raw \in Seq(Bytes)
    BY <2>1 DEF StreamInv, SlowOK
  <2>3. input \in Seq(Bytes) /\ consumed \in 0..Len(input) /\ Len(input) \in Nat
    BY <2>1 DEF StreamInv, ReaderOK
  <2> QED BY <2>2, <2>3
<1>2. PICK n \in Nat : n = consumed - rawStart
  BY <1>1
<1>3. PieceOf(raw, n, input, rawStart)
  BY <1>1, <1>2, SlicePiece
<1>4. Len(raw) = n
  <2>1. raw = SubSeq(input, rawStart + 1, consumed)
    BY <1>1 DEF Slice
  <2> QED BY <1>1, <1>2, <2>1
<1>5. Escaped(raw, 0, n) <=> Escaped(input, rawStart, consumed)
  <2>1. Escaped(raw, 0, n) <=> Escaped(input, rawStart + 0, rawStart + n)
    <3>1. 0 \in Nat /\ n \in 0 .. n
      OBVIOUS
    <3> QED BY <1>1, <1>3, <3>1, EscapedShift
  <2>2. rawStart + 0 = rawStart /\ rawStart + n = consumed
    BY <1>1, <1>2
  <2> QED BY <2>1, <2>2
<1> QED BY <1>1, <1>2, <1>3, <1>4, <1>5

(* The unit breaks off where the slice's iterator stops seeing it.         *)
LEMMA BodyBreaks ==
  ASSUME Going, NEW p, BodyAt(p), consumed = Seen(input), consumed - rawStart <= MaxSegmentBytes
  PROVE  /\ Sliced!Truncated(input) => AgreesOn(BytesExceeded)
         /\ ~Sliced!Truncated(input) => \A e : e # NoError /\ e.kind \notin LimitKinds => AgreesOn(e)
<1>1. input \in Seq(Bytes) /\ consumed \in Nat /\ rawStart \in Nat
  BY WithinSeen DEF Going, StreamInv, SlowOK
<1>2. /\ InputTerm \notin {"ws", "rel"} /\ StandsAt(p) /\ p \in UnitStarts
      /\ rawStart = SkipWs(input, p, InputEnd) /\ rawStart < consumed /\ consumed <= UnitEnd(p)
  BY DEF BodyAt, Plain
<1>3. rawStart < Seen(input) /\ rawStart + MaxSegmentBytes + 1 > Seen(input)
      /\ Seen(input) <= UnitEnd(p)
  BY <1>1, <1>2, SyntaxAssumption
<1> QED BY <1>1, <1>2, <1>3, AgreeOnUnterminated

LEMMA BodyOverlong ==
  ASSUME Going, NEW p, BodyAt(p), consumed - rawStart > MaxSegmentBytes
  PROVE  AgreesOn(Error("SegmentTooLong", rawStart))
<1>1. /\ input \in Seq(Bytes) /\ consumed \in Nat /\ rawStart \in Nat /\ Regular
      /\ consumed <= Seen(input) /\ Seen(input) \in Nat
  BY WithinSeen DEF Going, StreamInv, SlowOK
<1>2. /\ InputTerm \notin {"ws", "rel"} /\ StandsAt(p) /\ p \in UnitStarts
      /\ rawStart = SkipWs(input, p, InputEnd) /\ consumed <= UnitEnd(p) /\ UnitEnd(p) \in Nat
  BY DEF BodyAt, Plain
<1>3. rawStart + MaxSegmentBytes + 1 <= Seen(input) /\ UnitEnd(p) - rawStart > MaxSegmentBytes
  BY <1>1, <1>2, SyntaxAssumption
<1> QED BY <1>1, <1>2, <1>3, AgreeOnOverlong

(* It goes on with a byte that does not end it.                            *)
LEMMA BodyReads ==
  ASSUME Going, Reads, NEW p, StandsAt(p), term = InputTerm, Plain(InputTerm),
         NEW start, start = SkipWs(input, p, InputEnd), p <= start, start <= consumed,
         UnescapedTerms(input, start, consumed, InputTerm) = {},
         Byte # term \/ Escaped(input, start, consumed),
         Consume(1), phase' = "body", rawStart' = start, scanned', state' = state, term' = term,
         budget' = budget, segs' = segs, error' = error, ended' = ended
  PROVE  PathInv'
<1>1. /\ input \in Seq(Bytes) /\ consumed \in Nat /\ StreamInv /\ PathInv /\ Running
      /\ InputEnd \in Nat
  BY WithinSeen DEF Going
<1>2. input' = input /\ consumed' = consumed + 1
  BY DEF Consume
<1>3. p \in Nat /\ start \in Nat
  <2>1. p \in Nat /\ p \in 0..Seen(input) /\ Seen(input) \in Nat /\ Seen(input) <= InputEnd
    BY <1>1, StandsWithin
  <2> HIDE DEF InputEnd
  <2>2. start \in p .. InputEnd
    BY <1>1, <2>1, SkipWsBetween
  <2> QED BY <1>1, <2>1, <2>2
<1>4. PICK w \in Nat : w = consumed + 1
  BY <1>1
<1>5. UnescapedTerms(input, start, w, InputTerm) = {}
  <2> SUFFICES ASSUME NEW q \in UnescapedTerms(input, start, w, InputTerm) PROVE FALSE
    OBVIOUS
  <2>1. q \in start .. w-1 /\ At(input, q) = InputTerm /\ ~Escaped(input, start, q)
    BY DEF UnescapedTerms
  <2>2. q \in Int /\ (q = consumed \/ q \in start .. consumed-1)
    <3> HIDE DEF At
    <3> QED BY <1>1, <1>3, <1>4, <2>1
  <2>3. CASE q = consumed
    <3>1. Byte = At(input, q)
      BY <2>3 DEF Byte
    <3> QED BY <2>1, <2>3, <3>1
  <2>4. CASE q \in start .. consumed-1
    BY <2>1, <2>4 DEF UnescapedTerms
  <2> QED BY <2>2, <2>3, <2>4
<1>6. StandsAt(p)' /\ InputEnd' = InputEnd /\ InputTerm' = InputTerm
  BY <1>2, StandsStays, InputStays
<1>7. AbreastAt(p)'
  <2>1. start < w /\ p <= w
    BY <1>1, <1>3, <1>4
  <2> QED BY <1>2, <1>3, <1>4, <1>5, <1>6, <2>1 DEF AbreastAt
<1>8. Abreast'
  BY <1>6, <1>7 DEF Abreast, Plain
<1>9. Running'
  BY <1>1 DEF Running
<1> QED BY <1>1, <1>2, <1>8, <1>9, GoPaths

(* A byte that may be read is one the slice's iterator sees.               *)
LEMMA ReadsIs ==
  ASSUME StreamInv, Reads
  PROVE  /\ consumed \in Nat /\ consumed + 1 <= Seen(input) /\ consumed < InputEnd
         /\ Seen(input) \in Nat /\ InputEnd \in Nat /\ Seen(input) <= InputEnd /\ Running
<1>1. /\ consumed \in Nat /\ InputEnd \in Nat /\ offset = consumed
      /\ Seen(input) \in Nat /\ Seen(input) <= InputEnd
      /\ \A end \in Nat : end <= InputEnd => (SeesByte(end) <=> end <= Seen(input))
  BY WithinSeen
<1>2. consumed < InputEnd
  BY ByteAtHand DEF InputEnd
<1> HIDE DEF InputEnd
<1>3. PICK w \in Nat : w = consumed + 1
  BY <1>1
<1>4. w <= InputEnd /\ SeesByte(w)
  BY <1>1, <1>2, <1>3 DEF Reads
<1>5. w <= Seen(input)
  BY <1>1, <1>4
<1> QED BY <1>1, <1>2, <1>3, <1>5 DEF Reads, Ready

(* Where the budget refuses the next byte, or the input ends.              *)
LEMMA RefusedIs ==
  ASSUME StreamInv, Ready, Refused
  PROVE  consumed = Seen(input) /\ Sliced!Truncated(input)
<1>1. /\ consumed \in Nat /\ InputEnd \in Nat /\ offset = consumed /\ avail \in Nat
      /\ consumed <= Seen(input) /\ Seen(input) \in Nat /\ Seen(input) <= InputEnd
      /\ consumed + avail <= InputEnd
      /\ \A end \in Nat : end <= InputEnd => (SeesByte(end) <=> end <= Seen(input))
      /\ Sliced!Truncated(input) <=> Seen(input) # InputEnd
  BY WithinSeen
<1>2. avail > 0 \/ Left = 0
  BY DEF Ready
<1>3. avail # 0
  BY <1>1, <1>2 DEF Refused, AtEof
<1> HIDE DEF InputEnd
<1>4. PICK w \in Nat : w = consumed + 1
  BY <1>1
<1>5. w <= InputEnd
  BY <1>1, <1>3, <1>4
<1>6. ~(w <= Seen(input))
  BY <1>1, <1>4, <1>5 DEF Refused
<1> QED BY <1>1, <1>4, <1>5, <1>6

LEMMA EofIs ==
  ASSUME StreamInv, AtEof
  PROVE  consumed = Seen(input) /\ ~Sliced!Truncated(input) /\ consumed = InputEnd
<1>1. /\ consumed \in Nat /\ InputEnd \in Nat
      /\ consumed <= Seen(input) /\ Seen(input) \in Nat /\ Seen(input) <= InputEnd
      /\ Sliced!Truncated(input) <=> Seen(input) # InputEnd
  BY WithinSeen
<1>2. consumed = InputEnd
  BY <1>1 DEF AtEof, Left, InputEnd
<1> HIDE DEF InputEnd
<1> QED BY <1>1, <1>2

(* The unit ends with its terminator, and what is held is parsed.          *)
LEMMA BodyFinishes ==
  ASSUME Going, Reads, phase \in {"una", "body"}, NEW p, BodyAt(p), Byte = term,
         ~Escaped(raw, 0, Len(raw)), Len(raw) <= MaxSegmentBytes, Consume(1), Finish(raw)
  PROVE  PathInv'
<1>1. StreamInv /\ PathInv /\ Running /\ input' = input /\ input \in Seq(Bytes)
  BY DEF Going, Consume, StreamInv, ReaderOK
<1>2. /\ p \in Nat /\ StandsAt(p) /\ p \in UnitStarts /\ term = InputTerm /\ Plain(InputTerm)
      /\ rawStart = SkipWs(input, p, InputEnd) /\ p <= rawStart /\ rawStart < consumed
      /\ UnescapedTerms(input, rawStart, consumed, InputTerm) = {}
      /\ InputTerm \notin {"ws", "rel"}
  BY DEF BodyAt, Plain
<1>3. /\ consumed \in Nat /\ rawStart \in Nat
      /\ Len(raw) \in Nat /\ Len(raw) = consumed - rawStart
      /\ Escaped(raw, 0, Len(raw)) <=> Escaped(input, rawStart, consumed)
  BY RawIs
<1>4. consumed + 1 <= Seen(input) /\ consumed < InputEnd /\ InputEnd \in Nat /\ Seen(input) \in Nat
  BY <1>1, ReadsIs
<1>5. PICK w \in Nat : w = consumed + 1
  BY <1>3
<1>6. /\ consumed \in UnescapedTerms(input, rawStart, w, InputTerm)
      /\ \A r \in UnescapedTerms(input, rawStart, w, InputTerm) : consumed <= r
  <2>1. consumed \in rawStart .. w-1
    BY <1>2, <1>3, <1>5
  <2>2. At(input, consumed) = InputTerm /\ ~Escaped(input, rawStart, consumed)
    BY <1>2, <1>3 DEF Byte
  <2>3. ASSUME NEW r \in UnescapedTerms(input, rawStart, w, InputTerm), ~(consumed <= r) PROVE FALSE
    <3>1. r \in rawStart .. w-1 /\ At(input, r) = InputTerm /\ ~Escaped(input, rawStart, r)
      BY DEF UnescapedTerms
    <3>2. r \in rawStart .. consumed-1
      <4> HIDE DEF At
      <4> QED BY <1>3, <1>5, <2>3, <3>1
    <3>3. r \in UnescapedTerms(input, rawStart, consumed, InputTerm)
      BY <3>1, <3>2 DEF UnescapedTerms
    <3> QED BY <1>2, <3>3
  <2>4. consumed \in UnescapedTerms(input, rawStart, w, InputTerm)
    BY <2>1, <2>2 DEF UnescapedTerms
  <2> QED BY <2>3, <2>4
<1> DEFINE z == UnitEnd(p)
           n == Len(raw) + 1
           u == Append(raw, term)
           parsed == ParseSegment(u, n, term, 0)
<1>7. consumed = z
  <2>1. w <= InputEnd
    <3> HIDE DEF InputEnd
    <3> QED BY <1>3, <1>4, <1>5
  <2> HIDE DEF z
  <2>2. z = UnitEnd(p)
    BY DEF z
  <2> QED BY <1>1, <1>2, <1>5, <1>6, <2>1, <2>2, TermFixesEnd
<1>8. PieceOf(u, n, input, rawStart)
  BY <1>1, RawIsAPiece
<1>9. n \in Nat /\ z + 1 = rawStart + n /\ z < Seen(input) /\ z - rawStart <= MaxSegmentBytes
      /\ rawStart < z /\ rawStart <= rawStart
  <2> HIDE DEF z
  <2> QED BY <1>2, <1>3, <1>4, <1>7
<1>10. consumed' = z + 1
  BY <1>7 DEF Consume
<1>11. /\ parsed.is = "segment" =>
            HandOut([from |-> rawStart + parsed.from, to |-> rawStart + parsed.to])
       /\ parsed.is # "segment" => Fail(parsed.error)
  BY DEF Finish
<1> HIDE DEF z, n, u, parsed
<1> QED BY <1>1, <1>2, <1>3, <1>8, <1>9, <1>10, <1>11, ParsedPaths DEF z, parsed

(* Between two segments the slow path has skipped whitespace only.         *)
LEMMA LeadIs ==
  ASSUME StreamInv, NEW p, StandsAt(p), p <= consumed,
         \A q \in p .. consumed-1 : At(input, q) = "ws",
         NEW start, start = SkipWs(input, p, InputEnd)
  PROVE  /\ p \in Nat /\ start \in Nat /\ consumed \in Nat /\ p <= start /\ consumed <= start
         /\ consumed < InputEnd /\ Byte # "ws" => start = consumed
<1>1. /\ input \in Seq(Bytes) /\ consumed \in Nat /\ InputEnd \in Nat /\ consumed <= InputEnd
  BY WithinSeen
<1>2. p \in Nat /\ p <= Seen(input) /\ Seen(input) <= InputEnd /\ Seen(input) \in Nat
  BY <1>1, StandsWithin
<1> HIDE DEF InputEnd, At
<1>3. start \in p .. InputEnd /\ (\A q \in p .. start-1 : At(input, q) = "ws")
      /\ (start < InputEnd => At(input, start) # "ws")
  BY <1>1, <1>2, SkipWsBetween
<1>4. consumed <= start
  <2> SUFFICES ASSUME ~(consumed <= start) PROVE FALSE
    OBVIOUS
  <2>1. start \in p .. consumed-1 /\ start < InputEnd
    BY <1>1, <1>2, <1>3
  <2> QED BY <1>3, <2>1
<1>5. ASSUME consumed < InputEnd, Byte # "ws" PROVE start = consumed
  <2> SUFFICES ASSUME consumed # start PROVE FALSE
    OBVIOUS
  <2>1. consumed \in p .. start-1
    BY <1>1, <1>2, <1>3, <1>4
  <2> QED BY <1>3, <1>5, <2>1 DEF Byte
<1> QED BY <1>1, <1>2, <1>3, <1>4, <1>5

LEMMA NoStray ==
  ASSUME StreamInv, Regular, Reads, NEW p, StandsAt(p), term = InputTerm, Plain(InputTerm),
         consumed = SkipWs(input, p, InputEnd), p <= consumed, Byte = term
  PROVE  FALSE
<1>1. /\ input \in Seq(Bytes) /\ consumed \in Nat /\ InputEnd \in Nat /\ consumed < InputEnd
      /\ InputTerm \notin {"ws", "rel"}
  BY ReadsIs DEF StreamInv, ReaderOK, Plain
<1>2. p \in Nat /\ p \in UnitStarts
  <2>1. p \in Nat /\ (p # InputEnd => p \in UnitStarts)
    BY <1>1, StandsWithin
  <2> HIDE DEF InputEnd
  <2> QED BY <1>1, <2>1
<1>3. PICK w \in Nat : w = consumed + 1
  BY <1>1
<1>4. /\ consumed \in UnescapedTerms(input, consumed, w, InputTerm)
      /\ \A r \in UnescapedTerms(input, consumed, w, InputTerm) : consumed <= r
  <2>1. consumed \in consumed .. w-1 /\ At(input, consumed) = InputTerm
    BY <1>1, <1>3 DEF Byte
  <2>2. ~Escaped(input, consumed, consumed)
    BY <1>1 DEF Escaped
  <2>3. \A r \in consumed .. w-1 : consumed <= r
    BY <1>1, <1>3
  <2> QED BY <2>1, <2>2, <2>3 DEF UnescapedTerms
<1> DEFINE z == UnitEnd(p)
<1>5. w <= InputEnd
  <2> HIDE DEF InputEnd
  <2> QED BY <1>1, <1>3
<1> HIDE DEF z
<1>6. consumed = z /\ z < InputEnd
  BY <1>1, <1>2, <1>4, <1>5, TermFixesEnd DEF z
<1>7. consumed < z
  BY <1>1, <1>2, <1>6, RegularUnit DEF z
<1> QED BY <1>1, <1>6, <1>7

(* The steps of the slow path from the header on.                          *)
LEMMA LeadPaths ==
  ASSUME Going, scanned, phase = "lead",
         SlowOverBudget \/ SlowEof \/ SkipWhitespace \/ StrayTerminator \/ StartSegment
  PROVE  PathInv'
<1>1. StreamInv /\ PathInv /\ Running /\ Regular /\ Abreast /\ input \in Seq(Bytes)
      /\ offset = consumed
  BY DEF Going, PathInv, StreamInv, ReaderOK
<1>2. PICK p : AbreastAt(p)
  BY <1>1 DEF Abreast
<1>3. /\ StandsAt(p) /\ p <= consumed /\ (\A q \in p .. consumed-1 : At(input, q) = "ws")
      /\ term = InputTerm /\ Plain(InputTerm)
  BY <1>1, <1>2 DEF AbreastAt, Abreast
<1> DEFINE start == SkipWs(input, p, InputEnd)
<1>4. /\ p \in Nat /\ start \in Nat /\ consumed \in Nat /\ p <= start /\ consumed <= start
      /\ consumed < InputEnd /\ Byte # "ws" => start = consumed
  BY <1>1, <1>3, LeadIs
<1>5. ASSUME consumed = Seen(input)
      PROVE  /\ Sliced!Truncated(input) => AgreesOn(BytesExceeded)
             /\ ~Sliced!Truncated(input) => AgreesOn(NoError)
  <2>1. ~(start < Seen(input))
    <3> HIDE DEF start
    <3> QED BY <1>4, <1>5
  <2> QED BY <1>1, <1>3, <2>1, AgreeOnNothing
<1>6. CASE SlowOverBudget
  <2>1. Ready /\ Refused /\ input' = input /\ Fail(BytesExceeded)
    BY <1>6 DEF SlowOverBudget, readerVars
  <2>2. AgreesOn(BytesExceeded)
    BY <1>1, <1>5, <2>1, RefusedIs
  <2> QED BY <1>1, <2>1, <2>2, FailPaths
<1>7. CASE SlowEof
  <2>1. AtEof /\ End
    BY <1>7 DEF SlowEof
  <2>2. AgreesOn(NoError)
    BY <1>1, <1>5, <2>1, EofIs
  <2> QED BY <1>1, <2>1, <2>2, EndPaths
<1>8. CASE SkipWhitespace
  <2>1. /\ input' = input /\ consumed' = consumed + 1 /\ state' = state /\ term' = term /\ phase' = phase
        /\ budget' = budget /\ scanned' = scanned /\ segs' = segs /\ error' = error /\ ended' = ended
        /\ Byte = "ws"
    BY <1>8 DEF SkipWhitespace, Consume, slowVars
  <2>2. StandsAt(p)' /\ InputTerm' = InputTerm
    BY <1>3, <2>1, StandsStays, InputStays
  <2>3. PICK w \in Nat : w = consumed + 1
    BY <1>4
  <2>4. \A q \in p .. w-1 : At(input, q) = "ws"
    <3> SUFFICES ASSUME NEW q \in p .. w-1 PROVE At(input, q) = "ws"
      OBVIOUS
    <3>1. q = consumed \/ q \in p .. consumed-1
      BY <1>4, <2>3
    <3> QED BY <1>3, <2>1, <3>1 DEF Byte
  <2>5. AbreastAt(p)'
    <3>1. p <= w
      BY <1>3, <1>4, <2>3
    <3> HIDE DEF At
    <3>2. consumed' = w /\ phase' = "lead"
      BY <2>1, <2>3
    <3>3. \A q \in p .. consumed' - 1 : At(input', q) = "ws"
      BY <2>1, <2>4, <3>2
    <3>4. (\A q \in p .. consumed - 1 : At(input, q) = "ws")'
      BY <3>3 DEF At
    <3> QED BY <1>4, <2>2, <3>1, <3>2, <3>4 DEF AbreastAt
  <2>6. Abreast'
    BY <1>3, <2>1, <2>2, <2>5 DEF Abreast, Plain
  <2>7. Running'
    BY <1>1, <2>1 DEF Running
  <2> QED BY <1>1, <2>1, <2>6, <2>7, GoPaths
<1>9. ASSUME Reads, Byte # "ws" PROVE start = consumed
  BY <1>1, <1>4, <1>9, ReadsIs
<1>10. CASE StrayTerminator
  <2>1. Reads /\ Byte = term /\ Byte # "ws"
    BY <1>3, <1>10 DEF StrayTerminator, Plain
  <2>2. consumed = SkipWs(input, p, InputEnd)
    BY <1>9, <2>1
  <2> QED BY <1>1, <1>3, <2>1, <2>2, NoStray
<1>11. CASE StartSegment
  <2>1. Reads /\ Byte # "ws" /\ Byte # term /\ Consume(1) /\ phase' = "body" /\ rawStart' = offset
        /\ scanned' /\ state' = state /\ term' = term /\ budget' = budget /\ segs' = segs
        /\ error' = error /\ ended' = ended
    BY <1>11 DEF StartSegment
  <2>2. start = consumed
    BY <1>9, <2>1
  <2>3. UnescapedTerms(input, start, consumed, InputTerm) = {}
    BY <1>4, <2>2 DEF UnescapedTerms
  <2> HIDE DEF start
  <2>4. p <= start /\ start <= consumed /\ rawStart' = start
    BY <1>1, <1>4, <2>1, <2>2
  <2> QED BY <1>3, <2>1, <2>3, <2>4, BodyReads DEF start
<1> QED BY <1>6, <1>7, <1>8, <1>10, <1>11

LEMMA BodyPaths ==
  ASSUME Going, phase = "body", SlowOverBudget \/ SlowTooLong \/ ReadBody \/ SlowSegment \/ BodyEof
  PROVE  PathInv'
<1>1. StreamInv /\ PathInv /\ Running /\ scanned
  BY BodyIs DEF Going
<1>2. PICK p : BodyAt(p)
  BY BodyIs
<1>3. /\ consumed \in Nat /\ rawStart \in Nat /\ Len(raw) \in Nat /\ Len(raw) = consumed - rawStart
      /\ Escaped(raw, 0, Len(raw)) <=> Escaped(input, rawStart, consumed)
  BY RawIs
<1>4. Oversized <=> consumed - rawStart > MaxSegmentBytes
  BY <1>3 DEF Oversized
<1>5. ~Oversized => consumed - rawStart <= MaxSegmentBytes /\ Len(raw) <= MaxSegmentBytes
  BY <1>3, SyntaxAssumption DEF Oversized
<1>6. CASE SlowOverBudget
  <2>1. Ready /\ Refused /\ input' = input /\ Fail(BytesExceeded) /\ ~Oversized
    BY <1>6 DEF SlowOverBudget, readerVars
  <2>2. AgreesOn(BytesExceeded)
    BY <1>1, <1>2, <1>5, <2>1, RefusedIs, BodyBreaks
  <2> QED BY <1>1, <2>1, <2>2, FailPaths
<1>7. CASE SlowTooLong
  <2>1. Oversized /\ Fail(Error("SegmentTooLong", rawStart)) /\ input' = input
    BY <1>7 DEF SlowTooLong, readerVars
  <2>2. AgreesOn(Error("SegmentTooLong", rawStart))
    BY <1>2, <1>4, <2>1, BodyOverlong
  <2> QED BY <1>1, <2>1, <2>2, FailPaths
<1>8. CASE ReadBody
  <2>1. Reads /\ (Byte # term \/ Escaped(input, rawStart, consumed)) /\ Consume(1)
        /\ phase' = "body" /\ rawStart' = rawStart /\ scanned' /\ state' = state /\ term' = term
        /\ budget' = budget /\ segs' = segs /\ error' = error /\ ended' = ended
    BY <1>1, <1>3, <1>8 DEF ReadBody, EscapedNext
  <2>2. /\ StandsAt(p) /\ term = InputTerm /\ Plain(InputTerm)
        /\ rawStart = SkipWs(input, p, InputEnd) /\ p <= rawStart /\ rawStart <= consumed
        /\ UnescapedTerms(input, rawStart, consumed, InputTerm) = {}
    BY <1>2, <1>3 DEF BodyAt
  <2> QED BY <2>1, <2>2, BodyReads
<1>9. CASE SlowSegment
  <2>1. Reads /\ Byte = term /\ ~Escaped(raw, 0, Len(raw)) /\ Consume(1) /\ Finish(raw) /\ ~Oversized
    BY <1>9 DEF SlowSegment, EscapedNext
  <2> QED BY <1>2, <1>5, <2>1, BodyFinishes
<1>10. CASE BodyEof
  <2>1. AtEof /\ input' = input /\ ~Oversized
    BY <1>10 DEF BodyEof, readerVars
  <2>2. PICK e : Fail(e) /\ e.kind \in {"InvalidReleaseSequence", "UnexpectedEof"}
    <3>1. \A k, off : Error(k, off).kind = k
      BY DEF Error
    <3> QED BY <1>10, <3>1 DEF BodyEof
  <2>3. e # NoError /\ e.kind \notin LimitKinds
    BY <2>2 DEF NoError, Error, LimitKinds
  <2>4. AgreesOn(e)
    BY <1>1, <1>2, <1>5, <2>1, <2>3, EofIs, BodyBreaks
  <2> QED BY <1>1, <2>1, <2>2, <2>4, FailPaths
<1> QED BY <1>6, <1>7, <1>8, <1>9, <1>10

(* What the two paths need of the configuration to agree.                  *)
Comparable == MaxSegmentBytes >= 2 /\ Advice \notin {"ws", "rel", "U", "N"}

LEMMA StartIs ==
  ASSUME input \in Seq(Bytes)
  PROVE  /\ Start \in Nat /\ MarkEnd \in Nat /\ InputEnd \in Nat
         /\ MarkEnd <= Start /\ Start <= InputEnd
         /\ \A q \in MarkEnd .. Start-1 : At(input, q) = "ws"
         /\ Start < InputEnd => At(input, Start) # "ws"
         /\ SkipWs(input, Start, InputEnd) = Start
         /\ Marked => BomLen <= InputEnd /\ MarkEnd = BomLen
         /\ ~Marked => MarkEnd = 0
<1>1. InputEnd \in Nat
  BY DEF InputEnd
<1>2. /\ Marked => BomLen <= InputEnd /\ MarkEnd = BomLen
      /\ ~Marked => MarkEnd = 0
      /\ MarkEnd \in Nat /\ MarkEnd <= InputEnd
  <2>1. Marked => BomLen <= InputEnd
    <3>1. Marked => InputEnd - 0 >= BomLen
      BY DEF Marked, StartsWithBom
    <3> HIDE DEF InputEnd
    <3> QED BY <1>1, <3>1, SyntaxAssumption
  <2> QED BY <1>1, <2>1, SyntaxAssumption DEF MarkEnd
<1>3. Start = SkipWs(input, MarkEnd, InputEnd)
  BY DEF Start, PrologueLen, MarkEnd, Marked, InputEnd
<1> HIDE DEF InputEnd, At
<1>4. /\ Start \in MarkEnd .. InputEnd
      /\ \A q \in MarkEnd .. Start-1 : At(input, q) = "ws"
      /\ Start < InputEnd => At(input, Start) # "ws"
  BY <1>1, <1>2, <1>3, SkipWsBetween
<1>5. Start \in Nat /\ MarkEnd <= Start /\ Start <= InputEnd
  BY <1>1, <1>2, <1>4
<1>6. SkipWs(input, Start, InputEnd) = Start
  <2> DEFINE s == SkipWs(input, Start, InputEnd)
  <2>1. s \in Start .. InputEnd /\ \A q \in Start .. s-1 : At(input, q) = "ws"
    BY <1>1, <1>5, SkipWsBetween
  <2> HIDE DEF s
  <2>2. ASSUME s # Start PROVE FALSE
    <3>1. Start \in Start .. s-1 /\ Start < InputEnd
      BY <1>1, <1>5, <2>1, <2>2
    <3> QED BY <1>4, <2>1, <3>1
  <2> QED BY <2>2 DEF s
<1> QED BY <1>1, <1>2, <1>4, <1>5, <1>6

(* An input without a UNA: its units begin where its prologue ends.        *)
LEMMA NoUnaIs ==
  ASSUME input \in Seq(Bytes), Comparable, Ahead, ~HasUna(input, Start)
  PROVE  /\ term = InputTerm /\ Plain(InputTerm) /\ BodyBegin = Start
         /\ Start <= Seen(input) => StandsAt(Start)
<1>1. /\ Sliced!PrologueEnd(input) = Start + 0 /\ ~Sliced!BadUna(input)
      /\ InputTerm = IF Advice # None THEN Advice ELSE "term"
  BY PrologueEndIs DEF Start, InputTerm
<1>2. Start \in Nat
  BY StartIs
<1>3. BodyBegin = Start
  BY <1>1, <1>2 DEF BodyBegin
<1>4. term = InputTerm /\ Plain(InputTerm)
  BY <1>1 DEF Ahead, Plain, Comparable
<1>5. ASSUME Start <= Seen(input) PROVE StandsAt(Start)
  <2>1. ~(Sliced!Truncated(input) /\ Sliced!PrologueEnd(input) > MaxInputBytes)
    <3>1. /\ Sliced!Truncated(input) => Seen(input) = MaxInputBytes /\ MaxInputBytes \in Nat
      BY SeenIs
    <3> QED BY <1>2, <1>3, <1>5, <3>1 DEF BodyBegin
  <2>2. \A p, b, g : p = Sliced!PrologueEnd(input) /\ b = NewBudget /\ g = <<>> =>
           Stands(input, 0, p, b, g)
    BY <1>1, <2>1, OpenedIs
  <2>3. segs = <<>> /\ budget = NewBudget
    BY DEF Ahead
  <2>4. Stands(input, 0, Start, budget, segs)
    BY <1>3, <2>2, <2>3 DEF BodyBegin
  <2>5. Len(segs) = 0
    BY <2>3
  <2>6. Start \in UnitStarts \cup {InputEnd}
    BY <1>3 DEF UnitStarts
  <2> QED BY <2>4, <2>5, <2>6 DEF StandsAt
<1> QED BY <1>3, <1>4, <1>5

(* A prologue that the budget cuts short.                                  *)
LEMMA ShortPrologue ==
  ASSUME input \in Seq(Bytes), Comparable, segs = <<>>, Sliced!Truncated(input),
         Sliced!PrologueEnd(input) > Seen(input)
  PROVE  AgreesOn(BytesExceeded)
<1>1. Seen(input) = MaxInputBytes
  BY SeenIs
<1>2. Ends(input, <<>>, Sliced!PrologueError(input))
  BY <1>1, OpenedIs
<1>3. Sliced!PrologueError(input) = BytesExceeded
  BY PrologueErrorIs DEF Comparable
<1>4. Ends(input, segs, BytesExceeded)
  BY <1>2, <1>3
<1> QED BY <1>4, EndsAgree

LEMMA LettersOf ==
  ASSUME input \in Seq(Bytes), HasUna(input, Start)
  PROVE  /\ At(input, Start) = "U" /\ At(input, Start + 1) = "N" /\ At(input, Start + 2) = "A"
         /\ Start + UnaLen <= InputEnd
         /\ Sliced!PrologueEnd(input) = Start + UnaLen
<1>1. Start \in Nat /\ InputEnd \in Nat
  BY StartIs
<1>2. Slice(input, Start, Start + 3) = <<"U", "N", "A">> /\ Len(input) >= Start + UnaLen
  BY DEF HasUna
<1>3. Sliced!PrologueEnd(input) = Start + UnaLen
  BY PrologueEndIs DEF Start
<1>4. PieceOf(Slice(input, Start, Start + 3), 3, input, Start)
  <2>1. PICK to \in Nat : to = Start + 3
    BY <1>1
  <2>2. Start <= to /\ to <= Len(input) /\ 3 = to - Start /\ 3 \in Nat
    BY <1>1, <1>2, <2>1, SyntaxAssumption DEF InputEnd
  <2> QED BY <1>1, <2>1, <2>2, SlicePiece
<1>5. \A i \in 0..2 : At(<<"U", "N", "A">>, i) = At(input, Start + i)
  BY <1>2, <1>4 DEF PieceOf
<1>6. /\ At(<<"U", "N", "A">>, 0) = "U" /\ At(<<"U", "N", "A">>, 1) = "N"
      /\ At(<<"U", "N", "A">>, 2) = "A"
  BY DEF At
<1>7. Start + 0 = Start
  BY <1>1
<1> HIDE DEF At
<1>8. At(input, Start + 0) = "U" /\ At(input, Start + 1) = "N" /\ At(input, Start + 2) = "A"
  BY <1>5, <1>6
<1>9. Start + UnaLen <= InputEnd
  BY <1>1, <1>2, SyntaxAssumption DEF InputEnd
<1> QED BY <1>3, <1>7, <1>8, <1>9

(* A UNA of a regular input is whole.                                      *)
LEMMA SpelledUna ==
  ASSUME input \in Seq(Bytes), Regular, NEW n \in Nat, n >= 3, Spells(n), Start + n <= InputEnd
  PROVE  HasUna(input, Start)
<1>1. Start \in Nat /\ InputEnd \in Nat /\ Start + 3 <= InputEnd
  BY StartIs
<1>2. Lesser(Start + 3, InputEnd) = Start + 3
  BY <1>1 DEF Lesser
<1>3. PICK to \in Nat : to = Start + 3
  BY <1>1
<1> DEFINE v == Slice(input, Start, to)
<1>4. PieceOf(v, 3, input, Start)
  <2>1. Start <= to /\ to <= Len(input) /\ 3 = to - Start /\ 3 \in Nat
    BY <1>1, <1>3 DEF InputEnd
  <2> QED BY <1>1, <1>3, <2>1, SlicePiece
<1>6. v \in Seq(Bytes) /\ Len(v) = 3
  <2>1. to <= Len(input)
    BY <1>1, <1>3 DEF InputEnd
  <2> QED BY <1>1, <1>3, <2>1 DEF Slice
<1>7. At(v, 0) = "U" /\ At(v, 1) = "N" /\ At(v, 2) = "A"
  <2>1. At(input, Start) = "U" /\ At(input, Start + 1) = "N" /\ At(input, Start + 2) = "A"
    BY DEF Spells
  <2>2. Start + 0 = Start
    BY <1>1
  <2>3. 0 \in 0..3-1 /\ 1 \in 0..3-1 /\ 2 \in 0..3-1
    OBVIOUS
  <2>4. At(v, 0) = At(input, Start + 0) /\ At(v, 1) = At(input, Start + 1)
        /\ At(v, 2) = At(input, Start + 2)
    BY <1>4, <2>3 DEF PieceOf
  <2> HIDE DEF At, v
  <2> QED BY <2>1, <2>2, <2>4
<1> HIDE DEF v
<1>8. v[1] = "U" /\ v[2] = "N" /\ v[3] = "A"
  BY <1>7 DEF At
<1>9. v = <<"U", "N", "A">>
  <2>1. v = [i \in 1..3 |-> v[i]]
    BY <1>6
  <2>2. \A i \in 1..3 : v[i] = <<"U", "N", "A">>[i]
    BY <1>8
  <2> QED BY <1>6, <2>2
<1>5. ~CutUna
  BY DEF Regular
<1>10. Slice(input, Start, Lesser(Start + 3, InputEnd)) = <<"U", "N", "A">>
  BY <1>2, <1>3, <1>9 DEF v
<1> QED BY <1>5, <1>10 DEF CutUna, Start

LEMMA AheadIs ==
  ASSUME Going, ~scanned
  PROVE  /\ StreamInv /\ PathInv /\ Running /\ Regular /\ Ahead /\ input \in Seq(Bytes)
         /\ offset = consumed /\ segs = <<>>
BY DEF Going, PathInv, StreamInv, ReaderOK, Ahead

(* Nothing but the prologue's whitespace within what the slice's iterator  *)
(* sees.                                                                   *)
LEMMA AheadEnds ==
  ASSUME Going, Comparable, ~scanned, phase = "lead", consumed = Seen(input)
  PROVE  /\ Sliced!Truncated(input) => AgreesOn(BytesExceeded)
         /\ ~Sliced!Truncated(input) => AgreesOn(NoError)
<1>1. /\ StreamInv /\ Ahead /\ input \in Seq(Bytes) /\ segs = <<>>
  BY AheadIs
<1>2. /\ consumed \in Nat /\ InputEnd \in Nat
      /\ Sliced!Truncated(input) <=> Seen(input) # InputEnd
  BY <1>1, WithinSeen
<1>3. Start \in Nat /\ Start <= InputEnd /\ SkipWs(input, Start, InputEnd) = Start
  BY <1>1, StartIs
<1>4. consumed <= Start
  BY <1>1 DEF Ahead
<1>5. CASE Sliced!Truncated(input) /\ Sliced!PrologueEnd(input) > Seen(input)
  BY <1>1, <1>5, ShortPrologue
<1>6. CASE ~(Sliced!Truncated(input) /\ Sliced!PrologueEnd(input) > Seen(input))
  <2>1. ~HasUna(input, Start)
    <3> SUFFICES ASSUME HasUna(input, Start) PROVE FALSE
      OBVIOUS
    <3>1. Sliced!PrologueEnd(input) = Start + UnaLen /\ Start + UnaLen <= InputEnd
      BY <1>1, LettersOf
    <3> HIDE DEF InputEnd
    <3>2. PICK far \in Nat : far = Start + UnaLen
      BY <1>3, SyntaxAssumption
    <3>3. far > Seen(input) /\ ~(InputEnd = Seen(input))
      BY <1>2, <1>3, <1>4, <3>1, <3>2, SyntaxAssumption
    <3>4. Sliced!Truncated(input)
      BY <1>2, <3>3
    <3>5. Sliced!PrologueEnd(input) > Seen(input)
      BY <3>1, <3>2, <3>3
    <3> QED BY <1>6, <3>4, <3>5
  <2>2. Start <= Seen(input)
    <3>1. Sliced!PrologueEnd(input) = Start
      BY <1>1, <2>1, NoUnaIs DEF BodyBegin
    <3> HIDE DEF InputEnd
    <3> QED BY <1>2, <1>3, <1>6, <3>1
  <2>3. StandsAt(Start)
    BY <1>1, <2>1, <2>2, NoUnaIs
  <2>4. ~(Start < Seen(input))
    BY <1>2, <1>3, <1>4
  <2> QED BY <1>1, <1>3, <2>3, <2>4, AgreeOnNothing
<1> QED BY <1>5, <1>6

(* The letters of a UNA that is none begin a segment.                      *)
LEMMA AheadLetters ==
  ASSUME Going, Comparable, ~scanned, phase = "una", ~HasUna(input, Start)
  PROVE  /\ BodyAt(Start) /\ rawStart = Start /\ consumed - rawStart <= MaxSegmentBytes
         /\ consumed - rawStart \in 1..2 /\ ~Escaped(input, Start, consumed)
         /\ term = InputTerm /\ Plain(InputTerm) /\ StandsAt(Start)
<1>1. /\ StreamInv /\ Ahead /\ Regular /\ input \in Seq(Bytes)
  BY AheadIs
<1>2. /\ consumed \in Nat /\ InputEnd \in Nat /\ consumed <= Seen(input) /\ Seen(input) \in Nat
      /\ consumed <= InputEnd
  BY <1>1, WithinSeen
<1>3. Start \in Nat /\ Start <= InputEnd /\ SkipWs(input, Start, InputEnd) = Start
  BY <1>1, StartIs
<1>4. rawStart = Start /\ Start < consumed /\ Spells(consumed - Start)
  BY <1>1 DEF Ahead
<1>5. PICK n \in Nat : n = consumed - Start
  BY <1>2, <1>3, <1>4
<1>6. n \in 1..2
  <2>1. Start + n <= InputEnd
    <3> HIDE DEF InputEnd
    <3> QED BY <1>2, <1>3, <1>5
  <2>2. ~(n >= 3)
    BY <1>1, <1>4, <1>5, <2>1, SpelledUna
  <2> QED BY <1>2, <1>3, <1>4, <1>5, <2>2
<1>7. term = InputTerm /\ Plain(InputTerm) /\ StandsAt(Start)
  <2>1. Start <= Seen(input)
    BY <1>2, <1>3, <1>4
  <2> QED BY <1>1, <2>1, NoUnaIs
<1>8. \A q \in Start .. consumed-1 : At(input, q) \in {"U", "N"}
  <2> SUFFICES ASSUME NEW q \in Start .. consumed-1 PROVE At(input, q) \in {"U", "N"}
    OBVIOUS
  <2> HIDE DEF At
  <2>1. q = Start \/ (q = Start + 1 /\ n >= 2)
    BY <1>2, <1>3, <1>5, <1>6
  <2> QED BY <1>4, <1>5, <2>1 DEF Spells
<1>9. UnescapedTerms(input, Start, consumed, InputTerm) = {}
  BY <1>7, <1>8 DEF UnescapedTerms, Plain
<1>10. ~Escaped(input, Start, consumed)
  <2> SUFFICES ASSUME NEW k \in 1 .. consumed - Start,
                      \A q \in consumed-k .. consumed-1 : At(input, q) = "rel"
               PROVE  FALSE
    BY DEF Escaped
  <2> HIDE DEF At
  <2>1. consumed - 1 \in consumed-k .. consumed-1 /\ consumed - 1 \in Start .. consumed-1
    BY <1>2, <1>3, <1>4
  <2> QED BY <1>8, <2>1
<1>11. BodyAt(Start)
  <2>1. rawStart < consumed /\ Start <= consumed /\ rawStart = SkipWs(input, Start, InputEnd)
        /\ UnescapedTerms(input, rawStart, consumed, InputTerm) = {}
    BY <1>2, <1>3, <1>4, <1>9
  <2> QED BY <1>1, <1>7, <2>1, BodyBegun
<1>12. consumed - rawStart \in 1..2 /\ consumed - rawStart <= MaxSegmentBytes
  BY <1>4, <1>5, <1>6, SyntaxAssumption DEF Comparable
<1> QED BY <1>4, <1>7, <1>10, <1>11, <1>12

LEMMA AheadBreaks ==
  ASSUME Going, Comparable, ~scanned, phase = "una", SlowOverBudget \/ UnaEof
  PROVE  PathInv'
<1>1. /\ StreamInv /\ PathInv /\ Running /\ Ahead /\ Regular /\ input \in Seq(Bytes) /\ segs = <<>>
  BY AheadIs
<1>2. consumed \in Nat /\ Start \in Nat /\ consumed < Start + UnaLen
  BY <1>1, WithinSeen, StartIs DEF Ahead
<1>3. CASE SlowOverBudget
  <2>1. Ready /\ Refused /\ input' = input
    BY <1>3 DEF SlowOverBudget, readerVars
  <2>2. consumed = Seen(input) /\ Sliced!Truncated(input)
    BY <1>1, <2>1, RefusedIs
  <2>3. Fail(BytesExceeded)
    <3>1. \A n \in 1..2 : ~(n > MaxSegmentBytes)
      BY SyntaxAssumption DEF Comparable
    <3> QED BY <1>3, <3>1 DEF SlowOverBudget
  <2>4. AgreesOn(BytesExceeded)
    <3>1. CASE HasUna(input, Start)
      <4>1. Sliced!PrologueEnd(input) = Start + UnaLen
        BY <1>1, <3>1, LettersOf
      <4>2. Sliced!PrologueEnd(input) > Seen(input)
        BY <1>2, <2>2, <4>1, SyntaxAssumption
      <4> QED BY <1>1, <2>2, <4>2, ShortPrologue
    <3>2. CASE ~HasUna(input, Start)
      BY <2>2, <3>2, AheadLetters, BodyBreaks
    <3> QED BY <3>1, <3>2
  <2> QED BY <1>1, <2>1, <2>3, <2>4, FailPaths
<1>4. CASE UnaEof
  <2>1. AtEof /\ input' = input /\ Fail(Error("UnexpectedEof", offset))
    BY <1>4 DEF UnaEof, readerVars
  <2>2. consumed = Seen(input) /\ ~Sliced!Truncated(input) /\ consumed = InputEnd
    BY <1>1, <2>1, EofIs
  <2>3. ~HasUna(input, Start)
    <3>1. HasUna(input, Start) => Start + UnaLen <= InputEnd
      BY <1>1, LettersOf
    <3> HIDE DEF InputEnd
    <3> QED BY <1>2, <2>2, <3>1, SyntaxAssumption
  <2>4. \A e : e # NoError /\ e.kind \notin LimitKinds => AgreesOn(e)
    BY <2>2, <2>3, AheadLetters, BodyBreaks
  <2>5. Error("UnexpectedEof", offset) # NoError
        /\ Error("UnexpectedEof", offset).kind \notin LimitKinds
    BY DEF Error, NoError, LimitKinds
  <2>6. AgreesOn(Error("UnexpectedEof", offset))
    BY <2>4, <2>5
  <2> QED BY <1>1, <2>1, <2>6, FailPaths
<1> QED BY <1>3, <1>4

(* The slow path stays within the prologue.                                *)
LEMMA StaysAhead ==
  ASSUME Going, ~scanned, input' = input, segs' = segs, budget' = budget, state' = state,
         term' = term, error' = error, ended' = ended, ~scanned',
         NEW w, w = consumed',
         \/ phase' = "lead" /\ MarkEnd <= w /\ w <= Start
         \/ /\ phase' = "una" /\ rawStart' = Start /\ Start < w /\ w < Start + UnaLen
            /\ Spells(w - Start)
  PROVE  PathInv'
<1>1. PathInv /\ Running /\ Ahead
  BY AheadIs
<1>2. MarkEnd' = MarkEnd /\ Start' = Start
  BY InputStays
<1>3. ASSUME phase' = "una" PROVE Spells(consumed - Start)'
  <2>1. Spells(w - Start)
    BY <1>3
  <2>2. (consumed - Start)' = w - Start
    BY <1>2
  <2> QED BY <1>2, <2>1, <2>2 DEF Spells, At
<1>4. /\ segs' = <<>> /\ budget' = NewBudget /\ state' = "Init"
      /\ term' = IF Advice = None THEN "term" ELSE Advice
  BY <1>1 DEF Ahead
<1>5. /\ phase' # "body" /\ phase' # "top"
      /\ phase' = "lead" => MarkEnd' <= consumed' /\ consumed' <= Start'
      /\ phase' = "una" => rawStart' = Start' /\ Start' < consumed' /\ consumed' < Start' + UnaLen
  BY <1>2
<1>6. Ahead'
  BY <1>3, <1>4, <1>5 DEF Ahead
<1>7. Running'
  BY <1>1 DEF Running
<1> QED BY <1>1, <1>6, <1>7, GoPaths

LEMMA AheadLeadPaths ==
  ASSUME Going, Comparable, ~scanned, phase = "lead",
         SlowOverBudget \/ SlowEof \/ SkipWhitespace \/ StrayTerminator \/ StartUna \/ StartSegment
  PROVE  PathInv'
<1>1. /\ StreamInv /\ PathInv /\ Running /\ Ahead /\ Regular /\ input \in Seq(Bytes)
      /\ offset = consumed /\ segs = <<>>
  BY AheadIs
<1>2. consumed \in Nat /\ InputEnd \in Nat
  BY <1>1, WithinSeen
<1>3. /\ Start \in Nat /\ MarkEnd \in Nat /\ Start <= InputEnd
      /\ \A q \in MarkEnd .. Start-1 : At(input, q) = "ws"
      /\ Start < InputEnd => At(input, Start) # "ws"
      /\ SkipWs(input, Start, InputEnd) = Start
  BY <1>1, StartIs
<1>4. MarkEnd <= consumed /\ consumed <= Start
  BY <1>1 DEF Ahead
<1>5. ASSUME Reads, Byte # "ws" PROVE consumed = Start
  <2> SUFFICES ASSUME consumed # Start PROVE FALSE
    OBVIOUS
  <2> HIDE DEF At
  <2>1. consumed \in MarkEnd .. Start-1
    BY <1>2, <1>3, <1>4
  <2> QED BY <1>3, <1>5, <2>1 DEF Byte
<1>6. ASSUME Reads PROVE consumed < InputEnd /\ consumed <= Seen(input)
  BY <1>1, <1>6, ReadsIs, WithinSeen
<1>7. ASSUME Reads, Byte # "ws", Byte # "U"
      PROVE  StandsAt(Start) /\ term = InputTerm /\ Plain(InputTerm)
  <2>1. consumed = Start /\ consumed <= Seen(input)
    BY <1>5, <1>6, <1>7
  <2>2. ~HasUna(input, Start)
    BY <1>1, <1>7, <2>1, LettersOf DEF Byte
  <2> QED BY <1>1, <2>1, <2>2, NoUnaIs
<1>8. CASE SlowOverBudget
  <2>1. Ready /\ Refused /\ input' = input /\ Fail(BytesExceeded)
    BY <1>8 DEF SlowOverBudget, readerVars
  <2>2. AgreesOn(BytesExceeded)
    BY <1>1, <2>1, RefusedIs, AheadEnds
  <2> QED BY <1>1, <2>1, <2>2, FailPaths
<1>9. CASE SlowEof
  <2>1. AtEof /\ End
    BY <1>9 DEF SlowEof
  <2>2. AgreesOn(NoError)
    BY <1>1, <2>1, EofIs, AheadEnds
  <2> QED BY <1>1, <2>1, <2>2, EndPaths
<1>10. CASE SkipWhitespace
  <2>1. /\ input' = input /\ consumed' = consumed + 1 /\ state' = state /\ term' = term /\ phase' = phase
        /\ budget' = budget /\ scanned' = scanned /\ segs' = segs /\ error' = error /\ ended' = ended
        /\ Byte = "ws" /\ Reads
    BY <1>10 DEF SkipWhitespace, Consume, slowVars
  <2>2. consumed # Start
    BY <1>3, <1>6, <2>1 DEF Byte
  <2>3. PICK w \in Nat : w = consumed + 1
    BY <1>2
  <2>4. MarkEnd <= w /\ w <= Start
    BY <1>2, <1>3, <1>4, <2>2, <2>3
  <2> QED BY <2>1, <2>3, <2>4, StaysAhead
<1>11. CASE StrayTerminator
  <2>1. Reads /\ Byte = term
    BY <1>11 DEF StrayTerminator
  <2>2. Byte # "ws" /\ Byte # "U"
    BY <1>1, <2>1 DEF Ahead, Comparable
  <2>3. consumed = Start
    BY <1>5, <2>1, <2>2
  <2>4. StandsAt(Start) /\ term = InputTerm /\ Plain(InputTerm)
    BY <1>7, <2>1, <2>2
  <2>5. consumed = SkipWs(input, Start, InputEnd) /\ Start <= consumed
    BY <1>3, <2>3
  <2> QED BY <1>1, <2>1, <2>4, <2>5, NoStray
<1>12. CASE StartUna
  <2>1. /\ input' = input /\ consumed' = consumed + 1 /\ state' = state /\ term' = term
        /\ phase' = "una" /\ rawStart' = offset
        /\ budget' = budget /\ scanned' = scanned /\ segs' = segs /\ error' = error /\ ended' = ended
        /\ Byte = "U" /\ Reads
    BY <1>12 DEF StartUna, Consume
  <2>2. consumed = Start
    BY <1>5, <2>1
  <2>3. PICK w \in Nat : w = Start + 1
    BY <1>3
  <2>4. Start < w /\ w < Start + UnaLen /\ w - Start = 1
    BY <1>3, <2>3, SyntaxAssumption
  <2>5. Spells(w - Start)
    <3>1. At(input, Start) = "U"
      BY <2>1, <2>2 DEF Byte
    <3> QED BY <2>4, <3>1 DEF Spells
  <2>6. rawStart' = Start /\ w = consumed' /\ ~scanned'
    BY <1>1, <2>1, <2>2, <2>3
  <2> QED BY <2>1, <2>4, <2>5, <2>6, StaysAhead
<1>13. CASE StartSegment
  <2>1. Reads /\ Byte # "ws" /\ Byte # "U" /\ Byte # term /\ Consume(1) /\ phase' = "body"
        /\ rawStart' = offset /\ scanned' /\ state' = state /\ term' = term /\ budget' = budget
        /\ segs' = segs /\ error' = error /\ ended' = ended
    BY <1>13 DEF StartSegment
  <2>2. consumed = Start
    BY <1>5, <2>1
  <2>3. StandsAt(Start) /\ term = InputTerm /\ Plain(InputTerm)
    BY <1>7, <2>1
  <2>4. UnescapedTerms(input, Start, consumed, InputTerm) = {}
    BY <1>3, <2>2 DEF UnescapedTerms
  <2>5. Start <= consumed /\ Start <= Start /\ rawStart' = Start
    BY <1>1, <1>3, <2>1, <2>2
  <2>6. Start = SkipWs(input, Start, InputEnd)
    BY <1>3
  <2> QED BY <2>1, <2>3, <2>4, <2>5, <2>6, BodyReads
<1> QED BY <1>8, <1>9, <1>10, <1>11, <1>12, <1>13

(* The lookahead goes on while the bytes spell UNA.                        *)
LEMMA UnaGoesOn ==
  ASSUME Going, ~scanned, phase = "una", Reads, NEW n, n = consumed - Start
  PROVE  /\ n \in Nat /\ n >= 1 /\ n = Len(raw) /\ Spells(n) /\ rawStart = Start
         /\ UnaSoFar <=> Spells(n + 1)
<1>1. /\ StreamInv /\ Ahead /\ input \in Seq(Bytes)
  BY AheadIs
<1>2. /\ rawStart = Start /\ Start < consumed /\ Spells(n)
  BY <1>1 DEF Ahead
<1>3. /\ consumed \in Nat /\ Start \in Nat /\ Len(raw) = consumed - rawStart
      /\ PieceOf(raw, consumed - rawStart, input, rawStart) /\ raw \in Seq(Bytes)
  BY <1>1, RawIs, StartIs DEF StreamInv, SlowOK
<1>4. n \in Nat /\ n >= 1 /\ n = Len(raw)
  BY <1>2, <1>3
<1>5. ASSUME NEW i \in Nat, i < n PROVE raw[i + 1] = At(input, Start + i)
  <2>1. i \in 0 .. (consumed - rawStart)-1
    BY <1>2, <1>3, <1>4, <1>5
  <2>2. At(raw, i) = At(input, rawStart + i)
    BY <1>3, <2>1 DEF PieceOf
  <2> QED BY <1>2, <2>2 DEF At
<1>6. Byte = At(input, Start + n)
  <2>1. Start + n = consumed
    BY <1>2, <1>3
  <2> QED BY <2>1 DEF Byte
<1> DEFINE more == raw \o <<Byte>>
<1>7. /\ more \in Seq(Bytes) /\ Len(more) = n + 1 /\ more[n + 1] = Byte
      /\ \A i \in 1..n : more[i] = raw[i]
  <2>1. Byte \in Bytes
    BY <1>1, ByteAtHand
  <2> HIDE DEF Byte
  <2> QED BY <1>3, <1>4, <2>1
<1>8. /\ n >= 1 => raw[1] = At(input, Start)
      /\ n >= 2 => raw[2] = At(input, Start + 1)
  <2>1. Start + 0 = Start /\ 0 \in Nat /\ 1 \in Nat /\ 0 + 1 = 1 /\ 1 + 1 = 2
    BY <1>3
  <2> HIDE DEF At
  <2>2. n >= 1 => raw[0 + 1] = At(input, Start + 0)
    BY <1>4, <1>5
  <2>3. n >= 2 => raw[1 + 1] = At(input, Start + 1)
    BY <1>4, <1>5
  <2> QED BY <2>1, <2>2, <2>3
<1> HIDE DEF more, Byte, At
<1>9. UnaSoFar <=> more \in {<<"U", "N">>, <<"U", "N", "A">>} \/ n >= 3
  BY <1>4 DEF UnaSoFar, more
<1>10. ASSUME UnaSoFar PROVE Spells(n + 1)
  <2>1. CASE n >= 3
    BY <1>2, <1>4, <2>1 DEF Spells
  <2>2. CASE more = <<"U", "N">>
    <3>1. n = 1 /\ Byte = "N"
      BY <1>4, <1>7, <2>2
    <3> QED BY <1>2, <1>6, <3>1 DEF Spells
  <2>3. CASE more = <<"U", "N", "A">>
    <3>1. n = 2 /\ Byte = "A"
      BY <1>4, <1>7, <2>3
    <3> QED BY <1>2, <1>6, <3>1 DEF Spells
  <2> QED BY <1>9, <1>10, <2>1, <2>2, <2>3
<1>11. ASSUME Spells(n + 1) PROVE UnaSoFar
  <2>1. CASE n >= 3
    BY <1>9, <2>1
  <2>2. CASE n = 1
    <3>1. Byte = "N" /\ raw[1] = "U"
      BY <1>4, <1>6, <1>8, <1>11, <2>2 DEF Spells
    <3>2. Len(more) = 2 /\ more[1] = "U" /\ more[2] = "N"
      BY <1>7, <2>2, <3>1
    <3>3. more = <<"U", "N">>
      <4>1. \A i \in 1..2 : more[i] = <<"U", "N">>[i]
        BY <3>2
      <4>2. more \in Seq(Bytes)
        BY <1>7
      <4> QED BY <3>2, <4>1, <4>2
    <3> QED BY <1>9, <3>3
  <2>3. CASE n = 2
    <3>1. Byte = "A" /\ raw[1] = "U" /\ raw[2] = "N"
      BY <1>4, <1>6, <1>8, <1>11, <2>3 DEF Spells
    <3>2. Len(more) = 3 /\ more[1] = "U" /\ more[2] = "N" /\ more[3] = "A"
      BY <1>7, <2>3, <3>1
    <3>3. more = <<"U", "N", "A">>
      <4>1. \A i \in 1..3 : more[i] = <<"U", "N", "A">>[i]
        BY <3>2
      <4>2. more \in Seq(Bytes)
        BY <1>7
      <4> QED BY <3>2, <4>1, <4>2
    <3> QED BY <1>9, <3>3
  <2> QED BY <1>4, <2>1, <2>2, <2>3
<1> QED BY <1>2, <1>4, <1>10, <1>11

LEMMA ReadUnaPaths == ASSUME Going, ~scanned, ReadUna PROVE PathInv'
<1>1. /\ StreamInv /\ Ahead /\ input \in Seq(Bytes)
  BY AheadIs
<1>2. /\ input' = input /\ consumed' = consumed + 1 /\ state' = state /\ term' = term
      /\ phase' = phase /\ rawStart' = rawStart /\ phase = "una" /\ Reads /\ UnaSoFar
      /\ budget' = budget /\ scanned' = scanned /\ segs' = segs /\ error' = error /\ ended' = ended
      /\ Len(raw) + 1 < UnaLen
  BY DEF ReadUna, Consume
<1> DEFINE n == consumed - Start
<1>3. n \in Nat /\ n >= 1 /\ n = Len(raw) /\ Spells(n + 1) /\ rawStart = Start
  BY <1>2, UnaGoesOn
<1>4. consumed \in Nat /\ Start \in Nat
  BY <1>1, WithinSeen, StartIs
<1>5. PICK w \in Nat : w = consumed + 1
  BY <1>4
<1>6. Start < w /\ w < Start + UnaLen /\ w - Start = n + 1
  BY <1>2, <1>3, <1>4, <1>5, SyntaxAssumption
<1>7. Spells(w - Start)
  BY <1>3, <1>6
<1>8. phase' = "una" /\ rawStart' = Start /\ w = consumed' /\ ~scanned'
  BY <1>2, <1>3, <1>5
<1> QED BY <1>2, <1>6, <1>7, <1>8, StaysAhead

LEMMA NotUnaPaths == ASSUME Going, Comparable, ~scanned, NotUna PROVE PathInv'
<1>1. /\ StreamInv /\ Ahead /\ input \in Seq(Bytes) /\ phase = "una" /\ Reads /\ ~UnaSoFar
      /\ Consume(1)
  BY AheadIs DEF NotUna
<1> DEFINE n == consumed - Start
<1>2. n \in Nat /\ n = Len(raw) /\ ~Spells(n + 1) /\ rawStart = Start
  BY <1>1, UnaGoesOn
<1>3. ~HasUna(input, Start)
  BY <1>1, <1>2, LettersOf DEF Spells
<1>4. /\ BodyAt(Start) /\ n <= MaxSegmentBytes /\ ~Escaped(input, Start, consumed)
      /\ term = InputTerm /\ Plain(InputTerm) /\ StandsAt(Start)
  BY <1>1, <1>2, <1>3, AheadLetters
<1> HIDE DEF n
<1>5. ~(Len(raw) > MaxSegmentBytes) /\ Len(raw) <= MaxSegmentBytes
  BY <1>2, <1>4, SyntaxAssumption
<1>6. ~Escaped(raw, 0, Len(raw))
  BY <1>1, <1>2, <1>4, RawIs
<1>7. CASE Byte = term
  <2>1. Finish(raw)
    BY <1>5, <1>7 DEF NotUna
  <2> QED BY <1>1, <1>4, <1>5, <1>6, <1>7, <2>1, BodyFinishes
<1>8. CASE Byte # term
  <2>1. /\ phase' = "body" /\ scanned' /\ rawStart' = rawStart /\ state' = state /\ term' = term
        /\ budget' = budget /\ segs' = segs /\ error' = error /\ ended' = ended
    BY <1>5, <1>8 DEF NotUna
  <2>2. /\ Start = SkipWs(input, Start, InputEnd) /\ Start <= Start /\ Start <= consumed
        /\ UnescapedTerms(input, Start, consumed, InputTerm) = {}
    <3>1. Start \in Nat /\ consumed \in Nat /\ Start < consumed
      BY <1>1, StartIs, WithinSeen DEF Ahead
    <3>2. Start <= Start /\ Start <= consumed
      BY <3>1
    <3> QED BY <1>2, <1>4, <3>2 DEF BodyAt
  <2>3. rawStart' = Start
    BY <1>2, <2>1
  <2> QED BY <1>1, <1>4, <1>8, <2>1, <2>2, <2>3, BodyReads
<1> QED BY <1>7, <1>8

LEMMA AdoptUnaPaths == ASSUME Going, Comparable, ~scanned, AdoptUna PROVE PathInv'
<1>1. /\ StreamInv /\ PathInv /\ Running /\ Regular /\ Ahead /\ input \in Seq(Bytes) /\ segs = <<>>
      /\ phase = "una" /\ Reads /\ Consume(1) /\ Len(raw) + 1 = UnaLen /\ input' = input
      /\ consumed' = consumed + 1
  BY AheadIs DEF AdoptUna, Consume
<1> DEFINE n == consumed - Start
           una == Append(raw, Byte)
<1>2. n \in Nat /\ n = Len(raw) /\ Spells(n) /\ rawStart = Start
  BY <1>1, UnaGoesOn
<1>3. /\ consumed \in Nat /\ Start \in Nat /\ InputEnd \in Nat /\ Seen(input) \in Nat
      /\ consumed + 1 <= Seen(input) /\ consumed < InputEnd /\ Start < consumed
  BY <1>1, ReadsIs, StartIs DEF Ahead
<1>4. PICK w \in Nat : w = consumed + 1
  BY <1>3
<1>5. HasUna(input, Start)
  <2>1. n >= 3
    <3> HIDE DEF n
    <3> QED BY <1>1, <1>2, SyntaxAssumption
  <2>2. Start + n <= InputEnd
    <3> HIDE DEF InputEnd
    <3> QED BY <1>3
  <2> HIDE DEF n
  <2> QED BY <1>1, <1>2, <2>1, <2>2, SpelledUna
<1>6. Sliced!PrologueEnd(input) = w
  <2>1. Sliced!PrologueEnd(input) = Start + UnaLen
    BY <1>1, <1>5, LettersOf
  <2>2. Start + UnaLen = w
    BY <1>1, <1>2, <1>3, <1>4, SyntaxAssumption
  <2> QED BY <2>1, <2>2
<1>7. Sliced!UnaOf(input) = una
  <2>1. raw = Slice(input, Start, consumed)
    BY <1>1, <1>2 DEF StreamInv, SlowOK, Running
  <2>2. Slice(input, Start, consumed + 1) = Append(Slice(input, Start, consumed), Byte)
    <3>1. Start <= consumed
      BY <1>3
    <3> QED BY <1>1, <1>3, <3>1, SliceGrows
  <2>3. Sliced!UnaOf(input) = Slice(input, Start, w)
    BY <1>1, <1>6, PrologueEndIs DEF Start
  <2> QED BY <1>4, <2>1, <2>2, <2>3
<1>8. At(una, UnaLen - 1) = Byte
  <2>1. raw \in Seq(Bytes) /\ Byte \in Bytes
    BY <1>1, ByteAtHand DEF StreamInv, SlowOK
  <2>2. UnaLen - 1 + 1 = Len(raw) + 1 /\ una[Len(raw) + 1] = Byte
    <3> HIDE DEF Byte
    <3> QED BY <1>1, <2>1, SyntaxAssumption
  <2> QED BY <2>2 DEF At
<1>9. ~(Sliced!Truncated(input) /\ Sliced!PrologueEnd(input) > MaxInputBytes)
  <2>1. Sliced!Truncated(input) => Seen(input) = MaxInputBytes
    BY <1>1, SeenIs
  <2>2. ~(w > Seen(input))
    BY <1>3, <1>4
  <2> QED BY <1>6, <2>1, <2>2
<1>10. /\ Sliced!BadUna(input) <=> ~ValidAdvice(una)
       /\ InputTerm = IF Advice # None THEN Advice ELSE Byte
  BY <1>1, <1>5, <1>7, <1>8, PrologueEndIs DEF Start, InputTerm
<1> HIDE DEF una, n
<1>11. CASE ValidAdvice(una)
  <2>1. /\ term' = IF Advice = None THEN Byte ELSE term
        /\ phase' = "lead" /\ scanned' = TRUE /\ state' = state /\ budget' = budget
        /\ segs' = segs /\ error' = error /\ ended' = ended
    BY <1>11 DEF AdoptUna, una
  <2>2. StandsAt(w)
    <3>1. \A p, b, g : p = w /\ b = NewBudget /\ g = <<>> => Stands(input, 0, p, b, g)
      BY <1>1, <1>6, <1>9, <1>10, <1>11, OpenedIs
    <3>2. segs = <<>> /\ budget = NewBudget
      BY <1>1 DEF Ahead
    <3>3. Stands(input, 0, w, budget, segs)
      BY <3>1, <3>2
    <3>4. Len(segs) = 0
      BY <3>2
    <3>5. w \in UnitStarts \cup {InputEnd}
      BY <1>6 DEF UnitStarts, BodyBegin
    <3> QED BY <3>3, <3>4, <3>5 DEF StandsAt
  <2>3. StandsAt(w)' /\ InputTerm' = InputTerm
    BY <1>1, <2>1, <2>2, StandsStays, InputStays
  <2>4. term' = InputTerm /\ Plain(InputTerm)
    <3>1. Byte \in {"term", "alt"}
      BY <1>8, <1>11 DEF ValidAdvice
    <3>2. Advice # None => term = Advice
      BY <1>1 DEF Ahead
    <3> HIDE DEF Byte
    <3> QED BY <1>10, <2>1, <3>1, <3>2 DEF Plain, Comparable
  <2>5. AbreastAt(w)'
    <3>1. w <= w /\ \A q \in w .. w-1 : At(input', q) = "ws"
      <4>1. \A q \in w .. w-1 : FALSE
        OBVIOUS
      <4> QED BY <4>1
    <3>2. consumed' = w
      BY <1>1, <1>4
    <3>3. (\A q \in w .. consumed-1 : At(input, q) = "ws")'
      BY <3>1, <3>2 DEF At
    <3> QED BY <2>1, <2>3, <3>1, <3>2, <3>3 DEF AbreastAt
  <2>6. Abreast'
    BY <2>1, <2>3, <2>4, <2>5 DEF Abreast, Plain
  <2>7. Running'
    BY <1>1, <2>1 DEF Running
  <2> QED BY <1>1, <2>1, <2>6, <2>7, GoPaths
<1>12. CASE ~ValidAdvice(una)
  <2>1. Fail(Error("InvalidUna", NoOffset))
    BY <1>12 DEF AdoptUna, una
  <2>2. Ends(input, segs, Error("InvalidUna", NoOffset))
    BY <1>1, <1>9, <1>10, <1>12, OpenedIs
  <2>3. AgreesOn(Error("InvalidUna", NoOffset))
    BY <2>2, EndsAgree
  <2> QED BY <1>1, <2>1, <2>3, FailPaths
<1> QED BY <1>11, <1>12

(* A step that changes no more than the buffer.                            *)
LEMMA BufferPaths ==
  ASSUME Going, UNCHANGED <<input, consumed, state, offset, term, budget, slowVars, segs, error, ended>>,
         consumed = 0 /\ Marked /\ avail' > 0 => avail' >= BomLen \/ avail' = avail
  PROVE  PathInv'
<1>1. PathInv /\ Running /\ Regular
  BY DEF Going
<1>2. /\ input' = input /\ consumed' = consumed /\ state' = state /\ term' = term /\ budget' = budget
      /\ phase' = phase /\ scanned' = scanned /\ raw' = raw /\ rawStart' = rawStart
      /\ segs' = segs /\ error' = error /\ ended' = ended
  BY DEF slowVars
<1>3. /\ InputEnd' = InputEnd /\ InputTerm' = InputTerm
      /\ MarkEnd' = MarkEnd /\ Start' = Start /\ (Marked' <=> Marked)
  BY <1>2, InputStays
<1>4. CASE scanned
  <2>1. Abreast
    BY <1>1, <1>4 DEF PathInv
  <2>2. PICK p : AbreastAt(p)
    BY <2>1 DEF Abreast
  <2>3. StandsAt(p)'
    BY <1>2, <2>2, StandsStays DEF AbreastAt
  <2>4. AbreastAt(p)'
    <3>1. (phase = "lead" => \A q \in p .. consumed-1 : At(input, q) = "ws")'
      BY <1>2, <2>2 DEF AbreastAt, At
    <3>2. (phase = "body" => /\ rawStart = SkipWs(input, p, InputEnd) /\ rawStart < consumed
                             /\ UnescapedTerms(input, rawStart, consumed, InputTerm) = {})'
      BY <1>2, <1>3, <2>2 DEF AbreastAt
    <3>3. (phase = "top" => p = consumed /\ state = "Running")' /\ p \in Nat /\ p <= consumed'
      BY <1>2, <2>2 DEF AbreastAt
    <3> QED BY <2>3, <3>1, <3>2, <3>3 DEF AbreastAt
  <2>5. Abreast'
    BY <1>2, <1>3, <2>1, <2>4 DEF Abreast, Plain
  <2>6. Running'
    BY <1>1, <1>2 DEF Running
  <2> QED BY <1>1, <1>2, <1>4, <2>5, <2>6, GoPaths
<1>5. CASE ~scanned
  <2>1. Ahead
    BY <1>1, <1>5 DEF PathInv
  <2>2. Spells(consumed - Start)' <=> Spells(consumed - Start)
    BY <1>2, <1>3 DEF Spells, At
  <2>3. (phase = "top" => consumed = 0 /\ (avail > 0 /\ Marked => avail >= BomLen))'
    BY <1>2, <1>3, <2>1 DEF Ahead
  <2>4. Ahead'
    BY <1>2, <1>3, <2>1, <2>2, <2>3 DEF Ahead
  <2>5. Running'
    BY <1>1, <1>2 DEF Running
  <2> QED BY <1>1, <1>2, <1>5, <2>4, <2>5, GoPaths
<1> QED BY <1>4, <1>5

LEMMA FillPaths == ASSUME Going, FillBufWhole PROVE PathInv'
<1>1. FillBuf /\ MarkArrivesWhole
  BY DEF FillBufWhole
<1>2. /\ avail = 0
      /\ UNCHANGED <<input, consumed, state, offset, term, budget, slowVars, segs, error, ended>>
  BY <1>1 DEF FillBuf
<1>3. consumed = 0 /\ Marked /\ avail' > 0 => avail' >= BomLen
  BY <1>1, <1>2 DEF MarkArrivesWhole, Marked, InputEnd
<1> QED BY <1>2, <1>3, BufferPaths

LEMMA FillFailsPaths == ASSUME Going, FillFails PROVE PathInv'
<1>1. Error("Io", NoOffset).kind = "Io"
  BY DEF Error
<1> QED BY <1>1, FailPaths DEF Going, FillFails, readerVars

LEMMA StripBomPaths == ASSUME Going, Comparable, StripBom PROVE PathInv'
<1>1. Ready /\ state = "Init" /\ phase = "top"
  BY DEF StripBom
<1>2. ~scanned
  BY <1>1 DEF Going, PathInv, Abreast, AbreastAt
<1>3. /\ StreamInv /\ PathInv /\ Running /\ Ahead /\ Regular /\ input \in Seq(Bytes)
      /\ offset = consumed /\ segs = <<>>
  BY <1>2, AheadIs
<1>4. consumed = 0 /\ offset = 0 /\ (avail > 0 /\ Marked => avail >= BomLen)
  BY <1>1, <1>3 DEF Ahead
<1>5. /\ avail \in Nat /\ InputEnd \in Nat /\ consumed + avail <= InputEnd /\ avail <= InputEnd
      /\ Seen(input) \in Nat /\ Seen(input) <= InputEnd
      /\ \A end \in Nat : end <= InputEnd => (AdmitsBytes(end) <=> end <= Seen(input))
      /\ Sliced!Truncated(input) <=> Seen(input) # InputEnd
  <2>1. /\ avail \in Nat /\ InputEnd \in Nat /\ consumed + avail <= InputEnd
        /\ Seen(input) \in Nat /\ Seen(input) <= InputEnd
        /\ \A end \in Nat : end <= InputEnd => (AdmitsBytes(end) <=> end <= Seen(input))
        /\ Sliced!Truncated(input) <=> Seen(input) # InputEnd
    BY <1>3, WithinSeen
  <2>2. avail <= InputEnd
    <3> HIDE DEF InputEnd
    <3> QED BY <1>4, <2>1
  <2> QED BY <2>1, <2>2
<1>6. /\ Start \in Nat /\ MarkEnd \in Nat /\ MarkEnd <= Start
      /\ Marked => BomLen <= InputEnd /\ MarkEnd = BomLen
      /\ ~Marked => MarkEnd = 0
  BY <1>3, StartIs
<1>7. BomInBuffer <=> Marked
  <2>1. BomInBuffer <=> avail >= BomLen /\ \A q \in 0 .. 0+BomLen-1 : At(input, q) = "bom"
    BY <1>4, <1>5 DEF BomInBuffer, StartsWithBom
  <2>2. Marked <=> InputEnd >= BomLen /\ \A q \in 0 .. 0+BomLen-1 : At(input, q) = "bom"
    BY <1>5 DEF Marked, StartsWithBom
  <2>3. Marked => avail >= BomLen
    <3>1. avail > 0 \/ Left = 0
      BY <1>1 DEF Ready
    <3>2. Left = InputEnd
      BY <1>4, <1>5 DEF Left, InputEnd
    <3> HIDE DEF InputEnd, Marked
    <3>3. Marked => InputEnd > 0
      BY <1>5, <1>6, SyntaxAssumption
    <3> QED BY <1>4, <1>5, <3>1, <3>2, <3>3
  <2>4. avail >= BomLen => InputEnd >= BomLen
    <3> HIDE DEF InputEnd
    <3> QED BY <1>5, SyntaxAssumption
  <2> HIDE DEF At, Marked, InputEnd
  <2> QED BY <2>1, <2>2, <2>3, <2>4
<1>8. input' = input
  BY DEF StripBom, readerVars, Consume
<1>9. CASE BomInBuffer /\ ~AdmitsBytes(offset + BomLen)
  <2>1. Fail(BytesExceeded)
    BY <1>9 DEF StripBom
  <2>2. ~(BomLen <= Seen(input)) /\ BomLen <= InputEnd /\ MarkEnd = BomLen
    <3>1. BomLen \in Nat /\ offset + BomLen = BomLen
      BY <1>4, SyntaxAssumption
    <3> QED BY <1>5, <1>6, <1>7, <1>9, <3>1
  <2>3. Sliced!Truncated(input)
    <3> HIDE DEF InputEnd
    <3> QED BY <1>5, <2>2
  <2>4. Sliced!PrologueEnd(input) > Seen(input)
    <3>1. Start <= Sliced!PrologueEnd(input) /\ Sliced!PrologueEnd(input) \in Nat
      BY <1>3, PrologueWithin DEF Start
    <3> QED BY <1>5, <1>6, <2>2, <3>1, SyntaxAssumption
  <2>5. AgreesOn(BytesExceeded)
    BY <1>3, <2>3, <2>4, ShortPrologue
  <2> QED BY <1>3, <1>8, <2>1, <2>5, FailPaths
<1>10. CASE ~(BomInBuffer /\ ~AdmitsBytes(offset + BomLen))
  <2>1. /\ phase' = "lead" /\ state' = state /\ term' = term /\ budget' = budget /\ scanned' = scanned
        /\ segs' = segs /\ error' = error /\ ended' = ended
    BY <1>10 DEF StripBom
  <2>2. consumed' = MarkEnd
    <3>1. CASE BomInBuffer
      <4>1. consumed' = consumed + BomLen
        BY <1>10, <3>1 DEF StripBom, Consume
      <4> QED BY <1>4, <1>6, <1>7, <3>1, <4>1, SyntaxAssumption
    <3>2. CASE ~BomInBuffer
      <4>1. consumed' = consumed
        BY <3>2 DEF StripBom, readerVars
      <4> QED BY <1>4, <1>6, <1>7, <3>2, <4>1
    <3> QED BY <3>1, <3>2
  <2>3. PICK w \in Nat : w = consumed'
    BY <1>6, <2>2
  <2>4. MarkEnd <= w /\ w <= Start
    BY <1>6, <2>2, <2>3
  <2>5. ~scanned'
    BY <1>2, <2>1
  <2> QED BY <1>2, <1>8, <2>1, <2>3, <2>4, <2>5, StaysAhead
<1> QED BY <1>9, <1>10

LEMMA PathStep ==
  ASSUME Comparable, StreamInv, PathInv, [WholeMarkNext]_vars
  PROVE  PathInv'
<1>1. [Next]_vars
  BY DEF WholeMarkNext, Next, FillBufWhole
<1>2. CASE ~Running
  BY <1>1, <1>2, DonePaths
<1>3. CASE Running /\ UNCHANGED vars /\ Regular
  BY <1>3, BufferPaths DEF vars, readerVars, slowVars, Going
<1>4. CASE Running /\ UNCHANGED vars /\ ~Regular
  <2>1. input' = input /\ error' = error /\ state' = state /\ ended' = ended
    BY <1>4 DEF vars
  <2> QED BY <1>4, <2>1, GoPaths DEF Running
<1>5. CASE Running /\ WholeMarkNext /\ ~Regular
  <2>1. Next
    BY <1>5 DEF WholeMarkNext, Next, FillBufWhole
  <2> QED BY <1>5, <2>1, IrregularPaths
<1>6. CASE Running /\ WholeMarkNext /\ Regular
  <2>1. Going
    BY <1>6 DEF Going
  <2>2. CASE FillBufWhole \/ FillFails
    BY <2>1, <2>2, FillPaths, FillFailsPaths
  <2>3. CASE FastPath
    BY <2>1, <2>3, FastEofPaths, NeedMorePaths, FastTooLongPaths, FastOverBudgetPaths,
       FastSkipPaths, FastParsePaths DEF FastPath
  <2>4. CASE SlowPath
    <3>1. CASE StripBom
      BY <2>1, <3>1, StripBomPaths
    <3>2. CASE phase = "lead" /\ (SlowOverBudget \/ SlowEof \/ SkipWhitespace \/ StrayTerminator
                                  \/ StartUna \/ StartSegment)
      <4>1. scanned => ~StartUna
        BY DEF StartUna
      <4> QED BY <2>1, <3>2, <4>1, LeadPaths, AheadLeadPaths
    <3>3. CASE phase = "una" /\ (SlowOverBudget \/ UnaEof \/ ReadUna \/ NotUna \/ AdoptUna)
      <4>1. ~scanned
        BY <2>1, <3>3 DEF Going, PathInv, Abreast
      <4> QED BY <2>1, <3>3, <4>1, AheadBreaks, ReadUnaPaths, NotUnaPaths, AdoptUnaPaths
    <3>4. CASE phase = "body" /\ (SlowOverBudget \/ SlowTooLong \/ ReadBody \/ SlowSegment \/ BodyEof)
      BY <2>1, <3>4, BodyPaths
    <3>5. /\ SlowOverBudget => phase \in {"lead", "una", "body"}
          /\ SlowEof \/ SkipWhitespace \/ StrayTerminator \/ StartUna \/ StartSegment => phase = "lead"
          /\ UnaEof \/ ReadUna \/ NotUna \/ AdoptUna => phase = "una"
          /\ SlowTooLong \/ ReadBody \/ SlowSegment \/ BodyEof => phase = "body"
      BY DEF SlowOverBudget, SlowEof, SkipWhitespace, StrayTerminator, StartUna, StartSegment,
         UnaEof, ReadUna, NotUna, AdoptUna, SlowTooLong, Oversized, ReadBody, SlowSegment, BodyEof
    <3> QED BY <2>4, <3>1, <3>2, <3>3, <3>4, <3>5 DEF SlowPath
  <2> QED BY <1>6, <2>2, <2>3, <2>4 DEF WholeMarkNext
<1> QED BY <1>2, <1>3, <1>4, <1>5, <1>6

LEMMA PathInit == Init => PathInv
<1> SUFFICES ASSUME Init PROVE PathInv
  OBVIOUS
<1>1. /\ segs = <<>> /\ budget = NewBudget /\ state = "Init" /\ phase = "top" /\ consumed = 0
      /\ avail = 0 /\ term = (IF Advice = None THEN "term" ELSE Advice) /\ ~scanned
      /\ error = NoError /\ ended = FALSE
  BY DEF Init
<1>2. Running
  BY <1>1 DEF Running
<1>3. Ahead
  BY <1>1 DEF Ahead
<1> QED BY <1>1, <1>2, <1>3 DEF PathInv, RegularPathsAgree, Answered

(* Whatever chunks the reader is given, so long as a byte order mark comes *)
(* whole, the iterator over a BufRead hands out, on a regular input, the   *)
(* segments that the iterator over the slice does, and agrees with it on   *)
(* the verdict.                                                            *)
THEOREM PathsAgree ==
  ASSUME MaxSegmentBytes >= 2, Advice \notin {"ws", "rel", "U", "N"}
  PROVE  FairWholeMarkSpec => []RegularPathsAgree
<1>0. Comparable
  BY DEF Comparable
<1>1. Init => StreamInv /\ PathInv
  BY StreamInit, PathInit
<1>2. StreamInv /\ PathInv /\ [WholeMarkNext]_vars => (StreamInv /\ PathInv)'
  <2> SUFFICES ASSUME StreamInv, PathInv, [WholeMarkNext]_vars PROVE (StreamInv /\ PathInv)'
    OBVIOUS
  <2>1. [Next]_vars
    BY DEF WholeMarkNext, Next, FillBufWhole
  <2> QED BY <1>0, <2>1, StreamStep, PathStep
<1>3. StreamInv /\ PathInv => RegularPathsAgree
  BY DEF PathInv
<1> QED BY <1>1, <1>2, <1>3, PTL DEF FairWholeMarkSpec
=============================================================================
