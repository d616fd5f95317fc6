----------------------------- MODULE SegmentPaths -----------------------------
(***************************************************************************)
(* The two segment iterators side by side: whatever chunks the reader is   *)
(* given, OwnedSegmentStream should yield what FromBytesIter yields from   *)
(* the same bytes in memory.  They do not on every input; Regular says on  *)
(* which they do.                                                          *)
(***************************************************************************)
EXTENDS SegmentStream

(* No message limit is at stake: every segment is an ordinary one. *)
Ordinary(bytes) == "BGM"

Sliced == INSTANCE FromBytes WITH SliceAdvice <- Advice, TagOf <- Ordinary

(* What the iterator over the whole slice yields: segments, then an error. *)
SliceYields == Sliced!Yields(input)

(* An I/O error is the reader's own; nothing in the bytes accounts for it. *)
Answered == ~Running /\ error.kind # "Io"

(***************************************************************************)
(* The units of the input: what lies between two terminators, from the end *)
(* of the prologue on.                                                     *)
(***************************************************************************)
InputEnd == Len(input)
BodyBegin == Sliced!PrologueEnd(input)
InputTerm == Sliced!TermOf(input)
Terminators == UnescapedTerms(input, BodyBegin, InputEnd, InputTerm)

UnitStarts == ({BodyBegin} \cup {p + 1 : p \in Terminators}) \ {InputEnd}
UnitEnd(p) == LeastOr({q \in Terminators : q >= p}, InputEnd)
Lead(p)    == SkipWs(input, p, UnitEnd(p))

(* A terminator with nothing before it. *)
EmptyUnit(p) == Lead(p) = UnitEnd(p) /\ UnitEnd(p) < InputEnd

(* A segment that is oversized with the whitespace that leads it. *)
PaddedOverLimit(p) == Lead(p) > p /\ UnitEnd(p) - p > MaxSegmentBytes

(* An oversized segment that is also malformed before its limit. *)
OversizedAndMalformed(p) ==
  /\ UnitEnd(p) - Lead(p) > MaxSegmentBytes
  /\ ParseSegment(input, InputEnd, InputTerm, p).error.kind # "SegmentTooLong"

(* A UNA that the input does not hold whole. *)
CutUna ==
  LET start == PrologueLen(input)
  IN  /\ Slice(input, start, Lesser(start + 3, InputEnd)) = <<"U", "N", "A">>
      /\ ~HasUna(input, start)

Regular ==
  ~CutUna /\ \A p \in UnitStarts : ~EmptyUnit(p) /\ ~PaddedOverLimit(p)

OneFault == \A p \in UnitStarts : ~OversizedAndMalformed(p)

(***************************************************************************)
(* The byte order mark is recognised only in a buffer that holds all of    *)
(* it: the first chunk of an input that begins with one.                   *)
(***************************************************************************)
MarkArrivesWhole ==
  consumed = 0 /\ avail' > avail /\ StartsWithBom(input, 0, Len(input))
    => avail' >= BomLen

FillBufWhole == FillBuf /\ MarkArrivesWhole

WholeMarkNext == FillBufWhole \/ FillFails \/ FastPath \/ SlowPath

FairWholeMarkSpec == Init /\ [][WholeMarkNext]_vars /\ WF_vars(WholeMarkNext)

-----------------------------------------------------------------------------
LimitKinds == {"SegmentTooLong", "max_segments", "max_input_bytes"}

(* On regular inputs the paths hand out the same segments and agree on the *)
(* verdict, whatever the chunks; and where no unit has two faults to       *)
(* choose from, a limit error is the same in kind, limit and offset.       *)
RegularPathsAgree ==
  Answered /\ Regular =>
    /\ segs = SliceYields.segs
    /\ error = NoError <=> SliceYields.error = NoError
    /\ OneFault /\ {error.kind, SliceYields.error.kind} \cap LimitKinds # {} =>
         error = SliceYields.error

(***************************************************************************)
(* Where an error is.  Every offset is promised to be one in the input     *)
(* (error.rs:77), but what Parser finds in a unit stays relative to what   *)
(* it was given, and the two paths give it different things: the fast path *)
(* the unit with the blanks that lead it, the slow path the unit without.  *)
(* The other errors are made by the paths themselves, which add the base.  *)
(***************************************************************************)
UnitGiven == IF phase = "top" THEN consumed ELSE rawStart

Located(e) ==
  IF e.kind \in {"InvalidText", "InvalidDelimiter"}
  THEN [e EXCEPT !.at = UnitGiven + @] ELSE e

(* The reader path never parses a last unit that no terminator ends.       *)
UnparsedFault ==
  /\ error \in {Error("UnexpectedEof", InputEnd), Error("InvalidReleaseSequence", InputEnd - 1)}
  /\ SliceYields.error.kind \in {"InvalidText", "InvalidDelimiter", "InvalidSegmentTag"}
  /\ SliceYields.error.at \in {NoOffset} \cup rawStart .. InputEnd

(* Where no unit has two faults to choose from, the error the reader path  *)
(* ends with is, once located, the slice path's in kind and offset,        *)
(* whatever the chunks and the path that met it; unless the input ends in  *)
(* an open segment, of which the slice path reports a fault within it.     *)
ErrorsAreLocated ==
  Answered /\ Regular /\ OneFault /\ error # NoError =>
    Located(error) = SliceYields.error \/ UnparsedFault
=============================================================================
