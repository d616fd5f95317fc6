---------------------------- MODULE SegmentStream ----------------------------
(***************************************************************************)
(* OwnedSegmentStream (parser.rs): the segment iterator over a BufRead.    *)
(*                                                                         *)
(* The reader delivers the input in chunks of any size, so a buffer may    *)
(* end at any byte.  While Running the iterator looks for a whole segment  *)
(* in the buffer (the fast path, try_fast_segment); when there is none,    *)
(* and before the header has been scanned, it reads byte by byte (the slow *)
(* path, read_next_raw_segment).  One step is one fill_buf, one decision   *)
(* of the fast path, or one byte of the slow path.                         *)
(*                                                                         *)
(* Every segment counts as an ordinary one against the budget: the message *)
(* limits are the subject of MessageWindows.                               *)
(***************************************************************************)
EXTENDS Syntax, Budget

CONSTANTS
  Inputs,     \* the inputs to read, each a sequence of byte classes
  Advice      \* ReaderConfig::service_string_advice: a terminator, or None

ASSUME InputsAssumption == Inputs \subseteq Seq(Bytes)

ASSUME AdviceAssumption == Advice \in Bytes \cup {None}

VARIABLES
  input,      \* the bytes behind the reader
  consumed,   \* how many of them the reader has given up (BufRead::consume)
  avail,      \* how many more are in its buffer (what fill_buf returns)
  state,      \* OwnedSegmentStream::state
  offset,     \* OwnedSegmentStream::stream_offset, and the slow path's cursor
  term,       \* the segment terminator of OwnedSegmentStream::ssa
  budget,     \* OwnedSegmentStream::budget
  phase,      \* where next() is: "top", or a stage of the slow path
  scanned,    \* read_next_raw_segment's scanned_header
  raw,        \* the bytes the slow path holds: RawSegment::bytes or a prefix
  rawStart,   \* RawSegment::start_offset
  segs,       \* the segments handed out, each [from, to)
  error,      \* the error that ended the iteration
  ended       \* next() has returned None at the end of the input

readerVars == <<input, consumed, avail>>
slowVars   == <<phase, scanned, raw, rawStart>>
vars == <<input, consumed, avail, state, offset, term, budget, slowVars, segs,
          error, ended>>

LimitError(limit, at) == Error(limit, at)
BytesExceeded == LimitError("max_input_bytes", MaxInputBytes)

Init ==
  /\ input \in Inputs
  /\ consumed = 0 /\ avail = 0
  /\ state = "Init"
  /\ offset = 0
  /\ term = IF Advice = None THEN "term" ELSE Advice
  /\ budget = NewBudget
  /\ phase = "top" /\ scanned = FALSE /\ raw = <<>> /\ rawStart = 0
  /\ segs = <<>> /\ error = NoError /\ ended = FALSE

-----------------------------------------------------------------------------
(* The reader. *)
Left == Len(input) - consumed
Running == state # "Done" /\ ~ended
Ready == Running /\ (avail > 0 \/ Left = 0)      \* fill_buf returns at once
AtEof == avail = 0 /\ Left = 0                   \* ... and returns nothing

(* The slow path checks the segment's size before it asks for a byte. *)
LateOversized == phase = "body" /\ Len(raw) > MaxSegmentBytes + 1   \* fault

Oversized == phase = "body" /\ Len(raw) > MaxSegmentBytes

FillBuf ==
  /\ Running /\ avail = 0 /\ Left > 0 /\ ~Oversized
  /\ \E n \in 1..Left : avail' = n
  /\ UNCHANGED <<input, consumed, state, offset, term, budget, slowVars, segs,
                 error, ended>>

(* fail: the iterator is Done and yields the error. *)
Fail(e) ==
  /\ state' = "Done"
  /\ error' = e
  /\ UNCHANGED <<term, budget, slowVars, segs, ended>>

FillFails ==
  /\ Running /\ avail = 0 /\ ~Oversized
  /\ Fail(Error("Io", NoOffset))
  /\ UNCHANGED <<readerVars, offset>>

Consume(n) ==
  /\ consumed' = consumed + n
  /\ avail' = avail - n
  /\ offset' = offset + n
  /\ UNCHANGED input

(* next() returns None. *)
End ==
  /\ ended' = TRUE
  /\ UNCHANGED <<readerVars, state, offset, term, budget, slowVars, segs, error>>

(* hand_out: the budget admits the segment and counts it, or refuses it.   *)
(* next() returns either way; a segment of the slow path clears raw.       *)
HandOut(segment) ==
  IF AdmitsSegment(budget, "BGM")
  THEN /\ budget' = Account(budget, "BGM")
       /\ segs' = Append(segs, segment)
       /\ state' = "Running"
       /\ phase' = "top" /\ scanned' = TRUE /\ raw' = <<>> /\ rawStart' = 0
       /\ UNCHANGED <<term, error, ended>>
  ELSE Fail(LimitError(RefusedLimit(budget, "BGM"), segment.from))

-----------------------------------------------------------------------------
(***************************************************************************)
(* The fast path.                                                          *)
(***************************************************************************)
AtTop == Ready /\ state = "Running" /\ phase = "top"

(* Fault: the release character is not honoured.                           *)
RawInBuffer ==
  {p \in consumed .. consumed + avail - 1 : At(input, p) = term}

(* The first unescaped terminator in the buffer, relative to its start.    *)
InBuffer == UnescapedTerms(input, consumed, consumed + avail, term)
Pos == LeastOr(InBuffer, 0) - consumed
Unit == Slice(input, consumed, consumed + Pos + 1)

FastEof == AtTop /\ AtEof /\ End

NeedMore ==
  /\ AtTop /\ ~AtEof /\ InBuffer = {}
  /\ phase' = "lead"
  /\ UNCHANGED <<readerVars, state, offset, term, budget, scanned, raw,
                 rawStart, segs, error, ended>>

FastUnit == AtTop /\ ~AtEof /\ InBuffer # {}

(* The byte that proves the segment oversized: its first byte is the first *)
(* that is not whitespace.  The size itself is that of the whole unit.     *)
DetectedAt == offset + SkipWs(Unit, 0, Pos) + MaxSegmentBytes + 1
FastOversized == Pos > MaxSegmentBytes /\ SeesByte(DetectedAt)

FastTooLong ==
  /\ FastUnit /\ FastOversized
  /\ Fail(Error("SegmentTooLong", offset))
  /\ UNCHANGED <<readerVars, offset>>

FastOverBudget ==
  /\ FastUnit /\ ~FastOversized
  /\ ~AdmitsBytes(offset + Pos + 1)
  /\ Fail(BytesExceeded)
  /\ UNCHANGED <<readerVars, offset>>

FastAdmitted == FastUnit /\ ~FastOversized /\ AdmitsBytes(offset + Pos + 1)

Blank == SkipWs(Unit, 0, Pos) = Pos

(* A unit with nothing before its terminator but whitespace is skipped. *)
SkipInPlace ==                          \* fault: the unit is not consumed
  /\ FastAdmitted /\ Blank
  /\ UNCHANGED vars

FastSkip ==
  /\ FastAdmitted /\ Blank
  /\ Consume(Pos + 1)
  /\ UNCHANGED <<state, term, budget, slowVars, segs, error, ended>>

(* Otherwise the unit is parsed on its own, in place.  A parse error does  *)
(* not consume the unit, and its offset is relative to the unit.           *)
FastParsed == ParseSegment(Unit, Pos + 1, term, 0)

FastParseError ==
  /\ FastAdmitted /\ ~Blank /\ FastParsed.is = "error"
  /\ Fail(FastParsed.error)
  /\ UNCHANGED <<readerVars, offset>>

FastSegment ==
  /\ FastAdmitted /\ ~Blank /\ FastParsed.is = "segment"
  /\ Consume(Pos + 1)
  /\ HandOut([from |-> offset + FastParsed.from, to |-> offset + FastParsed.to])

-----------------------------------------------------------------------------
(***************************************************************************)
(* The slow path.  It starts with the byte order mark, looked for only     *)
(* before the header has been scanned and only in the buffer at hand.      *)
(***************************************************************************)
BomInBuffer == StartsWithBom(input, consumed, consumed + avail)

StripBom ==
  /\ Ready /\ state = "Init" /\ phase = "top"
  /\ IF BomInBuffer /\ ~AdmitsBytes(offset + BomLen)
     THEN Fail(BytesExceeded) /\ UNCHANGED <<readerVars, offset>>
     ELSE /\ IF BomInBuffer THEN Consume(BomLen)
                            ELSE UNCHANGED <<readerVars, offset>>
          /\ phase' = "lead"
          /\ UNCHANGED <<state, term, budget, scanned, raw, rawStart, segs,
                         error, ended>>

(* read_next_byte: the byte at hand, unless it lies beyond the budget. *)
Byte == At(input, consumed)
Refused == ~AtEof /\ ~SeesByte(offset + 1)
Reads == Ready /\ ~AtEof /\ SeesByte(offset + 1)

(* The slow path's byte is refused by the byte budget.  Within the UNA     *)
(* lookahead, a segment already longer than MaxSegmentBytes comes first.   *)
SlowOverBudget ==
  /\ Ready /\ phase \in {"lead", "una", "body"} /\ Refused
  /\ ~Oversized
  /\ Fail(IF phase = "una" /\ Len(raw) \in 1..2 /\ Len(raw) > MaxSegmentBytes
          THEN Error("SegmentTooLong", rawStart)
          ELSE BytesExceeded)
  /\ UNCHANGED <<readerVars, offset>>

(* read_next_non_ws_byte *)
SlowEof == Ready /\ phase = "lead" /\ AtEof /\ End

SkipWhitespace ==
  /\ Reads /\ phase = "lead" /\ Byte = "ws"
  /\ Consume(1)
  /\ UNCHANGED <<state, term, budget, slowVars, segs, error, ended>>

(* A terminator with nothing before it: an empty segment, which the parser *)
(* refuses.                                                                *)
StrayTerminator ==
  /\ Reads /\ phase = "lead" /\ Byte = term
  /\ Consume(1)
  /\ Fail(ParseSegment(<<term>>, 1, term, 0).error)

(* A U before the header has been scanned may begin a UNA. *)
StartUna ==
  /\ Reads /\ phase = "lead" /\ Byte = "U" /\ ~scanned
  /\ Consume(1)
  /\ phase' = "una" /\ raw' = <<Byte>> /\ rawStart' = offset
  /\ UNCHANGED <<state, term, budget, scanned, segs, error, ended>>

(* Any other byte is the first of a segment. *)
StartSegment ==
  /\ Reads /\ phase = "lead" /\ Byte \notin {"ws", term}
  /\ Byte = "U" => scanned
  /\ Consume(1)
  /\ phase' = "body" /\ raw' = <<Byte>> /\ rawStart' = offset /\ scanned' = TRUE
  /\ UNCHANGED <<state, term, budget, segs, error, ended>>

(* The UNA lookahead reads on while the bytes still spell UNA. *)
UnaSoFar == raw \o <<Byte>> \in {<<"U", "N">>, <<"U", "N", "A">>}
             \/ Len(raw) >= 3

ReadUna ==
  /\ Reads /\ phase = "una" /\ UnaSoFar
  /\ Len(raw) + 1 < UnaLen
  /\ Consume(1)
  /\ raw' = Append(raw, Byte)
  /\ UNCHANGED <<state, term, budget, phase, scanned, rawStart, segs, error,
                 ended>>

(* The ninth byte: the service characters are validated, and adopted       *)
(* unless the caller supplied its own.                                     *)
AdoptUna ==
  /\ Reads /\ phase = "una" /\ UnaSoFar
  /\ Len(raw) + 1 = UnaLen
  /\ Consume(1)
  /\ IF ValidAdvice(Append(raw, Byte))
     THEN /\ term' = IF Advice = None THEN Byte ELSE term
          /\ phase' = "lead" /\ scanned' = TRUE /\ raw' = <<>> /\ rawStart' = 0
          /\ UNCHANGED <<state, budget, segs, error, ended>>
     ELSE Fail(Error("InvalidUna", NoOffset))

UnaEof ==
  /\ Ready /\ phase = "una" /\ AtEof
  /\ Fail(Error("UnexpectedEof", offset))
  /\ UNCHANGED <<readerVars, offset>>

(***************************************************************************)
(* The segment's bytes are whole: they are parsed with their terminator    *)
(* and the segment is handed out, or its error is.                         *)
(***************************************************************************)
Finish(bytes) ==
  LET parsed == ParseSegment(Append(bytes, term), Len(bytes) + 1, term, 0)
  IN  IF parsed.is = "segment"
      THEN HandOut([from |-> rawStart + parsed.from, to |-> rawStart + parsed.to])
      ELSE Fail(parsed.error)

(* The bytes no longer spell UNA: what was read begins a segment           *)
(* (finish_segment), and the last byte may already be its terminator.      *)
NotUna ==
  /\ Reads /\ phase = "una" /\ ~UnaSoFar
  /\ Consume(1)
  /\ IF Len(raw) > MaxSegmentBytes THEN Fail(Error("SegmentTooLong", rawStart))
     ELSE IF Byte = term THEN Finish(raw)
     ELSE /\ phase' = "body" /\ scanned' = TRUE /\ raw' = Append(raw, Byte)
          /\ UNCHANGED <<state, term, budget, rawStart, segs, error, ended>>

(* read_remainder_of_segment: the size is checked before each byte. *)
SlowTooLong ==
  /\ Running /\ Oversized
  /\ Fail(Error("SegmentTooLong", rawStart))
  /\ UNCHANGED <<readerVars, offset>>

AfterRelease == raw[Len(raw)] = "rel"     \* fault: a doubled release escapes

EscapedNext == Escaped(raw, 0, Len(raw))

ReadBody ==
  /\ Reads /\ phase = "body" /\ ~Oversized
  /\ Byte # term \/ EscapedNext
  /\ Consume(1)
  /\ raw' = Append(raw, Byte)
  /\ UNCHANGED <<state, term, budget, phase, scanned, rawStart, segs, error,
                 ended>>

SlowSegment ==
  /\ Reads /\ phase = "body" /\ ~Oversized
  /\ Byte = term /\ ~EscapedNext
  /\ Consume(1)
  /\ Finish(raw)

BodyEofInSegment ==          \* fault: the offset is that within the segment
  /\ Ready /\ phase = "body" /\ AtEof /\ ~Oversized
  /\ Fail(IF EscapedNext THEN Error("InvalidReleaseSequence", Len(raw) - 1)
                         ELSE Error("UnexpectedEof", Len(raw)))
  /\ UNCHANGED <<readerVars, offset>>

BodyEof ==
  /\ Ready /\ phase = "body" /\ AtEof /\ ~Oversized
  /\ Fail(IF EscapedNext
          THEN Error("InvalidReleaseSequence", rawStart + Len(raw) - 1)
          ELSE Error("UnexpectedEof", rawStart + Len(raw)))
  /\ UNCHANGED <<readerVars, offset>>

-----------------------------------------------------------------------------
FastPath ==
  \/ FastEof \/ NeedMore \/ FastTooLong \/ FastOverBudget \/ FastSkip
  \/ FastParseError \/ FastSegment

SlowPath ==
  \/ StripBom \/ SlowOverBudget \/ SlowEof \/ SkipWhitespace
  \/ StrayTerminator \/ StartUna \/ StartSegment \/ ReadUna \/ AdoptUna
  \/ UnaEof \/ NotUna \/ SlowTooLong \/ ReadBody \/ SlowSegment \/ BodyEof

Next == FillBuf \/ FillFails \/ FastPath \/ SlowPath

Spec == Init /\ [][Next]_vars

-----------------------------------------------------------------------------
(* The variables have their types. *)
TypeOK ==
  /\ input \in Seq(Bytes)
  /\ consumed \in 0..Len(input) /\ avail \in 0..Left
  /\ state \in {"Init", "Running", "Done"}
  /\ offset \in Nat
  /\ term \in Bytes
  /\ budget \in Budgets
  /\ phase \in {"top", "lead", "una", "body"} /\ scanned \in BOOLEAN
  /\ raw \in Seq(Bytes) /\ rawStart \in Nat
  /\ segs \in Seq([from: Nat, to: Nat])
  /\ ended \in BOOLEAN

(***************************************************************************)
(* What the invariants below rest on: stream_offset is the number of bytes *)
(* given up by the reader, and what the slow path holds is what was read   *)
(* last.  Of the offsets in errors this says nothing.                      *)
(***************************************************************************)
OffsetTracksInput ==
  /\ offset = consumed
  /\ Running /\ phase \in {"una", "body"} =>
       raw = Slice(input, rawStart, consumed)

(***************************************************************************)
(* max_input_bytes: no byte beyond the budget is given up by the reader,   *)
(* and so none is part of a segment handed out.                            *)
(***************************************************************************)
NothingBeyondBudget ==
  MaxInputBytes # None =>
    /\ consumed <= MaxInputBytes
    /\ \A i \in 1..Len(segs) : segs[i].to <= MaxInputBytes

(***************************************************************************)
(* max_segment_bytes bounds the memory of the slow path: it never holds    *)
(* more than one byte past the limit, however the input is chunked, and    *)
(* before the header never more than a UNA.                                *)
(***************************************************************************)
MemoryBounded ==
  /\ phase = "body" => Len(raw) <= MaxSegmentBytes + 1
  /\ Len(raw) < UnaLen \/ phase = "body"

(* What lies between two segments: whitespace and empty segments. *)
IsGap(from, to) ==
  from <= to /\ \A p \in from .. to-1 : At(input, p) \in {"ws", term}

(***************************************************************************)
(* The segments handed out are those of the input, in order: each ends at  *)
(* the first terminator the release character leaves in force, and         *)
(* whatever the chunks and the path each was read by, no byte between two  *)
(* of them, or between the last one and the reader's place, is dropped or  *)
(* read twice.                                                             *)
(***************************************************************************)
SegmentsTileInput ==
  /\ \A i \in 1..Len(segs) :
       UnescapedTerms(input, segs[i].from, segs[i].to, term) = {segs[i].to - 1}
  /\ \A i \in 1..Len(segs)-1 : IsGap(segs[i].to, segs[i+1].from)
  /\ segs # <<>> /\ phase = "top" /\ Running => IsGap(segs[Len(segs)].to, consumed)

(***************************************************************************)
(* The iterator returns: no chunking makes the two paths hand a buffer     *)
(* back and forth for ever, and no unit is skipped without being consumed. *)
(***************************************************************************)
Terminates == <>(~Running)
=============================================================================
