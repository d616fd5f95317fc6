--------------------------- MODULE RecoveringScan ---------------------------
(***************************************************************************)
(* RecoveringScan (recover.rs): the parser run over an input that may not  *)
(* parse.  Where it refuses a segment the scan records a fault and resumes *)
(* after the segment's terminator; some faults are terminal.  One step is  *)
(* one call of next(), which yields one item.                              *)
(***************************************************************************)
EXTENDS Prologue, FiniteSets

CONSTANTS
  ScanInputs,    \* the inputs to scan
  MaxFaults      \* RecoveryConfig::max_faults

ASSUME ScanInputsAssumption == ScanInputs \subseteq Seq(Bytes)

ASSUME MaxFaultsAssumption == MaxFaults \in Nat

VARIABLES
  input,     \* RecoveringScan::input
  parser,    \* byte_position of the parser, or NoParser
  pending,   \* faults waiting to be yielded
  items,     \* the items yielded so far
  faults,    \* RecoveringScan::faults
  budget,    \* RecoveringScan::budget
  cursor,    \* the furthest byte an item reaches
  done       \* RecoveringScan::done

vars == <<input, parser, pending, items, faults, budget, cursor, done>>

NoParser == -1
NoTag == "no tag"

(* Scanned::Segment, Scanned::Fault: what lies at from .. to - 1. *)
SegmentItem(from, to) ==
  [is |-> "segment", from |-> from, to |-> to, tag |-> TagAt(input, from),
   error |-> NoError, terminal |-> FALSE]

FaultItem(from, to, tag, error, terminal) ==
  [is |-> "fault", from |-> from, to |-> to, tag |-> tag, error |-> error,
   terminal |-> terminal]

BytesLimit == Error("max_input_bytes", MaxInputBytes)

LimitExceeded ==
  {"max_input_bytes", "max_segments", "max_messages",
   "max_segments_per_message", "max_faults"}

TerminalKinds ==
  LimitExceeded \cup {"UnexpectedEof", "InvalidUna", "SegmentTooLong"}

(* raw_tag: the bytes before the first separator or terminator, when they  *)
(* can be a tag.                                                           *)
RawTag(start) ==
  LET end == LeastOr({p \in start .. Len(input)-1 :
                        At(input, p) \in {"sep", TermOf(input)}}, Len(input))
      tag == Slice(input, start, end)
  IN  IF Len(tag) \in 1..TagLen /\ \A i \in 1..Len(tag) : tag[i] \in TagLetters
      THEN TagOf(tag) ELSE NoTag

Init ==
  /\ input \in ScanInputs
  /\ items = <<>> /\ faults = 0 /\ budget = NewBudget
  /\ cursor = PrologueLen(input)
  /\ done = FALSE
  /\ IF BadUna(input)
     THEN /\ parser = NoParser
          /\ pending = <<FaultItem(PrologueLen(input), PrologueEnd(input), "UNA",
                                   Error("InvalidUna", NoOffset), TRUE)>>
     ELSE parser = PrologueEnd(input) /\ pending = <<>>

-----------------------------------------------------------------------------
(* exceeded: the bytes are checked first, then the counts, then the faults. *)
Exceeded(tag, start, end, fault) ==
  IF ~AdmitsBytes(end) THEN BytesLimit
  ELSE IF ~AdmitsSegment(budget, tag) THEN Error(RefusedLimit(budget, tag), start)
  ELSE IF fault /\ faults >= MaxFaults THEN Error("max_faults", start)
  ELSE NoError

(* An oversized segment is read no further than the byte that proves it. *)
WholeFault(fault) == fault.to                   \* fault: it is read to its end

ReadEnd(fault) ==
  IF fault.error.kind = "SegmentTooLong"
  THEN Lesser(fault.to, fault.error.at + MaxSegmentBytes + 1)
  ELSE fault.to

Unlimited(fault) == fault                       \* fault: no limit applies

(* emit_fault: the fault, or the limit it would exceed. *)
Settled(fault) ==
  LET limit == IF fault.error.kind \in LimitExceeded THEN NoError
               ELSE Exceeded(fault.tag, fault.from, ReadEnd(fault), TRUE)
  IN  IF limit # NoError
      THEN [fault EXCEPT !.error = limit, !.terminal = TRUE]
      ELSE IF ReadEnd(fault) < fault.to /\ MaxInputBytes # None
      THEN [fault EXCEPT !.to = Lesser(@, MaxInputBytes)]
      ELSE fault

(* An item is yielded and counted.  A terminal fault ends the scan; after  *)
(* any other the parser stands at `next` and `rest` is pending.            *)
Yield(item, next, rest) ==
  /\ items' = Append(items, item)
  /\ budget' = Account(budget, item.tag)
  /\ cursor' = IF item.to > cursor THEN item.to ELSE cursor
  /\ faults' = faults + (IF item.is = "fault" THEN 1 ELSE 0)
  /\ done' = item.terminal
  /\ parser' = IF item.terminal THEN NoParser ELSE next
  /\ pending' = IF item.terminal THEN <<>> ELSE rest
  /\ UNCHANGED input

EmitFault(fault, next, rest) ==
  \E item \in {Settled(fault)} : Yield(item, next, rest)

-----------------------------------------------------------------------------
YieldPending ==
  /\ ~done /\ pending # <<>>
  /\ EmitFault(Head(pending), parser, Tail(pending))

Parsing == ~done /\ pending = <<>> /\ parser # NoParser
Parsed == ParseSegment(input, Len(input), TermOf(input), parser)

(* The end of the input: the whitespace after the last item counts too. *)
ReachEnd ==
  /\ Parsing /\ Parsed.is = "end"
  /\ IF AdmitsBytes(Len(input))
     THEN /\ done' = TRUE /\ parser' = NoParser
          /\ UNCHANGED <<input, pending, items, faults, budget, cursor>>
     ELSE EmitFault(FaultItem(Lesser(cursor, Len(input)), Len(input), NoTag,
                              BytesLimit, TRUE), NoParser, <<>>)

YieldSegment ==
  /\ Parsing /\ Parsed.is = "segment"
  /\ LET segment == SegmentItem(Parsed.from, Parsed.to)
         limit   == Exceeded(segment.tag, segment.from, segment.to, FALSE)
     IN  IF limit = NoError
         THEN Yield(segment, Parsed.to, <<>>)
         ELSE EmitFault(FaultItem(segment.from, Len(input), segment.tag, limit,
                                  TRUE), NoParser, <<>>)

(* fault_at: the segment at Start is refused. *)
Start == SkipWs(input, parser, Len(input))
Refused == Parsing /\ Parsed.is = "error"
Resumable == Parsed.error.kind \notin TerminalKinds

WindowEnd == Lesser(Start + MaxSegmentBytes + 1, Len(input))

Stops == UnescapedTerms(input, Start, WindowEnd, TermOf(input))

RefusedAt(to, terminal) ==
  FaultItem(Start, to, RawTag(Start), Parsed.error, terminal)

FaultIsTerminal ==
  /\ Refused /\ ~Resumable
  /\ EmitFault(RefusedAt(Len(input), TRUE), NoParser, <<>>)

(* The scan resumes after the segment's terminator ... *)
ResumeHere == Start                             \* fault: nothing is skipped

ResumeAt == LeastOr(Stops, 0) + 1

FaultAndSkip ==                                 \* fault: a byte is lost
  /\ Refused /\ Resumable /\ Stops # {}
  /\ EmitFault(RefusedAt(ResumeAt, FALSE), ResumeAt + 1, <<>>)

FaultAndResume ==
  /\ Refused /\ Resumable /\ Stops # {}
  /\ EmitFault(RefusedAt(ResumeAt, FALSE), ResumeAt, <<>>)

(* ... which the input may end before ... *)
FaultAtEnd ==
  /\ Refused /\ Resumable /\ Stops = {} /\ WindowEnd = Len(input)
  /\ EmitFault(RefusedAt(Len(input), TRUE), NoParser, <<>>)

(* ... or which lies too far: the overlong segment is the next fault. *)
FaultThenOverlong ==
  /\ Refused /\ Resumable /\ Stops = {} /\ WindowEnd < Len(input)
  /\ EmitFault(RefusedAt(WindowEnd, FALSE), NoParser,
               <<FaultItem(Start, Len(input), RawTag(Start),
                           Error("SegmentTooLong", Start), TRUE)>>)

FaultAt ==
  FaultIsTerminal \/ FaultAndResume \/ FaultAtEnd \/ FaultThenOverlong

(* A scan that is done goes on returning None. *)
Exhausted == done /\ UNCHANGED vars

Next == YieldPending \/ ReachEnd \/ YieldSegment \/ FaultAt \/ Exhausted

Spec == Init /\ [][Next]_vars

-----------------------------------------------------------------------------
FaultsAt == {i \in 1..Len(items) : items[i].is = "fault"}
IsBlank(from, to) == \A p \in from .. to-1 : At(input, p) = "ws"

(* The fault that reports a segment too long to find its end follows the   *)
(* fault that made the scan look for it, from the same byte.               *)
IsFollowUp(i) ==
  /\ i > 1 /\ items[i].is = "fault" /\ items[i].from = items[i-1].from
  /\ items[i-1].is = "fault" /\ ~items[i-1].terminal

(***************************************************************************)
(* Every item the scan goes on after ends with its segment's terminator,   *)
(* the first one in it that is not released: a fault neither swallows the  *)
(* segment after it nor leaves a part of its own to be read as one.        *)
(***************************************************************************)
ItemsEndAtTerminators ==
  \A i \in 1..Len(items) :
    \/ items[i].terminal
    \/ UnescapedTerms(input, items[i].from, items[i].to, TermOf(input)) =
         {items[i].to - 1}
    \/ IF i < Len(items) THEN IsFollowUp(i+1) ELSE pending # <<>>

(***************************************************************************)
(* The items are the input, in wire order: nothing but whitespace lies     *)
(* before, between or after them, and no byte belongs to two, except that  *)
(* a fault too long to end is reported twice; and each ends with its       *)
(* segment.                                                                *)
(***************************************************************************)
ItemsTileInput ==
  /\ ItemsEndAtTerminators
  /\ \A i \in 1..Len(items)-1 :
       IF IsFollowUp(i+1) THEN items[i].to <= items[i+1].to
       ELSE /\ items[i].to <= items[i+1].from
            /\ IsBlank(items[i].to, items[i+1].from)
  /\ items # <<>> => IsBlank(PrologueEnd(input), items[1].from)
  /\ done /\ (items = <<>> \/ ~items[Len(items)].terminal) =>
       IsBlank(IF items = <<>> THEN PrologueEnd(input) ELSE items[Len(items)].to,
               Len(input))

(***************************************************************************)
(* The scan's memory is bounded by its limits, as RecoveredInterchange     *)
(* documents: the item that exceeds one is the last, and none but the      *)
(* fault that reports a limit reaches past max_input_bytes.                *)
(***************************************************************************)
ScanBounded ==
  /\ MaxSegments # None => Len(items) <= MaxSegments + 1
  /\ Cardinality(FaultsAt) <= MaxFaults + 1
  /\ MaxInputBytes # None =>
       \A i \in 1..Len(items) :
         items[i].to <= MaxInputBytes \/ items[i].error.kind \in LimitExceeded

(***************************************************************************)
(* The scan ends, on any input: a call either ends it, or moves the parser *)
(* on, or leaves only the fault that will end it.                          *)
(***************************************************************************)
ScanAdvances ==
  [][done' \/ parser' > parser \/ (pending # pending' /\ pending'[1].terminal)]_vars
=============================================================================
