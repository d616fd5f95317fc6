------------------------------ MODULE FromBytes ------------------------------
(***************************************************************************)
(* FromBytesIter (lib.rs): the segment iterator over an input that is      *)
(* whole in memory, as the function from the input to what the iterator    *)
(* yields: the segments, then an error or the end.  It is deterministic,   *)
(* so there is nothing to interleave.                                      *)
(***************************************************************************)
EXTENDS Prologue

BytesBudgetExceeded == Error("max_input_bytes", MaxInputBytes)

(* The parser is given only the bytes within the byte budget. *)
Truncated(s) == MaxInputBytes # None /\ Len(s) > MaxInputBytes
ScannedLen(s) == IF Truncated(s) THEN MaxInputBytes ELSE Len(s)

(* A prologue that crosses the budget is refused before anything is read.  *)
PrologueError(s) ==
  LET start == PrologueLen(s)
  IN  IF /\ HasUna(s, start)
         /\ start + 3 > MaxInputBytes
         /\ MaxInputBytes - start > MaxSegmentBytes
      THEN Error("SegmentTooLong", start)
      ELSE BytesBudgetExceeded

(***************************************************************************)
(* over_budget: the answer for an error raised over a truncated input.     *)
(* The unit the error belongs to begins at lastEnd.                        *)
(***************************************************************************)
OverBudget(s, e, lastEnd) ==
  LET max   == MaxInputBytes
      from  == Lesser(lastEnd, max)
      start == SkipWs(s, from, max)
  IN  IF ~Truncated(s) \/ e.kind = "SegmentTooLong" THEN e
      ELSE IF UnescapedTerms(s, from, max, TermOf(s)) # {} THEN e
      ELSE IF start + MaxSegmentBytes + 1 > max THEN BytesBudgetExceeded
      ELSE IF e = Error("InvalidReleaseSequence", max - 1)
        THEN Error("SegmentTooLong", start)
      ELSE e

(***************************************************************************)
(* The iterator: where its parser stands, its budget, what it has yielded, *)
(* and whether it is exhausted, with the error it ended with.              *)
(***************************************************************************)
Iterator(at, budget, segs, error, done) ==
  [at |-> at, budget |-> budget, segs |-> segs, error |-> error, done |-> done]

EndedWith(iter, error) == Iterator(iter.at, iter.budget, iter.segs, error, TRUE)

(* from_bytes_with_config: a prologue the budget cuts short comes first.   *)
Opened(s) ==
  LET opened == Iterator(PrologueEnd(s), NewBudget, <<>>, NoError, FALSE)
  IN  IF Truncated(s) /\ PrologueEnd(s) > MaxInputBytes
      THEN EndedWith(opened, PrologueError(s))
      ELSE IF BadUna(s) THEN EndedWith(opened, Error("InvalidUna", NoOffset))
      ELSE opened

(* FromBytesIter::next *)
Called(s, iter) ==
  LET parsed == ParseSegment(s, ScannedLen(s), TermOf(s), iter.at)
      tag    == TagAt(s, parsed.from)
  IN  IF iter.done THEN iter
      ELSE IF parsed.is = "end"
      THEN EndedWith(iter, IF Truncated(s) THEN BytesBudgetExceeded ELSE NoError)
      ELSE IF parsed.is = "error"
      THEN EndedWith(iter, OverBudget(s, parsed.error, iter.at))
      ELSE IF ~AdmitsSegment(iter.budget, tag)
      THEN EndedWith(iter, Error(RefusedLimit(iter.budget, tag), parsed.from))
      ELSE Iterator(parsed.to, Account(iter.budget, tag),
                    Append(iter.segs, [from |-> parsed.from, to |-> parsed.to]),
                    NoError, FALSE)

(* The iterator after each call.  A segment takes a byte at least, so that *)
(* an input of n bytes exhausts it in n + 1 calls.                         *)
AfterCall(s) ==
  LET after[n \in 0..Len(s)+1] ==
        IF n = 0 THEN Opened(s) ELSE Called(s, after[n-1])
  IN  after

Yields(s) ==
  LET exhausted == AfterCall(s)[Len(s)+1]
  IN  [segs |-> exhausted.segs, error |-> exhausted.error]
=============================================================================
