------------------------------ MODULE Prologue ------------------------------
(***************************************************************************)
(* The beginning of an input that is whole in memory, for FromBytesIter    *)
(* and the recovering scan: the byte order mark, the whitespace after it   *)
(* and the UNA (ServiceStringAdvice, Tokenizer::with_limit).               *)
(***************************************************************************)
EXTENDS Syntax, Budget

CONSTANTS
  SliceAdvice,   \* ReaderConfig::service_string_advice, or None
  TagOf(_)       \* the tag that a segment's first TagLen bytes spell

PrologueEnd(s) ==
  PrologueLen(s) + (IF HasUna(s, PrologueLen(s)) THEN UnaLen ELSE 0)

UnaOf(s) == Slice(s, PrologueLen(s), PrologueEnd(s))

(* The terminator in force: the caller's, the UNA's, or the default. *)
TermOf(s) ==
  IF SliceAdvice # None THEN SliceAdvice
  ELSE IF HasUna(s, PrologueLen(s)) THEN At(UnaOf(s), UnaLen - 1)
  ELSE "term"

BadUna(s) == HasUna(s, PrologueLen(s)) /\ ~ValidAdvice(UnaOf(s))

(* Segment::tag of a segment that begins at offset from. *)
TagAt(s, from) == TagOf(Slice(s, from, from + TagLen))
=============================================================================
