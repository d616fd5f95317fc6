------------------------------- MODULE Syntax -------------------------------
(***************************************************************************)
(* What both parsing paths share: the classes of input bytes, the release  *)
(* character, and Parser::next over Tokenizer (parser.rs, tokenizer.rs)    *)
(* reading one segment.                                                    *)
(*                                                                         *)
(* A byte is represented by its class.  "sep" is the element separator:    *)
(* the component separator and the repetition separator, which end a value *)
(* as it does but are no end of a tag, are not modelled apart.  "x" is a   *)
(* byte that is a valid tag letter or plain text; "bad" one that is valid  *)
(* in neither (a non-UTF-8 byte); "alt" a graphic byte a UNA may declare   *)
(* as segment terminator; "bom" each byte of the byte order mark.  Offsets *)
(* count from 0, as in the code: At(s, p) is the byte at offset p.         *)
(***************************************************************************)
EXTENDS Integers, Sequences

CONSTANTS
  MaxSegmentBytes,  \* ReaderConfig::max_segment_bytes
  TagLen,           \* length of a segment tag: 3 in the code
  UnaLen,           \* length of a UNA: 9 in the code
  BomLen            \* length of the byte order mark: 3 in the code

ASSUME SyntaxAssumption ==
  /\ MaxSegmentBytes \in Nat
  /\ TagLen \in Nat \ {0}
  /\ UnaLen \in Nat /\ UnaLen > 3
  /\ BomLen \in Nat \ {0}

Bytes == {"ws", "term", "alt", "rel", "sep", "U", "N", "A", "x", "bad", "bom"}

TagLetters == {"U", "N", "A", "x"}

At(s, p) == s[p + 1]

(* The bytes of s at offsets from, .., to - 1: the slice s[from..to]. *)
Slice(s, from, to) == SubSeq(s, from + 1, to)

LeastOr(S, default) ==
  IF S = {} THEN default ELSE CHOOSE p \in S : \A q \in S : p <= q

Greatest(S) == CHOOSE p \in S : \A q \in S : q <= p

Lesser(a, b) == IF a <= b THEN a ELSE b

(* The first offset of from..to-1 that holds no whitespace, or to. *)
SkipWs(s, from, to) ==
  LeastOr({p \in from .. to-1 : At(s, p) # "ws"}, to)

(***************************************************************************)
(* Reading from offset `from`, the byte at p is escaped when the release   *)
(* characters right before it are odd in number: each unescaped one skips  *)
(* the byte that follows it.                                               *)
(***************************************************************************)
Escaped(s, from, p) ==
  \E k \in 1 .. p - from :
    /\ k % 2 = 1
    /\ \A q \in p-k .. p-1 : At(s, q) = "rel"
    /\ p - k > from => At(s, p-k-1) # "rel"

(* find_unescaped_term over s[from..to], as the set of all such offsets. *)
UnescapedTerms(s, from, to, t) ==
  {p \in from .. to-1 : At(s, p) = t /\ ~Escaped(s, from, p)}

NoOffset == -1
Error(kind, offset) == [kind |-> kind, at |-> offset]
NoError == Error("none", NoOffset)

(* What Parser::next returned: the end of the input, a segment from its    *)
(* tag's first byte to the byte after its terminator, or an error.         *)
EndOfSegments   == [is |-> "end",     from |-> 0, to |-> 0, error |-> NoError]
Segment(p, q)   == [is |-> "segment", from |-> p, to |-> q, error |-> NoError]
Failure(k, off) == [is |-> "error",   from |-> 0, to |-> 0,
                    error |-> Error(k, off)]

-----------------------------------------------------------------------------
(***************************************************************************)
(* The rest of a segment whose tag is at start..tagEnd-1, a separator or   *)
(* the terminator following.  No value is scanned past scanEnd, the first  *)
(* offset that proves the segment longer than MaxSegmentBytes.  A value is *)
(* checked when its end is found: for a dangling release character, then   *)
(* for its size, then for its text.                                        *)
(***************************************************************************)
ParseValues(s, len, t, start, tagEnd) ==
  LET scanEnd == Lesser(start + MaxSegmentBytes + 1, len)
      stops   == {p \in tagEnd .. scanEnd-1 :
                    At(s, p) \in {"sep", t} /\ ~Escaped(s, tagEnd, p)}
      term    == LeastOr({p \in stops : At(s, p) = t}, scanEnd)
      bads    == {p \in tagEnd .. term-1 : At(s, p) = "bad"}
      ended   == {p \in bads : \E q \in stops : q > p}
      valueOf(p) == 1 + Greatest({q \in stops : q < p})
      dangling == scanEnd = len /\ At(s, len-1) = "rel"
                                /\ ~Escaped(s, tagEnd, len-1)
  IN  IF ended # {} THEN Failure("InvalidText", valueOf(LeastOr(ended, 0)))
      ELSE IF term < scanEnd THEN Segment(start, term + 1)
      ELSE IF dangling THEN Failure("InvalidReleaseSequence", len - 1)
      ELSE IF scanEnd - start > MaxSegmentBytes
        THEN Failure("SegmentTooLong", start)
      ELSE IF bads # {} THEN Failure("InvalidText", valueOf(LeastOr(bads, 0)))
      ELSE Failure("UnexpectedEof", len)

(***************************************************************************)
(* Parser::next at offset pos of the first len bytes of s, with segment    *)
(* terminator t: read_tag, then the values.  The scan for the end of the   *)
(* tag does not honour the release character.                              *)
(***************************************************************************)
ParseSegment(s, len, t, pos) ==
  LET start  == SkipWs(s, pos, len)
      window == Lesser(start + MaxSegmentBytes + 1, len)
      tagEnd == LeastOr({p \in start .. window-1 : At(s, p) \in {"sep", t}},
                        window)
  IN  IF start = len THEN EndOfSegments
      ELSE IF tagEnd = start THEN Failure("InvalidDelimiter", start)
      ELSE IF tagEnd - start > MaxSegmentBytes
        THEN Failure("SegmentTooLong", start)
      ELSE IF tagEnd - start # TagLen
              \/ \E p \in start .. tagEnd-1 : At(s, p) \notin TagLetters
        THEN Failure("InvalidSegmentTag", NoOffset)
      ELSE IF tagEnd = len THEN Failure("UnexpectedEof", len)
      ELSE ParseValues(s, len, t, start, tagEnd)

-----------------------------------------------------------------------------
(* prologue_len: the byte order mark and the whitespace after it. *)
StartsWithBom(s, from, to) ==
  /\ to - from >= BomLen
  /\ \A p \in from .. from + BomLen - 1 : At(s, p) = "bom"

PrologueLen(s) ==
  SkipWs(s, IF StartsWithBom(s, 0, Len(s)) THEN BomLen ELSE 0, Len(s))

HasUna(s, start) ==
  Len(s) >= start + UnaLen /\ Slice(s, start, start + 3) = <<"U", "N", "A">>

(* ServiceStringAdvice::is_valid of the service characters a UNA declares. *)
(* Only the last of them, the segment terminator, may differ from the      *)
(* default here.                                                           *)
ValidAdvice(una) ==
  /\ \A p \in 3 .. UnaLen-1 : At(una, p) # "bad"
  /\ At(una, UnaLen-1) \in {"term", "alt"}
=============================================================================
