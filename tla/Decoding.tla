------------------------------ MODULE Decoding ------------------------------
(***************************************************************************)
(* decode_reader and DecodingReader (charset.rs): a reader that finds the  *)
(* repertoire in the stream's own UNB and hands out UTF-8, buffer by       *)
(* buffer, to a caller who reads until there is nothing more.              *)
(*                                                                         *)
(* A byte of the source is one unit: a byte order mark, a whitespace, a    *)
(* UNA, a UNB up to its syntax identifier, an ASCII byte, or a byte of the *)
(* high half.  A byte handed out is the source byte and its part: 0 as it  *)
(* was, otherwise the number of the byte in the character's encoding.      *)
(***************************************************************************)
EXTENDS Naturals, SequencesExt

CONSTANTS
  Sources,         \* the streams there are
  ProbeBytes,      \* SNIFF_PROBE_BYTES, at least a prologue and a UNB
  BufferSize,      \* size of the source buffer
  MaxRead,         \* bound on the caller's buffer
  MaxInterrupts    \* bound on the reads of the source that fail and are retried

Identified == {"UNB utf8", "UNB table", "UNB unsupported", "UNB unknown"}

(* The high half of a table: undefined bytes, and the encoding's length.   *)
(* In ISO 8859-7 these are A3, A1 and D2: as UTF-8, D2 leads a character   *)
(* of two bytes and either of the others continues one.                    *)
HighHalf == {"two", "three", "undefined"}
Leading == {"undefined"}
Continuing == {"two", "three"}

Units == {"mark", "ws", "UNA", "ascii", "NUL"} \cup Identified \cup HighHalf

(* The UNB that says the repertoire, with no more than a UNA before it.    *)
DeclaredAt(s) ==
  LET una == s # <<>> /\ s[1] = "UNA"
  IN  {i \in DOMAIN s : s[i] \in Identified
         /\ \A j \in 1..i-1 : s[j] = "ws" \/ (j = 1 /\ una)}

ASSUME DecodingAssumption ==
  /\ Sources \subseteq Seq(Units)
  /\ {ProbeBytes, BufferSize, MaxRead} \subseteq Nat \ {0}
  /\ MaxInterrupts \in Nat

(* The probe sees the UNB: a UNA and a UNB are an order of magnitude       *)
(* shorter than it, and that much whitespace in front of them is excluded. *)
ASSUME ProbeAssumption == \A s \in Sources : DeclaredAt(s) \subseteq 1..ProbeBytes

VARIABLES
  source,
  head,         \* what the probe has read, in front of the rest
  rest,         \* what the source still has
  mode,         \* how bytes are treated: a repertoire, or none yet
  phase,        \* "probing", "idle" between two calls, "filling" in one
  src,          \* source buffer, from its position on
  spill,        \* what is left of a character that did not fit
  out, room,    \* the caller's buffer, as far as it is filled, and its size
  handed,       \* every byte handed out
  over,         \* "no", or how the caller's loop ended
  interrupts

reader == <<head, rest, src, spill>>
vars == <<source, reader, mode, phase, out, room, handed, over, interrupts>>

(* Charset::from_syntax_identifier: UNOA, UNOB and UNOY pass through,      *)
(* UNOC to UNOK have a table, UNOX and KECA are refused, like the unknown. *)
RepertoireOf(unb) ==
  CASE unb = "UNB utf8" -> "as is"
    [] unb = "UNB table" -> "table"
    [] unb \in {"UNB unsupported", "UNB unknown"} -> "refused"

(* sniff_charset *)
Sniff(s) ==
  LET found == DeclaredAt(s)
  IN  IF found = {} THEN "as is" ELSE RepertoireOf(s[CHOOSE i \in found : TRUE])

Width(byte) == IF byte = "two" THEN 2 ELSE 3

(* Charset::decode_byte and encode_utf8, or the byte as it is. *)
Encoded(m, byte) ==
  IF m = "table" /\ byte \in HighHalf THEN [k \in 1..Width(byte) |-> <<byte, k>>]
  ELSE <<<<byte, 0>>>>

Undecodable(m, byte) == m = "table" /\ byte = "undefined"

(* Where std::str::from_utf8 finds a sequence that is none. *)
NotUtf8(s) ==
  {i \in 1..Len(s) :
     \/ s[i] \in Leading /\ (i = Len(s) \/ s[i+1] \notin Continuing)
     \/ s[i] \in Continuing /\ (i = 1 \/ s[i-1] \notin Leading)}

(* What decode_interchange refuses.  Under UNOA, UNOB and UNOY the bytes   *)
(* have to be UTF-8; those of an input without a UNB are not looked at.    *)
Refused(m, s) ==
  IF m = "as is" /\ DeclaredAt(s) # {} THEN NotUtf8(s)
  ELSE {i \in 1..Len(s) : Undecodable(m, s[i])}

(* decode_interchange: how many of the source's bytes there are before the *)
(* offset it refuses them at, or all of them, and what the first bytes     *)
(* decode to, none of them, one, two ...                                   *)
Decodable(m, s) ==
  LET bad == Refused(m, s)
  IN  IF bad = {} THEN Len(s) ELSE (CHOOSE i \in bad : \A j \in bad : i <= j) - 1

DecodedAfter(m, s) ==
  LET after[k \in 0..Len(s)] == IF k = 0 THEN <<>> ELSE after[k-1] \o Encoded(m, s[k])
  IN  after

DecodedWhole(m, s) == DecodedAfter(m, s)[Decodable(m, s)]

-----------------------------------------------------------------------------
Init ==
  /\ source \in Sources
  /\ head = <<>> /\ rest = source
  /\ mode = "none" /\ phase = "probing"
  /\ src = <<>> /\ spill = <<>>
  /\ out = <<>> /\ room = 0
  /\ handed = <<>> /\ over = "no" /\ interrupts = 0

(* decode_reader: reads until the probe is full or the stream ends. *)
Probe(n) ==
  /\ phase = "probing"
  /\ n <= Len(rest) /\ Len(head) + n <= ProbeBytes
  /\ head' = head \o SubSeq(rest, 1, n)
  /\ rest' = SubSeq(rest, n + 1, Len(rest))
  /\ UNCHANGED <<source, src, spill, mode, phase, out, room, handed, over, interrupts>>

(* Fault: one read is all the probe makes. *)
ProbeFullEarly == head # <<>> \/ rest = <<>>

ProbeFull == Len(head) = ProbeBytes \/ rest = <<>>

EndProbe ==
  /\ phase = "probing"
  /\ ProbeFull
  /\ mode' = Sniff(head)
  /\ phase' = "idle"
  /\ over' = IF mode' = "refused" THEN "refused" ELSE over
  /\ UNCHANGED <<source, reader, out, room, handed, interrupts>>

(* DecodingReader::read, called with a buffer of n bytes.                  *)
Least(a, b) == IF a < b THEN a ELSE b

LeftOver(fits) == SubSeq(spill, fits + 1, Len(spill))

Call(n) ==
  LET fits == Least(n, Len(spill))
  IN  /\ phase = "idle" /\ over = "no"
      /\ phase' = "filling"
      /\ room' = n
      /\ out' = SubSeq(spill, 1, fits)
      /\ spill' = LeftOver(fits)
      /\ UNCHANGED <<source, head, rest, src, mode, handed, over, interrupts>>

(* Ok(n): the caller takes what was written, and stops at nothing.         *)
Return(bytes) ==
  /\ phase' = "idle"
  /\ handed' = handed \o bytes
  /\ out' = <<>>
  /\ over' = IF bytes = <<>> THEN "end" ELSE over
  /\ UNCHANGED <<source, head, rest, mode, room, interrupts>>

(* Err(_): what was written before it does not count as read.              *)
Fail(how) ==
  /\ phase' = "idle"
  /\ out' = <<>>
  /\ over' = how
  /\ UNCHANGED <<source, mode, room, handed>>

ReturnFull ==
  /\ phase = "filling" /\ Len(out) = room
  /\ Return(out)
  /\ UNCHANGED <<src, spill>>

NeedsSource == phase = "filling" /\ Len(out) < room /\ src = <<>>

(* The source is read: first what the probe took, then the rest.           *)
Refill(n) ==
  LET first == IF head # <<>> THEN head ELSE rest
      left == SubSeq(first, n + 1, Len(first))
  IN  /\ NeedsSource
      /\ n <= Least(BufferSize, Len(first))
      /\ src' = SubSeq(first, 1, n)
      /\ IF head # <<>> THEN head' = left /\ UNCHANGED rest ELSE rest' = left /\ UNCHANGED head
      /\ UNCHANGED <<source, spill, mode, phase, out, room, handed, over, interrupts>>

(* Fault: a read that gave nothing is made again until something is written. *)
RefillSpins ==
  /\ NeedsSource
  /\ head = <<>> /\ rest = <<>> /\ out # <<>>
  /\ Return(out)
  /\ UNCHANGED <<src, spill>>

RefillEnds ==
  /\ NeedsSource
  /\ head = <<>> /\ rest = <<>>
  /\ Return(out)
  /\ UNCHANGED <<src, spill>>

(* The read is interrupted after the buffer was sized and zeroed for it:   *)
(* it stays so, and the caller, as Read's users do, tries again.           *)
RefillFails ==
  /\ NeedsSource
  /\ head = <<>> /\ rest # <<>>
  /\ interrupts < MaxInterrupts
  /\ interrupts' = interrupts + 1
  /\ src' = [i \in 1..BufferSize |-> "NUL"]
  /\ Fail(over)
  /\ UNCHANGED <<head, rest, spill>>

MayDecode == phase = "filling" /\ Len(out) < room /\ src # <<>>

(* Fault: what does not fit is dropped. *)
DecodeAndDrop ==
  LET bytes == Encoded(mode, src[1])
      direct == Least(room - Len(out), Len(bytes))
  IN  /\ MayDecode
      /\ ~Undecodable(mode, src[1])
      /\ src' = Tail(src)
      /\ out' = out \o SubSeq(bytes, 1, direct)
      /\ UNCHANGED <<source, head, rest, spill, mode, phase, room, handed, over, interrupts>>

(* One byte: written whole, or what does not fit is carried over.          *)
Decode ==
  LET bytes == Encoded(mode, src[1])
      direct == Least(room - Len(out), Len(bytes))
      written == out \o SubSeq(bytes, 1, direct)
  IN  /\ MayDecode
      /\ ~Undecodable(mode, src[1])
      /\ src' = Tail(src)
      /\ spill' = SubSeq(bytes, direct + 1, Len(bytes))
      /\ IF direct < Len(bytes) THEN Return(written)
         ELSE out' = written /\ UNCHANGED <<source, head, rest, mode, phase, room, handed, over, interrupts>>

RefuseByte ==
  /\ MayDecode
  /\ Undecodable(mode, src[1])
  /\ src' = Tail(src)
  /\ Fail("failed")
  /\ UNCHANGED <<head, rest, spill, interrupts>>

Read ==
  \/ ReturnFull
  \/ RefillEnds
  \/ RefillFails
  \/ Decode
  \/ RefuseByte
  \/ \E n \in 1..BufferSize : Refill(n)

Next ==
  \/ \E n \in 1..ProbeBytes : Probe(n)
  \/ EndProbe
  \/ \E n \in 1..MaxRead : Call(n)
  \/ Read

(* A probe or a call, once made, goes on; the caller reads to the end.     *)
Fairness == WF_vars(Next)

Spec == Init /\ [][Next]_vars /\ Fairness

-----------------------------------------------------------------------------
(* The repertoire of the whole stream, which the parser would see.         *)
Declared == Sniff(source)

(***************************************************************************)
(* However the source's reads are cut, the repertoire is the one the whole *)
(* stream declares (decode_reader: "loop until the probe is full or the    *)
(* stream ends, or a UNB split across two reads would go unnoticed").      *)
(***************************************************************************)
RepertoireIsFound == phase # "probing" => mode = Declared

(***************************************************************************)
(* Whatever the buffers, what is handed out is the beginning of what       *)
(* decode_interchange makes of the stream (tests/charset.rs,               *)
(* the_decoding_reader_matches_whole_slice_decoding), and all of it when   *)
(* the caller's loop ends well.  When it ends at a byte the repertoire     *)
(* does not define, decode_interchange refuses the stream at that byte,    *)
(* and what the failing call had written before it is lost: less than one  *)
(* buffer (charset.rs:504).                                                *)
(*                                                                         *)
(* The two part over one kind of stream: under UNOA, UNOB or UNOY          *)
(* decode_interchange refuses bytes that are not UTF-8 (charset.rs:318),   *)
(* the reader hands them out as they are and the loop ends well            *)
(* (charset.rs:497).                                                       *)
(***************************************************************************)
PassedOn == mode = "as is" /\ Decodable(mode, source) < Len(source)

HandsOutTheDecoding ==
  LET whole == IF PassedOn THEN DecodedAfter(mode, source)[Len(source)]
               ELSE DecodedWhole(mode, source)
  IN  /\ mode # "refused" /\ phase # "probing" => IsPrefix(handed, whole)
      /\ over = "end" => handed = whole /\ (Decodable(mode, source) = Len(source) \/ PassedOn)
      /\ over = "failed" => /\ Decodable(mode, source) < Len(source) /\ ~PassedOn
                            /\ Len(handed) + room > Len(whole)

DecodesUnlessInterrupted == interrupts = 0 => HandsOutTheDecoding

(***************************************************************************)
(* A caller who goes on reading comes to an end, with any buffer.          *)
(***************************************************************************)
CallerIsDone == <>(over # "no")
=============================================================================
