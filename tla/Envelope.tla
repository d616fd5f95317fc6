------------------------------ MODULE Envelope ------------------------------
(***************************************************************************)
(* Envelope validation (envelope.rs): what validate_envelope_collecting    *)
(* makes of a sequence of segments.  A segment is [tag, ref, count, whole, *)
(* syntax]: its reference (0 when missing), its declared count, whether    *)
(* its other mandatory components are there, and what becomes of its       *)
(* syntax identifier.  An error is [kind, at, tag, element, on]: as in     *)
(* ContrlLocation, and the segment it is about.                            *)
(***************************************************************************)
EXTENDS Naturals, SequencesExt

CONSTANTS
  Garbled,   \* a count that is not a number
  Absent     \* a count that is missing

ASSUME EnvelopeAssumption == {Garbled, Absent} \cap Nat = {}

NoRef == 0
NoSpan == 0

Fault(kind, at, tag, element, on) ==
  [kind |-> kind, at |-> at, tag |-> tag, element |-> element, on |-> on]

Missing(tag, element, on) == Fault("MissingRequiredComponent", NoSpan, tag, element, on)
At(kind, i) == Fault(kind, i, "no tag", 0, i)
NoPlace(kind, on) == Fault(kind, NoSpan, "no tag", 0, on)
MissingSegment(tag) == Fault("MissingSegment", NoSpan, tag, 0, 0)

When(condition, fault) == IF condition THEN <<fault>> ELSE <<>>

(* What Charset::from_syntax_identifier may refuse an identifier with;     *)
(* Resolved when it does not, and in a segment that has none.              *)
SyntaxFaults == {"UnrecognisedSyntaxIdentifier", "UnsupportedCharset"}
Resolved == "resolved"

Number(count) == IF count \in Nat THEN count ELSE 0

(* ErrorSink::required and the parse that follows it, for a trailer.       *)
CountFaults(segs, i) ==
  When(segs[i].count = Absent, Missing(segs[i].tag, 2, i))
    \o When(segs[i].count \notin Nat, At("InvalidText", i))

(* A trailer repeats the reference of its header. *)
ReferenceFaults(segs, header, trailer) ==
  When(segs[trailer].ref = NoRef, Missing(segs[trailer].tag, 3, trailer))
    \o When(segs[trailer].ref # segs[header].ref, At("QualifierMismatch", trailer))

-----------------------------------------------------------------------------
(* Extraction so far; fatal once the structure cannot be interpreted.      *)
Start == [errors |-> <<>>, fatal |-> FALSE, messages |-> <<>>, groups |-> <<>>,
          refs |-> {}, groupRefs |-> {}, unh |-> 0]

Note(s, faults) == [s EXCEPT !.errors = @ \o faults]
Abort(s, fault) == [s EXCEPT !.errors = Append(@, fault), !.fatal = TRUE]

MessageFaults(segs, s, i) ==
  LET h == s.unh
  IN  When(segs[h].ref = NoRef, Missing("UNH", 2, h))
        \o When(segs[h].ref \in s.refs, At("DuplicateReference", h))
        \o When(~segs[h].whole, Missing("UNH", 3, h))
        \o CountFaults(segs, i)
        \o ReferenceFaults(segs, h, i)
        \o When(i - h + 1 < 3, At("EmptyMessage", h))

Collected(segs, s, i) ==
  Append(s.messages, [first |-> s.unh, end |-> i, declared |-> Number(segs[i].count)])

(* Fault: only the latest reference is remembered. *)
ReadForgetful(segs, s, i) ==
  [Note(s, MessageFaults(segs, s, i)) EXCEPT
     !.refs = {segs[s.unh].ref}, !.unh = 0, !.messages = Collected(segs, s, i)]

(* The message that the UNT at i closes. *)
ReadMessage(segs, s, i) ==
  [Note(s, MessageFaults(segs, s, i)) EXCEPT
     !.refs = @ \cup {segs[s.unh].ref}, !.unh = 0, !.messages = Collected(segs, s, i)]

(* One turn of the loop of extract_messages_flat, at segment i.            *)
ReadFlat(segs, s, i) ==
  LET tag == segs[i].tag
      open == s.unh # 0
  IN  CASE s.fatal -> s
        [] ~s.fatal /\ tag = "UNH" /\ ~open -> [s EXCEPT !.unh = i]
        [] ~s.fatal /\ tag = "UNT" /\ open -> ReadMessage(segs, s, i)
        [] ~s.fatal /\ tag \in {"UNO", "UNP"} -> Abort(s, At("PackageNotSupported", i))
        [] ~s.fatal /\ open /\ tag \notin {"UNH", "UNT", "UNB", "UNZ", "UNG", "UNE", "UNO", "UNP"} -> s
        [] OTHER -> Abort(s, At("InvalidSegmentForMessage", i))

FlatAfter(segs, from, to, s) ==
  LET after[i \in from-1..to] ==
        IF i = from-1 THEN s ELSE ReadFlat(segs, after[i-1], i)
  IN  after

(* extract_messages_flat over the segments from .. to.                     *)
ExtractMessages(segs, from, to, s) ==
  LET x == FlatAfter(segs, from, to, s)[to]
  IN  IF ~x.fatal /\ x.unh # 0 THEN Abort(x, MissingSegment("UNT")) ELSE x

(* find_matching_une: the next UNE, unless a UNG comes first.              *)
NextGroupMark(segs, from, to) ==
  LET marks == {i \in from..to : segs[i].tag \in {"UNE", "UNG"}}
  IN  IF marks = {} THEN 0 ELSE CHOOSE i \in marks : \A j \in marks : i <= j

GroupHeaderFaults(segs, s, g) ==
  When(segs[g].ref = NoRef, Missing("UNG", 6, g))
    \o When(segs[g].ref \in s.groupRefs, At("DuplicateReference", g))

(* One group, from its UNG at g to its UNE at e.                           *)
ReadGroup(segs, s, g, e) ==
  LET before == Len(s.messages)
      opened == Note([s EXCEPT !.groupRefs = @ \cup {segs[g].ref}],
                     GroupHeaderFaults(segs, s, g) \o CountFaults(segs, e)
                       \o ReferenceFaults(segs, g, e))
      read == ExtractMessages(segs, g + 1, e - 1, opened)
      held == Len(read.messages) - before
  IN  IF read.fatal THEN read
      ELSE [Note(read, When(Number(segs[e].count) # held, NoPlace("MessageCountMismatch", e)))
              EXCEPT !.groups = Append(@, [first |-> g, end |-> e])]

(* One turn of the loop of extract_with_groups, which is at segment x.i.   *)
GroupTurn(segs, to, x) ==
  LET i == x.i
      mark == NextGroupMark(segs, i + 1, to)
      Stop(fault) == [i |-> i, s |-> Abort(x.s, fault)]
  IN  CASE i > to \/ x.s.fatal -> x
        [] i <= to /\ ~x.s.fatal /\ segs[i].tag = "UNG" ->
             IF mark = 0 THEN Stop(MissingSegment("UNE"))
             ELSE IF segs[mark].tag = "UNG" THEN Stop(At("InvalidSegmentForMessage", mark))
             ELSE [i |-> mark + 1, s |-> ReadGroup(segs, x.s, i, mark)]
        [] i <= to /\ ~x.s.fatal /\ segs[i].tag = "UNH" -> Stop(At("GroupsAndMessagesMixed", i))
        [] i <= to /\ ~x.s.fatal /\ segs[i].tag \in {"UNO", "UNP"} ->
             Stop(At("PackageNotSupported", i))
        [] OTHER -> Stop(At("InvalidSegmentForMessage", i))

(* A turn moves on: there are no more turns than segments.                 *)
GroupsAfter(segs, to, s) ==
  LET after[k \in 0..to] ==
        IF k = 0 THEN [i |-> 2, s |-> s] ELSE GroupTurn(segs, to, after[k-1])
  IN  after

(* extract_with_groups *)
ExtractGroups(segs, to, s) == GroupsAfter(segs, to, s)[to].s

(* extract_content: groups are used when the first inner segment is UNG.   *)
ExtractContent(segs, s) ==
  LET last == Len(segs) - 1
  IN  IF last >= 2 /\ segs[2].tag = "UNG" THEN ExtractGroups(segs, last, s)
      ELSE ExtractMessages(segs, 2, last, s)

(* extract_interchange *)
InterchangeFaults(segs) ==
  LET z == Len(segs)
  IN  When(segs[1].syntax \in SyntaxFaults, NoPlace(segs[1].syntax, 1))
        \o When(~segs[1].whole, Missing("UNB", 3, 1))
        \o When(segs[1].ref = NoRef, Missing("UNB", 6, 1))
        \o ReferenceFaults(segs, 1, z)
        \o CountFaults(segs, z)

(* A message whose trailer declares another number of segments is at fault. *)
MiscountsAfter(messages) ==
  LET after[k \in 0..Len(messages)] ==
        LET m == messages[k]
        IN  IF k = 0 THEN <<>>
            ELSE after[k-1] \o When(m.declared # m.end - m.first + 1,
                                    At("SegmentCountMismatch", m.end))
  IN  after

Miscounts(messages) == MiscountsAfter(messages)[Len(messages)]

(* The checks that follow the extraction. *)
Conclude(segs, s) ==
  LET units == IF s.groups = <<>> THEN Len(s.messages) ELSE Len(s.groups)
      z == Len(segs)
  IN  Note(s,
        When(s.groups = <<>> /\ s.messages = <<>>, NoPlace("EmptyInterchange", 0))
          \o When(Number(segs[z].count) # units, NoPlace("MessageCountMismatch", z))
          \o Miscounts(s.messages))

(* validate_envelope_collecting: fatal stands for None.                    *)
Validate(segs) ==
  LET header == segs # <<>> /\ segs[1].tag = "UNB"
      trailer == segs # <<>> /\ segs[Len(segs)].tag = "UNZ"
      read == ExtractContent(segs, Note(Start, InterchangeFaults(segs)))
  IN  IF ~header THEN Abort(Start, MissingSegment("UNB"))
      ELSE IF ~trailer THEN Abort(Start, MissingSegment("UNZ"))
      ELSE IF read.fatal THEN read ELSE Conclude(segs, read)
=============================================================================
