---------------------------- MODULE TypedMessages ----------------------------
(***************************************************************************)
(* A typed message is written, segment by segment, sent as bytes, and read *)
(* back: the derived code, the writer, the parser, the derived code.       *)
(*                                                                         *)
(* The bytes may hold segments that no field of the message describes: a   *)
(* message is a part of an interchange, or of another program's message.   *)
(***************************************************************************)
EXTENDS Typed, Wire

CONSTANTS
  Exchanges,      \* records [members, value, dialect]: a message type, a value
                  \* of it, and how the writer is set up
  Strangers,      \* segments the partner adds
  MaxStrangers,   \* bound: how many
  Words           \* what the first component of a segment can be

VARIABLES
  message, phase, next,
  wire, strangers,            \* the segments written, and how many are not ours
  bytes,                      \* written; then what is left to read
  advice, settledBy, received,  \* the parser's side
  got, error                  \* the members read

vars == <<message, phase, next, wire, strangers, bytes, advice, settledBy, received, got, error>>
written == <<wire, strangers>>
reading == <<advice, settledBy, received>>

Members == message.members
Dialect == message.dialect   \* una, advice, and a header or none: <<>>

(* Writer::new, with_service_string_advice or with_una, and                *)
(* begin_interchange.  A message of types the derives refuse is no program.*)
Init ==
  /\ message \in Exchanges
  /\ \A m \in DOMAIN Members : Accepted(Members[m].type)
  /\ IsValidAdvice(Dialect.advice)
  /\ phase = "write"
  /\ next = 1
  /\ wire = [h \in DOMAIN Dialect.header |-> BeginInterchange(Dialect.header[h])]
  /\ strangers = 0
  /\ bytes = (IF Dialect.una THEN UnaOf(Dialect.advice) ELSE <<>>)
               \o FlattenSeq([h \in DOMAIN wire |-> WriteSegment(Dialect.advice, wire[h])])
  /\ advice = DefaultAdvice /\ settledBy = "nothing" /\ received = <<>>
  /\ got = <<>>
  /\ error = Fine

Put(segments) ==
  /\ wire' = wire \o segments
  /\ bytes' = bytes \o FlattenSeq([s \in DOMAIN segments |-> WriteSegment(Dialect.advice, segments[s])])

Expressible(segments) ==
  RepetitionActive(Dialect.advice) \/ \A seg \in Range(segments) : ~Repeats(seg)

(* impl_serialize of a message struct: a member's segments.  An Option     *)
(* that is None writes an element, which no emitter takes between segments.*)
Writes(member, value) ==
  [s \in DOMAIN value |-> Serialize(member.type, value[s])]

Writing == phase = "write" /\ next \in DOMAIN Members
Absent == Members[next].as = "option" /\ message.value[next] = <<>>

WriteMember ==
  /\ Writing /\ ~Absent
  /\ LET segments == Writes(Members[next], message.value[next])
     IN  Expressible(segments) /\ Put(segments)
  /\ next' = next + 1
  /\ UNCHANGED <<message, phase, strangers, reading, got, error>>

Fail(why) ==
  /\ error' = why
  /\ phase' = "failed"
  /\ UNCHANGED <<message, next, written, bytes, reading, got>>

WriteNothing == Writing /\ Absent /\ Fail("InvalidEventSequence")

RefuseRepetition ==
  /\ Writing /\ ~Expressible(Writes(Members[next], message.value[next]))
  /\ Fail("RepetitionSeparatorNotDeclared")

(* A partner's program leaves the segment out. *)
OmitMember ==
  /\ Writing /\ Absent
  /\ next' = next + 1
  /\ UNCHANGED <<message, phase, written, bytes, reading, got, error>>

AddStranger ==
  /\ phase = "write" /\ strangers < MaxStrangers
  /\ \E seg \in Strangers : Expressible(<<seg>>) /\ Put(<<seg>>)
  /\ strangers' = strangers + 1
  /\ UNCHANGED <<message, phase, next, reading, got, error>>

(* end_interchange, and the message is on its way. *)
Send ==
  /\ phase = "write" /\ next > Len(Members)
  /\ Put([h \in DOMAIN Dialect.header |-> EndInterchange(Dialect.header[h])])
  /\ phase' = "sent"
  /\ UNCHANGED <<message, next, strangers, reading, got, error>>

-----------------------------------------------------------------------------
(* from_bytes knows the separators from the start; the iterator over a     *)
(* reader learns them from the UNA, or from the first UNB it hands out.    *)
(* Both take the caller's word for them before either.                     *)
Open(ssa, by) ==
  /\ phase = "sent"
  /\ BeginsWithUna(bytes) => IsValidAdvice(DeclaredAdvice(bytes))
  /\ phase' = "receive"
  /\ advice' = ssa /\ settledBy' = by
  /\ bytes' = AfterUna(bytes)
  /\ UNCHANGED <<message, next, written, received, got, error>>

OpenSlice == Open(AdviceOf(bytes), "input")
OpenReader ==
  IF BeginsWithUna(bytes) THEN Open(DeclaredAdvice(bytes), "input")
  ELSE Open(DefaultAdvice, "nothing")
OpenWithAdvice == Open(Dialect.advice, "caller")

RefuseUna ==
  /\ phase = "sent" /\ BeginsWithUna(bytes) /\ ~IsValidAdvice(DeclaredAdvice(bytes))
  /\ Fail("InvalidUna")

(* Fault: a UNB does not settle the separators. *)
KeepAdvice(unb) == advice

AdviceAfter(seg) ==
  IF seg.tag = "UNB" /\ settledBy = "nothing" THEN AdoptVersion(advice, seg) ELSE advice

HandOut ==
  /\ phase = "receive" /\ bytes # <<>>
  /\ LET outcome == ReadSegment(advice, bytes)
     IN  /\ outcome.error = Fine
         /\ received' = Append(received, outcome.segment)
         /\ bytes' = outcome.rest
         /\ advice' = AdviceAfter(outcome.segment)
         /\ settledBy' = IF settledBy = "nothing" /\ outcome.segment.tag = "UNB" THEN "input"
                         ELSE settledBy
  /\ UNCHANGED <<message, phase, next, written, got, error>>

RefuseSegment ==
  /\ phase = "receive" /\ bytes # <<>>
  /\ ReadSegment(advice, bytes).error # Fine
  /\ Fail(ReadSegment(advice, bytes).error)

EndOfBytes ==
  /\ phase = "receive" /\ bytes = <<>>
  /\ phase' = "read"
  /\ next' = 1
  /\ UNCHANGED <<message, written, bytes, reading, got, error>>

-----------------------------------------------------------------------------
(* impl_deserialize of a message struct *)
Keep(outcome) ==
  /\ outcome.error = Fine
  /\ got' = Append(got, outcome.value)

TakeMember ==
  /\ phase = "read" /\ next \in DOMAIN Members
  /\ Keep(ReadMember(Members[next], received))
  /\ next' = next + 1
  /\ UNCHANGED <<message, phase, written, bytes, reading, error>>

RefuseMember ==
  /\ phase = "read" /\ next \in DOMAIN Members
  /\ ReadMember(Members[next], received).error # Fine
  /\ Fail(ReadMember(Members[next], received).error)

Next ==
  \/ WriteMember \/ WriteNothing \/ RefuseRepetition \/ OmitMember \/ AddStranger \/ Send
  \/ OpenSlice \/ OpenReader \/ OpenWithAdvice \/ RefuseUna
  \/ HandOut \/ RefuseSegment \/ EndOfBytes
  \/ TakeMember \/ RefuseMember

Spec == Init /\ [][Next]_vars

-----------------------------------------------------------------------------
(* A composite field and another share no element. *)
OwnsElement(type, i) ==
  \A j \in DOMAIN type.fields \ {i} : ElementOf(type, j) # ElementOf(type, i)

(* A composite that is there but of which nothing is stated, an optional   *)
(* value that is there but empty, and a Vec of no occurrences are read as  *)
(* something else; and a composite has an element of its own.              *)
Returns(type, instance) ==
  /\ \A i \in DOMAIN type.fields :
       LET field == type.fields[i]
           value == instance[i]
       IN  IF field.composite
           THEN /\ value.some /\ value.values # <<>> /\ OwnsElement(type, i)
                /\ \A p \in DOMAIN field.parts :
                     field.parts[p].optional \/ value.values[p] # Empty
           ELSE /\ field.repeat => value.values # <<>>
                /\ field.required => value.some
                /\ field.repeat \/ Empty \notin Range(value.values)
  /\ type.from # 0 =>
       \E i \in DOMAIN type.fields : SlotOf(type, i) = <<type.from, 1>> /\ instance[i].some

(* A segment that is taken for a member's. *)
Takes(member, value, seg) ==
  /\ seg.tag = member.type.tag
  /\ member.qualifier # Empty => TextAt(seg, 1, 1) = member.qualifier
  /\ member.qualifier = Empty /\ (member.as # "option" \/ value # <<>>) =>
       MatchesSegment(member.type, seg)

Own(m) == Writes(Members[m], message.value[m])

(* The parser comes to the separators the writer uses: the caller says so, *)
(* a UNA states them, a UNB's version implies them, and the defaults are   *)
(* without any.  And no segment has the tag UNA where the UNA belongs.     *)
Version == IF Dialect.header = <<>> THEN <<>> ELSE Dialect.header[1].syntax[2]
Understood ==
  /\ Dialect.una \/ settledBy = "caller" \/ Dialect.advice = ForSyntaxVersion(Version)
  /\ Dialect.una \/ wire = <<>> \/ wire[1].tag # "UNA"

(* Whatever characters the values have, from_bytes and the reader get the  *)
(* segments that were written, each value whole and in its place; so they  *)
(* get the same.                                                           *)
WrittenIsRead ==
  Understood =>
    /\ phase \in {"receive", "read"} => IsPrefix(received, wire)
    /\ phase = "read" => received = wire
    /\ error \notin {"InvalidUna", "InvalidDelimiter", "InvalidSegmentTag", "UnexpectedEof"}

(* What is written is what is read, of every type the derives accept,      *)
(* whichever way its places are stated, as long as no member takes the     *)
(* segments of another.                                                    *)
RoundTrips ==
  /\ Understood
  /\ \A m \in DOMAIN Members :
       /\ Wild \notin Range(Members[m].type.qualifier)
       /\ \A value \in Range(message.value[m]) : Returns(Members[m].type, value)
       /\ SelectSeq(wire, LAMBDA seg : Takes(Members[m], message.value[m], seg)) = Own(m)
  => /\ phase = "read" => got = SubSeq(message.value, 1, next - 1)
     /\ phase # "failed" \/ error \in {"InvalidEventSequence", "RepetitionSeparatorNotDeclared"}

(* A struct whose places are stated by code writes the same segment as one *)
(* whose places are stated by number, and a reader that asks for the code  *)
(* finds what was written.                                                 *)
ByIndex(type) ==
  [type EXCEPT !.fields =
     [i \in DOMAIN @ |-> [@[i] EXCEPT !.by = "index", !.index = ElementOf(type, i),
                                      !.component = IF @ = 0 /\ type.fields[i].composite THEN 0
                                                    ELSE ComponentOf(type, i)]]]

FoundByCode(type, value) ==
  \A i \in Codes(type) :
    LET field == type.fields[i]
    IN  ~field.composite /\ field.component = 0 =>
          ValueAt(Serialize(type, value), ResolveCode(type.layout[1], field.code))
            = OccurrenceValue(field, value[i], 1)

PlacesAreAlike ==
  phase = "write" => \A m \in DOMAIN Members :
    LET type == Members[m].type
    IN  (\A i \in DOMAIN type.fields : type.fields[i].composite => OwnsElement(type, i))
        => \A value \in Range(message.value[m]) :
             /\ Serialize(type, value) = Serialize(ByIndex(type), value)
             /\ FoundByCode(type, value)

(* A qualifier pattern, of up to three wildcards that do not touch, takes  *)
(* the segments whose qualifier is the pattern with something for each     *)
(* wildcard.                                                               *)
RECURSIVE Glob(_, _)
Glob(value, pattern) ==
  IF pattern = Empty THEN value = Empty
  ELSE IF Head(pattern) = Wild
       THEN \E k \in 0..Len(value) : Glob(SubSeq(value, k + 1, Len(value)), Tail(pattern))
       ELSE value # Empty /\ Head(value) = Head(pattern) /\ Glob(Tail(value), Tail(pattern))

PatternsAreGlobs ==
  phase = "write" => \A m \in DOMAIN Members :
    LET type == Members[m].type
    IN  type.from = 0 /\ type.qualifier # Empty =>
          \A word \in Words :
            MatchesSegment(type, [tag |-> type.tag, elements |-> <<<<<<word>>>>>>])
              <=> Glob(word, type.qualifier)

(* de.rs: every consumer of a type sees the same rule.  A segment that     *)
(* matches a type can be read as one: no error says there is none.         *)
MatchedSegmentsAreFound ==
  \A m \in DOMAIN Members : \A seg \in Range(wire) :
    MatchesSegment(Members[m].type, seg) =>
      Deserialize(Members[m].type, <<seg>>).error # "MissingSegment"
=============================================================================
