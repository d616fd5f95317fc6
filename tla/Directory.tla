----------------------------- MODULE Directory -----------------------------
(***************************************************************************)
(* The directory validator (directory_validator.rs): what it finds in the  *)
(* segments it is shown, under definitions, code lists and required        *)
(* segments.  A finding is [kind, element, component, at], at the index of *)
(* its segment; a kind is the EdifactError raised.                         *)
(***************************************************************************)
EXTENDS Layout

CONSTANT NoType   \* the message type of segments without a UNH that states one

(* from_definitions and from_owned_definitions, given a sequence: a later  *)
(* definition replaces an earlier one of the same tag.                     *)
FromDefinitions(definitions) ==
  [definitions |-> definitions, type |-> NoType, required |-> <<"UNH", "UNT">>,
   structure |-> TRUE, codes |-> FALSE, knownTags |-> TRUE,
   codeRules |-> <<>>, validCodes |-> {}, exact |-> <<>>]

(* A validator with code lists: the places that hold a code, the codes.    *)
WithCodes(directory, rules, valid) ==
  [directory EXCEPT !.codes = TRUE, !.codeRules = rules, !.validCodes = valid]

StructureOnly(directory) == [directory EXCEPT !.structure = TRUE, !.codes = FALSE]
CodeListOnly(directory) == [directory EXCEPT !.structure = FALSE, !.codes = TRUE]
EnforceKnownTags(directory, enforce) == [directory EXCEPT !.knownTags = enforce]
WithRequiredSegments(directory, tags) == [directory EXCEPT !.required = tags]

HasDefinition(directory, tag) == \E d \in Range(directory.definitions) : d.tag = tag

ResolveDef(directory, tag) ==
  directory.definitions[Max({i \in DOMAIN directory.definitions :
                               directory.definitions[i].tag = tag})]

(* detect_syntax_version, and the message type UNH states. *)
FirstWithTag(segs, tag) ==
  LET at == {i \in DOMAIN segs : segs[i].tag = tag} IN IF at = {} THEN 0 ELSE Min(at)

DetectSyntaxVersion(segs) ==
  LET unb == FirstWithTag(segs, "UNB") IN IF unb = 0 THEN NoVersion ELSE segs[unb].version

UnhType(segs) ==
  LET unh == FirstWithTag(segs, "UNH") IN IF unh = 0 THEN NoType ELSE segs[unh].type

DetectMessageType(directory, segs) ==
  IF directory.type # NoType THEN directory.type ELSE UnhType(segs)

-----------------------------------------------------------------------------
(* SegmentDefRef *)
PositionsOf(elements) == {0} \cup {element.position : element \in elements}
MaxElementPosition(def) == Max(PositionsOf(Range(def.elements)))
LastMandatoryPosition(def) ==
  Max(PositionsOf({element \in Range(def.elements) : element.status = "M"}))

MandatoryElements(def) ==
  LET required == SelectSeq(def.elements, LAMBDA element : element.status = "M")
  IN  [i \in DOMAIN required |-> required[i].position]

MandatoryComponents(def) ==
  SelectSeq(Slots(def), LAMBDA slot : slot.component # 0 /\ slot.status = "M")

(* The first declared element at a position, as a sequence of at most one. *)
ElementAt(def, e) ==
  LET at == SelectSeq(def.elements, LAMBDA element : element.position = e)
  IN  IF at = <<>> THEN <<>> ELSE <<at[1]>>

MaxRepeatAt(def, e) ==
  IF ElementAt(def, e) = <<>> THEN 0 ELSE ElementAt(def, e)[1].maxRepeat

(* A repeated component spans consecutive places. *)
Spans(component, c) == c \in component.position..component.position + component.count - 1

ReprAt(def, e, c, version) ==
  LET element == ElementAt(def, e)[1]
      spanning == SelectSeq(element.components, LAMBDA component : Spans(component, c))
  IN  CASE ElementAt(def, e) = <<>> -> <<>>
        [] ElementAt(def, e) # <<>> /\ element.components = <<>> ->
             IF c = 1 THEN SelectRepr(element.repr, element.fromV4, version) ELSE <<>>
        [] ElementAt(def, e) # <<>> /\ element.components # <<>> ->
             IF spanning = <<>> THEN <<>>
             ELSE SelectRepr(spanning[1].repr, spanning[1].fromV4, version)

(* Zero when the places are not limited. *)
DeclaredComponentCount(def, e) ==
  IF ElementAt(def, e) = <<>> THEN 0
  ELSE FoldSeq(LAMBDA component, n : component.count + n, 0, ElementAt(def, e)[1].components)

-----------------------------------------------------------------------------
Found(kind, e, c) == [kind |-> kind, element |-> e, component |-> c]

(* Some component of the element's first occurrence has a value. *)
IsPresent(seg, e) ==
  e \in DOMAIN seg.elements /\ \E c \in DOMAIN seg.elements[e][1] : seg.elements[e][1][c] # Empty

HasValue(seg, e, c) == c \in DOMAIN seg.elements[e][1] /\ seg.elements[e][1][c] # Empty

(* Fault: empty components at the end are counted. *)
EveryComponentCount(seg, e) == Len(seg.elements[e][1])

EffectiveComponentCount(seg, e) ==
  Max({0} \cup {c \in DOMAIN seg.elements[e][1] : seg.elements[e][1][c] # Empty})

(* The findings a condition makes at each element that has it. *)
AtElements(seg, kind, elements) ==
  LET bad == SetToSortSeq(elements, <) IN [i \in DOMAIN bad |-> Found(kind, bad[i], 0)]

(* The validator's own exact counts win over the definition's.             *)
ExactCount(directory, tag, e) ==
  LET stated == SelectSeq(directory.exact, LAMBDA x : x.tag = tag /\ x.element = e)
  IN  IF stated = <<>> THEN 0 ELSE stated[1].count

ComponentCountIssues(directory, seg, def) ==
  LET Wrong(e) ==
        LET exact == ExactCount(directory, seg.tag, e)
            actual == EffectiveComponentCount(seg, e)
            declared == DeclaredComponentCount(def, e)
        IN  IF exact # 0 THEN actual # exact ELSE declared # 0 /\ actual > declared
  IN  AtElements(seg, "InvalidComponentCount", {e \in DOMAIN seg.elements : Wrong(e)})

RepetitionIssues(seg, def) ==
  LET Allowed(e) == MaxRepeatAt(def, e)
  IN  AtElements(seg, "TooManyRepetitions",
                 {e \in DOMAIN seg.elements :
                    Allowed(e) # 0 /\ Len(seg.elements[e]) > Allowed(e)})

(* A variable numeric keeps no leading zeroes, another no trailing spaces. *)
Insignificant(repr, value) ==
  LET digits == Unsigned(value)
      leadingZeroes ==
        Len(digits) > 1 /\ digits[1] = Zero /\ digits[2] # Mark
  IN  /\ ~repr.fixed
      /\ IF repr.kind = "n" THEN leadingZeroes ELSE value[Len(value)] = Space

ValueIssues(value, reprs, e, c) ==
  IF reprs = <<>> THEN <<>>
  ELSE IF ~PermitsCharacters(reprs, value) THEN <<Found("InvalidCharacterType", e, c)>>
  ELSE (IF Insignificant(reprs[1], value)
        THEN <<Found("InsignificantCharacters", e, c)>> ELSE <<>>)
         \o CASE PermitsLength(reprs, value) -> <<>>
              [] ~PermitsLength(reprs, value) /\ IsTooShort(reprs, value) ->
                   <<Found("DataElementTooShort", e, c)>>
              [] OTHER -> <<Found("DataElementTooLong", e, c)>>

RepresentationIssues(seg, def, version) ==
  LET InOccurrence(e, o) ==
        FlattenSeq([c \in DOMAIN seg.elements[e][o] |->
          LET value == seg.elements[e][o][c]
          IN  IF value = Empty THEN <<>>
              ELSE ValueIssues(value, ReprAt(def, e, c, version), e, c)])
      InElement(e) ==
        FlattenSeq([o \in DOMAIN seg.elements[e] |-> InOccurrence(e, o)])
  IN  FlattenSeq([e \in DOMAIN seg.elements |-> InElement(e)])

CodeListIssues(directory, seg) ==
  LET rules == SelectSeq(directory.codeRules, LAMBDA rule : rule.tag = seg.tag)
      Value(rule) == ValueAt(seg, [element |-> rule.element, component |-> rule.component])
      broken == SelectSeq(rules, LAMBDA rule :
                  Value(rule) # Empty /\ Value(rule) \notin directory.validCodes)
  IN  [i \in DOMAIN broken |-> Found("InvalidCodeValue", broken[i].element, 0)]

(* A composite that is absent but has a place is asked for its components. *)
MissingComponents(seg, def) ==
  LET required == MandatoryComponents(def)
      missing == SelectSeq(required, LAMBDA slot :
                   /\ slot.element \in DOMAIN seg.elements
                   /\ ~HasValue(seg, slot.element, slot.component))
  IN  [i \in DOMAIN missing |->
         Found("MissingRequiredComponent", missing[i].element, missing[i].component)]

MissingElements(seg, def) ==
  LET missing == SelectSeq(MandatoryElements(def), LAMBDA e : ~IsPresent(seg, e))
  IN  [i \in DOMAIN missing |-> Found("MissingRequiredElement", missing[i], 0)]

ElementCountIssues(seg, def) ==
  IF Len(seg.elements) \in LastMandatoryPosition(def)..MaxElementPosition(def) THEN <<>>
  ELSE <<Found("InvalidElementCount", 0, 0)>>

(* collect_segment_issues *)
SegmentIssues(directory, seg, version) ==
  LET def == ResolveDef(directory, seg.tag)
  IN  CASE ~directory.structure /\ ~directory.codes -> <<>>
        [] (directory.structure \/ directory.codes) /\ ~HasDefinition(directory, seg.tag) ->
             IF directory.structure /\ directory.knownTags
             THEN <<Found("InvalidSegmentForMessage", 0, 0)>> ELSE <<>>
        [] (directory.structure \/ directory.codes) /\ HasDefinition(directory, seg.tag) ->
             (IF directory.structure
              THEN ElementCountIssues(seg, def) \o MissingElements(seg, def)
                     \o MissingComponents(seg, def)
                     \o ComponentCountIssues(directory, seg, def)
                     \o RepetitionIssues(seg, def)
                     \o RepresentationIssues(seg, def, version)
              ELSE <<>>)
               \o (IF directory.codes THEN CodeListIssues(directory, seg) ELSE <<>>)

-----------------------------------------------------------------------------
(* Required segments: each is there, and first occurrences are in order.   *)
AbsentSegments(directory, segs) ==
  SelectSeq(directory.required, LAMBDA tag : FirstWithTag(segs, tag) = 0)

(* Fault: a required segment is compared with the first one only. *)
AfterFirst(directory, segs) ==
  LET present == SelectSeq(directory.required, LAMBDA tag : FirstWithTag(segs, tag) # 0)
      late == {i \in DOMAIN present :
                 i > 1 /\ FirstWithTag(segs, present[i]) < FirstWithTag(segs, present[1])}
  IN  [i \in 1..Cardinality(late) |-> present[SetToSortSeq(late, <)[i]]]

OutOfOrder(directory, segs) ==
  LET present == SelectSeq(directory.required, LAMBDA tag : FirstWithTag(segs, tag) # 0)
      late == {i \in DOMAIN present :
                 i > 1 /\ FirstWithTag(segs, present[i]) < FirstWithTag(segs, present[i - 1])}
  IN  [i \in 1..Cardinality(late) |-> present[SetToSortSeq(late, <)[i]]]
=============================================================================
