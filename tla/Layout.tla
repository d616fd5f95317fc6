------------------------------- MODULE Layout -------------------------------
(***************************************************************************)
(* Segment definitions (directory_validator.rs): what a directory says of  *)
(* a segment, where a data element code is, whether a value has a          *)
(* representation, and what a corpus says of a definition.                 *)
(*                                                                         *)
(* A segment is [tag, ref, count, elements]; an element is the sequence of *)
(* its occurrences, an occurrence the sequence of its component values, a  *)
(* value the sequence of its characters, empty when it is absent.  Indexes *)
(* count from 1 where the code counts from 0.                              *)
(***************************************************************************)
EXTENDS Integers, SequencesExt, FiniteSetsExt

CONSTANTS Digits, Zero, Minus, Mark, Exponent, Space

Empty == <<>>

(* The first position of a character in a value, or 0. *)
FirstAt(value, c) ==
  LET at == {i \in DOMAIN value : value[i] = c} IN IF at = {} THEN 0 ELSE Min(at)

-----------------------------------------------------------------------------
(* Repr: kind is "a", "n" or "an". *)
Repr(kind, max) == [kind |-> kind, max |-> max, fixed |-> TRUE]
ReprUpTo(kind, max) == [kind |-> kind, max |-> max, fixed |-> FALSE]

MinLength(repr) == IF repr.fixed THEN repr.max ELSE 1

MantissaOf(value) ==
  LET e == FirstAt(value, Exponent) IN IF e = 0 THEN value ELSE SubSeq(value, 1, e - 1)

Measure(repr, value) ==
  IF repr.kind = "n" THEN Len(SelectSeq(MantissaOf(value), LAMBDA c : c \notin {Minus, Mark}))
  ELSE Len(value)

AllDigits(text) == Range(text) \subseteq Digits
Unsigned(text) == IF text # Empty /\ text[1] = Minus THEN Tail(text) ELSE text

IsNumeric(value) ==
  LET e == FirstAt(value, Exponent)
      exponent == Unsigned(SubSeq(value, e + 1, Len(value)))
      digits == Unsigned(MantissaOf(value))
      mark == FirstAt(digits, Mark)
      fraction == SubSeq(digits, mark + 1, Len(digits))
  IN  /\ e # 0 => exponent # Empty /\ AllDigits(exponent)
      /\ digits # Empty
      /\ fraction # Empty /\ AllDigits(fraction)
      /\ AllDigits(SubSeq(digits, 1, mark - 1))

Permits(repr, value) ==
  CASE repr.kind = "an" -> TRUE
    [] repr.kind = "a" -> Range(value) \cap Digits = {}
    [] repr.kind = "n" -> IsNumeric(value)

Short(repr, value) == Measure(repr, value) < MinLength(repr)
Fits(repr, value) == ~Short(repr, value) /\ Measure(repr, value) <= repr.max

(* ReprRequirement: one representation, or the one up to version 3 and the *)
(* one from version 4; none is no requirement.                             *)
PermitsCharacters(reprs, value) == \E repr \in Range(reprs) : Permits(repr, value)
PermitsLength(reprs, value) == \E repr \in Range(reprs) : Fits(repr, value)
IsTooShort(reprs, value) == \A repr \in Range(reprs) : Short(repr, value)

NoVersion == 0

(* Fault: an interchange that states no version is read as version 3. *)
SelectOldest(upToV3, fromV4, version) ==
  CASE fromV4 = <<>> -> upToV3
    [] fromV4 # <<>> /\ (upToV3 = <<>> \/ version >= 4) -> fromV4
    [] OTHER -> upToV3

SelectRepr(upToV3, fromV4, version) ==
  CASE fromV4 = <<>> -> upToV3
    [] fromV4 # <<>> /\ (upToV3 = <<>> \/ version >= 4) -> fromV4
    [] fromV4 # <<>> /\ upToV3 # <<>> /\ version = NoVersion -> upToV3 \o fromV4
    [] OTHER -> upToV3

-----------------------------------------------------------------------------
(* ComponentRef, ElementRef, SegmentDefinition and their builders.         *)
Repeated(position, code, status, count) ==
  [position |-> position, code |-> code, status |-> status, count |-> count,
   repr |-> <<>>, fromV4 |-> <<>>]

Component(position, code, status) == Repeated(position, code, status, 1)

Composite(position, code, status, maxRepeat, components) ==
  [position |-> position, code |-> code, status |-> status, maxRepeat |-> maxRepeat,
   components |-> components, repr |-> <<>>, fromV4 |-> <<>>]

Element(position, code, status, maxRepeat) ==
  Composite(position, code, status, maxRepeat, <<>>)

WithRepr(ref, repr) == [ref EXCEPT !.repr = <<repr>>]
WithReprByVersion(ref, upToV3, fromV4) ==
  [ref EXCEPT !.repr = <<upToV3>>, !.fromV4 = <<fromV4>>]

Definition(tag, elements) == [tag |-> tag, elements |-> elements]

(* Every place a code is declared, in order: [element, component], the     *)
(* component 0 for the element itself.                                     *)
Declared(definition, code) ==
  LET Places(element) ==
        SelectSeq(
          <<[element |-> element.position, component |-> 0, code |-> element.code]>>
            \o [c \in DOMAIN element.components |->
                  [element |-> element.position, code |-> element.components[c].code,
                   component |-> element.components[c].position]],
          LAMBDA place : place.code = code)
  IN  FlattenSeq([e \in DOMAIN definition.elements |-> Places(definition.elements[e])])

CodePositions(definition, code) == Len(Declared(definition, code))

(* The constants a caller resolves at compile time; undefined otherwise.   *)
ElementSlot(definition, code) == Declared(definition, code)[1].element
ComponentSlot(definition, code) ==
  LET place == Declared(definition, code)[1] IN IF place.component = 0 THEN 1 ELSE place.component
IsComponentCode(definition, code) ==
  \E element \in Range(definition.elements) :
    \E component \in Range(element.components) : component.code = code

NoPath == [element |-> 0, component |-> 0]

(* resolve_code: neither an unknown code nor an ambiguous one has a path.  *)
ResolveCode(definition, code) ==
  LET places == Declared(definition, code)
  IN  IF Len(places) # 1 THEN NoPath
      ELSE [element |-> places[1].element, component |-> places[1].component]

(* Segment::value_at and value_by_code, without the layout's tag check.    *)
ValueAt(segment, path) ==
  LET c == IF path.component = 0 THEN 1 ELSE path.component
  IN  IF path.element \in DOMAIN segment.elements
         /\ c \in DOMAIN segment.elements[path.element][1]
      THEN segment.elements[path.element][1][c] ELSE Empty

-----------------------------------------------------------------------------
(* slots *)
Slots(definition) ==
  LET Of(element) ==
        IF element.components = <<>>
        THEN <<[element |-> element.position, component |-> 0, status |-> element.status,
                elementStatus |-> element.status]>>
        ELSE [c \in DOMAIN element.components |->
                [element |-> element.position, component |-> element.components[c].position,
                 status |-> element.components[c].status, elementStatus |-> element.status]]
  IN  FlattenSeq([e \in DOMAIN definition.elements |-> Of(definition.elements[e])])

(* The values a segment carries: [element, occurrence, component].         *)
ValuesIn(segment) ==
  UNION {UNION {{[element |-> e, occurrence |-> o, component |-> c] :
                   c \in DOMAIN segment.elements[e][o]} :
                  o \in DOMAIN segment.elements[e]} :
           e \in DOMAIN segment.elements}

ValueOf(segment, at) == segment.elements[at.element][at.occurrence][at.component]

Populated(segment) == {at \in ValuesIn(segment) : ValueOf(segment, at) # Empty}

(* audit_layout over the segments of a corpus; its order is left out.      *)
Audit(definition, corpus) ==
  LET slots == Range(Slots(definition))
      At(slot) == <<slot.element, IF slot.component = 0 THEN 1 ELSE slot.component>>
      elements == Max({0} \cup {slot.element : slot \in slots})
      Width(e) == Max({0} \cup {At(slot)[2] : slot \in {s \in slots : s.element = e}})
      examined == {segment \in Range(corpus) : segment.tag = definition.tag}
      populated == UNION {{<<at.element, at.component>> : at \in Populated(segment)} :
                            segment \in examined}
      beyond == {p \in populated : p[1] > elements}
      undeclared == {p \in populated \ beyond : p[2] > Width(p[1])}
      known == (populated \ beyond) \ undeclared
      unseen == {slot \in slots : At(slot) \notin known}
      Required(slot) ==
        /\ slot.status = "M"
        /\ \/ slot.component = 0
           \/ slot.elementStatus = "M"
           \/ \E p \in known : p[1] = slot.element
  IN  [undeclaredElements |-> {p[1] : p \in beyond}, undeclaredComponents |-> undeclared,
       neverPopulated |-> {slot \in unseen : Required(slot)},
       neverObserved |-> {slot \in unseen : ~Required(slot)}]

HasContradictions(audit) ==
  audit.undeclaredElements \cup audit.undeclaredComponents # {} \/ audit.neverPopulated # {}

=============================================================================
