-------------------------------- MODULE Typed --------------------------------
(***************************************************************************)
(* The typed layer: what the derive macros accept, and what the code they  *)
(* generate writes and reads (edifact-rs-derive, ser.rs, de.rs).           *)
(*                                                                         *)
(* A type is a segment struct, [tag, qualifier, from, layout, fields]; a   *)
(* field is an attribute list and a Rust type: `type` is "plain", "option" *)
(* or "vec", `of` is "text", "number", "record" or "list" (a derived       *)
(* composite, and Vec<String> as one).  Indexes count from 1, 0 is none.   *)
(*                                                                         *)
(* The value of a field is [some, values]: the items of a Vec, the         *)
(* components of a composite, or the one value; an optional component that *)
(* is None is Empty.                                                       *)
(***************************************************************************)
EXTENDS Layout

CONSTANT Wild   \* the character * of a qualifier pattern

Codes(type) == {i \in DOMAIN type.fields : type.fields[i].by = "code"}

(* resolve_slots: where a field is. *)
ElementOf(type, i) ==
  LET field == type.fields[i]
  IN  CASE field.by = "order" -> i
        [] field.by = "index" -> field.index
        [] field.by = "code" -> ElementSlot(type.layout[1], field.code)

ComponentOf(type, i) ==
  LET field == type.fields[i]
  IN  CASE field.component # 0 -> field.component
        [] field.component = 0 /\ field.by = "code" -> ComponentSlot(type.layout[1], field.code)
        [] OTHER -> 1

NamesComponent(type, i) ==
  LET field == type.fields[i]
  IN  field.component # 0 \/ (field.by = "code" /\ IsComponentCode(type.layout[1], field.code))

SlotOf(type, i) == <<ElementOf(type, i), ComponentOf(type, i)>>

-----------------------------------------------------------------------------
(* What both derives accept.                                               *)
(* validate_field_attrs and composite_slots; a Vec that is neither a       *)
(* repetition nor a composite has no FromStr, and one in a struct with     *)
(* codes no Display.                                                       *)
GoodField(field) ==
  /\ field.repeat <=> field.type = "vec"
  /\ field.repeat => ~field.composite
  /\ field.composite => field.component = 0
  /\ field.composite <=> field.of \in {"record", "list"}
  /\ field.required => field.type = "option" /\ ~field.composite
  /\ \A p, q \in DOMAIN field.parts : p # q => field.parts[p].index # field.parts[q].index

CodesResolve(type) ==
  \A i \in Codes(type) :
    /\ type.layout # <<>>
    /\ CodePositions(type.layout[1], type.fields[i].code) = 1
    /\ type.fields[i].component # 0 => ComponentSlot(type.layout[1], type.fields[i].code) = 1

(* Fault: the cell of the qualifier is not reserved. *)
FieldsDiffer(type) ==
  \A i, j \in DOMAIN type.fields : i # j => SlotOf(type, i) # SlotOf(type, j)

(* check_duplicate_slots, the constant of resolve_slots, and the cell of   *)
(* the qualifier.                                                          *)
SlotsDiffer(type) ==
  /\ \A i, j \in DOMAIN type.fields : i # j => SlotOf(type, i) # SlotOf(type, j)
  /\ type.qualifier # Empty => \A i \in DOMAIN type.fields : SlotOf(type, i) # <<1, 1>>

CompositesDoNotRepeat(type) ==
  \A i, j \in DOMAIN type.fields :
    type.fields[i].repeat /\ type.fields[j].composite => ElementOf(type, i) # ElementOf(type, j)

Accepted(type) ==
  /\ type.qualifier # Empty => type.from = 0
  /\ \A field \in Range(type.fields) : GoodField(field)
  /\ CodesResolve(type)
  /\ SlotsDiffer(type)
  /\ IF Codes(type) = {} THEN CompositesDoNotRepeat(type)
     ELSE \A field \in Range(type.fields) : ~field.repeat

-----------------------------------------------------------------------------
(* Writing.  Events as the emitter takes them, and what they make.         *)
Event(kind, value) == [kind |-> kind, value |-> value]

Emit(elements, event) ==
  LET n == Len(elements)
      o == Len(elements[n])
  IN  CASE event.kind = "element" -> Append(elements, <<<<event.value>>>>)
        [] event.kind = "component" -> [elements EXCEPT ![n][o] = Append(@, event.value)]
        [] event.kind = "repeat" -> [elements EXCEPT ![n] = Append(@, <<event.value>>)]

(* The first value opens an element, the others extend it. *)
Opened(values) ==
  [c \in DOMAIN values |-> Event(IF c = 1 THEN "element" ELSE "component", values[c])]

(* A composite writes its parts in the order of their indexes, and no part *)
(* where there is none.                                                    *)
CompositeValues(field, value) ==
  LET at == {p \in DOMAIN field.parts : TRUE}
      Part(c) == {p \in at : field.parts[p].index = c}
      width == Max({1} \cup {field.parts[p].index : p \in at})
  IN  CASE ~value.some \/ value.values = <<>> -> <<Empty>>
        [] value.some /\ value.values # <<>> /\ field.of = "list" -> value.values
        [] value.some /\ value.values # <<>> /\ field.of = "record" ->
             [c \in 1..width |->
                IF Part(c) = {} THEN Empty ELSE value.values[CHOOSE p \in Part(c) : TRUE]]

(* occurrence_value: a repeating field gives its k-th item, another the    *)
(* same value in every occurrence.                                         *)
OccurrenceValue(field, value, k) ==
  IF field.repeat THEN IF k \in DOMAIN value.values THEN value.values[k] ELSE Empty
  ELSE IF value.some THEN value.values[1] ELSE Empty

FieldsAt(type, e) == {i \in DOMAIN type.fields : ElementOf(type, i) = e}

(* impl_serialize: an element of the grid.                                 *)
ElementEvents(type, instance, e) ==
  LET at == FieldsAt(type, e)
      qualified == type.qualifier # Empty /\ e = 1
      width == Max({1} \cup {ComponentOf(type, i) : i \in at})
      In(c) == {i \in at : ComponentOf(type, i) = c}
      repeats == {i \in at : type.fields[i].repeat}
      times == Max({1} \cup {Len(instance[i].values) : i \in repeats})
      Value(c, k) ==
        CASE qualified /\ c = 1 -> type.qualifier
          [] ~(qualified /\ c = 1) /\ In(c) = {} -> Empty
          [] ~(qualified /\ c = 1) /\ In(c) # {} ->
               LET i == CHOOSE i \in In(c) : TRUE
               IN  OccurrenceValue(type.fields[i], instance[i], k)
      Occurrence(k) ==
        [c \in 1..width |->
           Event(CASE c > 1 -> "component" [] c = 1 /\ k = 1 -> "element"
                   [] c = 1 /\ k > 1 -> "repeat", Value(c, k))]
      Cell(c) ==
        IF \E i \in In(c) : type.fields[i].composite
        THEN LET i == CHOOSE i \in In(c) : TRUE
             IN  Opened(CompositeValues(type.fields[i], instance[i]))
        ELSE <<Occurrence(1)[c]>>
  IN  IF repeats # {} THEN FlattenSeq([k \in 1..times |-> Occurrence(k)])
      ELSE FlattenSeq([c \in 1..width |-> Cell(c)])

(* Elements are written up to the last one of a field. *)
LastElement(type) ==
  Max({IF type.qualifier = Empty THEN 0 ELSE 1}
        \cup {ElementOf(type, i) : i \in DOMAIN type.fields})

GridEvents(type, instance) ==
  FlattenSeq([e \in 1..LastElement(type) |-> ElementEvents(type, instance, e)])

(* impl_serialize_sparse: the values of the fields and where they go, and  *)
(* emit_sparse_segment, which sorts them, skips none and keeps the first   *)
(* of two in one place.                                                    *)
Parts(type, instance) ==
  LET Part(e, c, value) == [element |-> e, component |-> c, value |-> value]
      Of(i) ==
        LET field == type.fields[i]
            values == CompositeValues(field, instance[i])
        IN  IF field.composite THEN [c \in DOMAIN values |-> Part(ElementOf(type, i), c, values[c])]
            ELSE <<Part(ElementOf(type, i), ComponentOf(type, i),
                        OccurrenceValue(field, instance[i], 1))>>
  IN  (IF type.qualifier = Empty THEN <<>> ELSE <<Part(1, 1, type.qualifier)>>)
        \o FlattenSeq([i \in DOMAIN type.fields |-> Of(i)])

(* Fault: only the places that have a part are written. *)
SparseUnfilled(type, instance) ==
  LET parts == Parts(type, instance)
      Values(e) ==
        LET own == SelectSeq(parts, LAMBDA part : part.element = e)
        IN  [c \in DOMAIN own |-> own[c].value]
  IN  FlattenSeq([e \in 1..LastElement(type) |-> Opened(Values(e))])

SparseEvents(type, instance) ==
  LET parts == Parts(type, instance)
      Values(e) ==
        LET own == SelectSeq(parts, LAMBDA part : part.element = e)
            At(c) == SelectSeq(own, LAMBDA part : part.component = c)
        IN  [c \in 1..Max({1} \cup {part.component : part \in Range(own)}) |->
               IF At(c) = <<>> THEN Empty ELSE At(c)[1].value]
  IN  FlattenSeq([e \in 1..LastElement(type) |-> Opened(Values(e))])

Serialize(type, instance) ==
  [tag |-> type.tag,
   elements |-> FoldLeft(Emit, <<>>, IF Codes(type) = {} THEN GridEvents(type, instance)
                                     ELSE SparseEvents(type, instance))]

-----------------------------------------------------------------------------
(* Segment::element_str and get_component, Empty for none. *)
TextAt(seg, e, c) ==
  IF e \in DOMAIN seg.elements /\ c \in DOMAIN seg.elements[e][1]
  THEN seg.elements[e][1][c] ELSE Empty

(* qualifier_matches_pattern.                                              *)
StartsWith(value, prefix) == IsPrefix(prefix, value)
EndsWith(value, suffix) == IsSuffix(suffix, value)

(* The pattern cut at its wildcards. *)
Pieces(pattern) ==
  LET marks == {i \in DOMAIN pattern : pattern[i] = Wild}
      ends == <<0>> \o SetToSortSeq(marks, <) \o <<Len(pattern) + 1>>
  IN  [p \in 1..Cardinality(marks) + 1 |-> SubSeq(pattern, ends[p] + 1, ends[p + 1] - 1)]

(* What is left of a value after the first place a piece is in it.         *)
Found(value, piece) ==
  {i \in 1..Len(value) - Len(piece) + 1 : SubSeq(value, i, i + Len(piece) - 1) = piece}

AfterPiece(left, piece) ==
  CASE ~left.found \/ piece = Empty -> left
    [] left.found /\ piece # Empty /\ Found(left.text, piece) = {} -> [left EXCEPT !.found = FALSE]
    [] OTHER ->
         [left EXCEPT !.text =
            SubSeq(@, Min(Found(left.text, piece)) + Len(piece), Len(left.text))]

InnerPieces(pieces) == SubSeq(pieces, 2, Len(pieces) - 1)

(* Fault: the prefix and the suffix may overlap. *)
MatchesOverlapping(value, pattern) ==
  LET pieces == Pieces(pattern)
  IN  /\ StartsWith(value, pieces[1]) /\ EndsWith(value, pieces[Len(pieces)])
      /\ FoldLeft(AfterPiece, [found |-> TRUE, text |-> value], InnerPieces(pieces)).found

MatchesPattern(value, pattern) ==
  LET pieces == Pieces(pattern)
      n == Len(pieces)
      from == Len(pieces[1]) + 1
      to == Len(value) - Len(pieces[n])
      between == [found |-> TRUE, text |-> SubSeq(value, from, to)]
  IN  CASE n = 1 -> value = pattern
        [] n > 1 /\ n <= 4 ->
             /\ StartsWith(value, pieces[1]) /\ EndsWith(value, pieces[n])
             /\ IF from > to + 1 THEN n > 2 /\ \A p \in Range(InnerPieces(pieces)) : p = Empty
                ELSE FoldLeft(AfterPiece, between, InnerPieces(pieces)).found
        [] OTHER -> FALSE

(* matches_segment, the trait's and the one the derive overrides.          *)
MatchesSegment(type, seg) ==
  /\ seg.tag = type.tag
  /\ type.from # 0 => TextAt(seg, type.from, 1) # Empty
  /\ type.from = 0 /\ type.qualifier # Empty => MatchesPattern(TextAt(seg, 1, 1), type.qualifier)

-----------------------------------------------------------------------------
(* Reading.  An outcome is [error, value], the error Fine when there is none. *)
Fine == "none"
Failed(error) == [error |-> error, value |-> <<>>]
Read(some, values) == [error |-> Fine, value |-> [some |-> some, values |-> values]]
Nothing == Read(FALSE, <<>>)

(* FromStr *)
Parses(field, text) == field.of = "number" => text # Empty /\ AllDigits(text)

(* repeating_field_init *)
ReadRepeating(type, i, seg) ==
  LET field == type.fields[i]
      c == ComponentOf(type, i)
      occurrences == IF ElementOf(type, i) \in DOMAIN seg.elements
                     THEN seg.elements[ElementOf(type, i)] ELSE <<>>
      items == [o \in DOMAIN occurrences |->
                  IF c \in DOMAIN occurrences[o] THEN occurrences[o][c] ELSE Empty]
  IN  IF \A item \in Range(items) : Parses(field, item) THEN Read(TRUE, items)
      ELSE Failed("InvalidFieldValue")

(* impl_composite_deserialize, of the first occurrence *)
ReadComposite(field, components) ==
  LET Part(p) == IF field.parts[p].index \in DOMAIN components
                 THEN components[field.parts[p].index] ELSE Empty
  IN  CASE field.of = "list" -> Read(TRUE, components)
        [] field.of = "record" ->
             IF \E p \in DOMAIN field.parts : ~field.parts[p].optional /\ Part(p) = Empty
             THEN Failed("MissingRequiredComponent")
             ELSE Read(TRUE, [p \in DOMAIN field.parts |-> Part(p)])

ReadField(type, i, seg) ==
  LET field == type.fields[i]
      e == ElementOf(type, i)
      there == e \in DOMAIN seg.elements
      text == TextAt(seg, e, ComponentOf(type, i))
  IN  CASE field.repeat -> ReadRepeating(type, i, seg)
        [] field.composite /\ there -> ReadComposite(field, seg.elements[e][1])
        [] field.composite /\ ~there ->
             IF field.type = "option" THEN Nothing ELSE Failed("MissingRequiredElement")
        [] ~field.repeat /\ ~field.composite /\ text = Empty ->
             CASE field.type = "option" /\ ~field.required -> Nothing
               [] field.type = "option" /\ field.required /\ NamesComponent(type, i) ->
                    Failed("MissingRequiredComponent")
               [] OTHER -> Failed("MissingRequiredElement")
        [] ~field.repeat /\ ~field.composite /\ text # Empty ->
             IF Parses(field, text) THEN Read(TRUE, <<text>>) ELSE Failed("InvalidText")

(* find_segment and find_qualified_segment: the qualifier is compared.     *)
Candidates(segs, tag, qualifier) ==
  {s \in DOMAIN segs :
     segs[s].tag = tag /\ (qualifier # Empty => TextAt(segs[s], 1, 1) = qualifier)}

(* The error of several outcomes is that of the first that has one.        *)
Gather(outcomes) ==
  LET wrong == {i \in DOMAIN outcomes : outcomes[i].error # Fine}
  IN  IF wrong # {} THEN Failed(outcomes[Min(wrong)].error)
      ELSE [error |-> Fine, value |-> [i \in DOMAIN outcomes |-> outcomes[i].value]]

(* impl_deserialize *)
ReadFrom(type, seg) ==
  CASE type.from # 0 /\ type.from \notin DOMAIN seg.elements ->
         Failed("MissingRequiredElement")
    [] type.from # 0 /\ type.from \in DOMAIN seg.elements /\ TextAt(seg, type.from, 1) = Empty ->
         Failed("InvalidFieldValue")
    [] OTHER -> Gather([i \in DOMAIN type.fields |-> ReadField(type, i, seg)])

Deserialize(type, segs) ==
  LET found == Candidates(segs, type.tag, type.qualifier)
  IN  IF found = {} THEN Failed("MissingSegment") ELSE ReadFrom(type, segs[Min(found)])

-----------------------------------------------------------------------------
(* A message struct: its fields are [type, as, qualifier], `as` one of     *)
(* "plain", "option" and "vec"; the value of one is a sequence of the      *)
(* values of its segments.                                                 *)
Each(type, segs) == Gather([s \in DOMAIN segs |-> Deserialize(type, <<segs[s]>>)])

One(outcome) ==
  IF outcome.error # Fine THEN outcome ELSE [outcome EXCEPT !.value = <<@>>]

ReadQualified(member, segs) ==
  LET type == member.type
      found == Candidates(segs, type.tag, member.qualifier)
      own == SetToSortSeq(found, <)
  IN  CASE member.as = "vec" -> Each(type, [k \in DOMAIN own |-> segs[own[k]]])
        [] member.as # "vec" /\ found # {} -> One(Deserialize(type, <<segs[Min(found)]>>))
        [] member.as = "option" /\ found = {} -> [error |-> Fine, value |-> <<>>]
        [] member.as = "plain" /\ found = {} -> Failed("MissingSegment")

ReadMember(member, segs) ==
  LET type == member.type
  IN  CASE member.qualifier # Empty -> ReadQualified(member, segs)
        [] member.qualifier = Empty /\ member.as = "vec" ->
             Each(type, SelectSeq(segs, LAMBDA seg : MatchesSegment(type, seg)))
        [] member.qualifier = Empty /\ member.as = "option" ->
             IF \E seg \in Range(segs) : seg.tag = type.tag THEN One(Deserialize(type, segs))
             ELSE [error |-> Fine, value |-> <<>>]
        [] member.qualifier = Empty /\ member.as = "plain" -> One(Deserialize(type, segs))
=============================================================================
