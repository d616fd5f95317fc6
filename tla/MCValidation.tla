---------------------------- MODULE MCValidation ----------------------------
(* Messages alone, in an interchange, in a group, cut short, and two in a  *)
(* row, under contexts that each put one interplay of validators at stake. *)
EXTENDS Validation

MCDigits == {"0", "1"}

Seg(tag, elements) ==
  [tag |-> tag, ref |-> 1, count |-> 0, whole |-> TRUE, syntax |-> E!Resolved, type |-> NoType,
   release |-> AnyRelease, version |-> NoVersion, charset |-> NoCharset, index |-> 0, elements |-> elements]

Composed(values) == <<values>>
Plain(value) == Composed(<<value>>)
A == <<"A">>
A1 == <<"A", "1">>
Spaces == <<" ">>

UnbOf(version) ==
  [Seg("UNB", <<Plain(A)>>) EXCEPT !.version = version, !.charset = {"A", "0", "1", " "}]
Unh(ref) == [Seg("UNH", <<Plain(A)>>) EXCEPT !.ref = ref, !.type = "ORDERS", !.release = "R1"]
Unt(ref, count) == [Seg("UNT", <<Plain(A)>>) EXCEPT !.ref = ref, !.count = count]
Counting(tag) == [Seg(tag, <<Plain(A)>>) EXCEPT !.count = 1]

Loc(value) == Seg("LOC", <<Plain(value)>>)
Dtm == Seg("DTM", <<Plain(A)>>)
Bgm(first, second) == Seg("BGM", <<Composed(first), second>>)

(* Elements that fit, are too long or too short for one version, repeat    *)
(* too often, are blank, carry a character of neither, have too many parts *)
Firsts == {<<A>>, <<A1>>, <<Empty, A>>, <<A, A, A>>, <<A, A, A, A>>, <<A, Empty>>,
           <<A, Empty, Empty, Empty>>, <<Empty>>}
Seconds == {Plain(<<"0", "1">>), Plain(<<"1">>), Plain(<<"A">>), Plain(<<"1", "1", "1">>),
            Plain(Empty), Plain(Spaces), <<<<A>>, <<A>>, <<A>>>>, Plain(<<"1", "E", "1">>)}

Bodies ==
  {<<Bgm(first, second)>> : first \in Firsts, second \in Seconds}
    \cup {<<Loc(A), Dtm, Loc(A1)>>, <<Dtm, Loc(A), Loc(Spaces)>>, <<Loc(A), Dtm, Dtm, Loc(A)>>,
          <<Seg("BGM", <<>>), Loc(<<"e">>)>>, <<Loc(A), Loc(A), Loc(A), Dtm>>, <<>>}

MessageOf(ref, body) == <<Unh(ref)>> \o body \o <<Unt(ref, Len(body) + 2)>>

InOrder(segs) == [i \in DOMAIN segs |-> [segs[i] EXCEPT !.index = i]]

Wrapped(body) ==
  {MessageOf(1, body),
   <<UnbOf(3)>> \o MessageOf(1, body) \o <<Counting("UNZ")>>,
   <<UnbOf(4), Counting("UNG")>> \o MessageOf(1, body) \o <<Counting("UNE"), Counting("UNZ")>>}

Misshapen ==
  LET body == <<Loc(A1), Dtm, Loc(A1)>>
  IN  {<<UnbOf(4)>> \o MessageOf(1, body),
       <<Unt(1, 2)>> \o body \o <<Unh(1)>>,
       <<Dtm, Unt(1, 9), Unh(2), Loc(A)>>,
       <<UnbOf(3), Unh(1), Dtm, Unt(1, 9), Counting("UNZ")>>,
       <<Loc(A), Dtm, Loc(A1)>>}

OneMessage == UNION {Wrapped(body) : body \in Bodies} \cup Misshapen

TwoMessages ==
  {<<UnbOf(4)>> \o MessageOf(1, first) \o MessageOf(2, second) \o <<Counting("UNZ")>> :
     first \in {<<Dtm>>}, second \in {<<Loc(A)>>, <<Loc(A), Dtm, Loc(A1)>>}}

(* An SG1 at each LOC, and an SG2 in it at each DTM. *)
Node(definition, occurrence, first, last, children) ==
  [definition |-> definition, occurrence |-> occurrence, first |-> first, last |-> last,
   children |-> children]

Groups(definition, segs, tag, from, to, Children(_, _)) ==
  LET at == SelectSeq([i \in 1..to - from + 1 |-> from + i - 1], LAMBDA i : segs[i].tag = tag)
      End(k) == IF k = Len(at) THEN to ELSE at[k + 1] - 1
  IN  [k \in DOMAIN at |-> Node(definition, k - 1, at[k], End(k), Children(at[k], End(k)))]

TreeOf(segs) ==
  LET Leaf(from, to) == <<>>
      Inner(from, to) == Groups("SG2", segs, "DTM", from, to, Leaf)
  IN  Node("root", 0, 1, Len(segs), Groups("SG1", segs, "LOC", 1, Len(segs), Inner))

BatchOf(segs) ==
  [segs |-> InOrder(segs), root |-> TreeOf(segs),
   grouped |-> \E i \in DOMAIN segs : segs[i].tag = "LOC"]

MCBatches == {BatchOf(segs) : segs \in OneMessage \cup TwoMessages}

-----------------------------------------------------------------------------
Definitions ==
  <<Definition("UNH", <<WithRepr(Element(1, "0062", "M", 1), ReprUpTo("an", 2))>>),
    Definition("UNT", <<WithRepr(Element(1, "0074", "M", 1), ReprUpTo("an", 2))>>),
    Definition("LOC", <<WithRepr(Element(1, "3227", "M", 1), Repr("an", 1))>>),
    Definition("BGM",
      <<Composite(1, "C002", "M", 1,
          <<WithReprByVersion(Component(1, "1001", "M"), Repr("a", 2), ReprUpTo("an", 1)),
            Repeated(2, "1131", "C", 2)>>),
        WithReprByVersion(Element(2, "1004", "C", 2), ReprUpTo("n", 2), ReprUpTo("an", 1))>>)>>

Orders ==
  WithRequiredSegments(
    WithCodes(FromDefinitions(Definitions), <<[tag |-> "LOC", element |-> 1, component |-> 1]>>,
              {A}),
    <<"UNH", "LOC", "DTM", "UNT">>)

Helpers ==
  <<Rule("R1", "require", "BGM", "error"), Rule("R2", "forbid", "DTM", "error"),
    [Rule("R3", "qualifier", "LOC", "error") EXCEPT !.value = A], [Rule("R4", "note", "LOC", "warning") EXCEPT !.times = 2]>>
InGroups ==
  <<Scoped(Rule("G1", "require", "DTM", "error"), "SG1"),
    Scoped([Rule("G2", "note", "LOC", "error") EXCEPT !.times = 2], "SG1"),
    Rule("G3", "forbid", "DTM", "error")>>

Plan == Pack("plan", Helpers, InGroups)
Grave == Pack("grave", <<Rule("C1", "note", "LOC", "critical"), Rule("C2", "note", "LOC", "error")>>, <<>>)
Own ==
  ForRelease(ForMessageType(
    Pack("own", <<Rule("R1", "note", "DTM", "info"), Rule("R4", "note", "DTM", "info"),
                  Rule(NoValue, "note", "DTM", "info")>>,
         <<Rule("G2", "forbid", "LOC", "error")>>), "ORDERS"), "R1")

Basic == NewContext
Noise == [NewIssue("info", "noise") EXCEPT !.layer = "profile"]
Alarm == NewIssue("critical", "alarm")

MCContexts ==
  {WithEnvelopeValidation(WithProfilePack(WithValidator(Basic, "structure", "directory", Orders), Plan)),
   WithSyntaxValidation(WithCharsetValidation(
     WithValidator(WithMessageType(Basic, "ORDERS"), "structure", "directory", StructureOnly(Orders)))),
   WithMessageType(WithCharsetValidationFor(WithProfilePack(
     WithValidator(Basic, "code list", "directory", EnforceKnownTags(Orders, FALSE)), Capped(Plan, 1)),
     {"A"}), "INVOIC"),
   BailOnFirstCritical(WithProfilePack(WithProfilePack(
     WithValidator(Basic, "structure", "directory", CodeListOnly(Orders)), Grave), Plan), TRUE),
   WithProfilePack(WithProfilePack(Basic, Capped(Bailing(Plan), 2)), Own),
   WithMessageRef(WithProfilePack(WithProfilePack(Basic, MergeWithOverride(Plan, Own)),
                                  ExtendFrom(Capped(Own, 2), Grave)), 1),
   WithStaticIssue(WithStructure(WithValidator(WithValidator(
     WithProfile(Basic, FALSE), "structure", "directory", Orders), "profile", "external", <<Alarm>>),
     FALSE), Noise),
   WithSyntaxValidation(WithEnvelope(WithCodeList(WithValidator(WithEnvelopeValidation(Basic),
     "code list", "directory", CodeListOnly(Orders)), FALSE), FALSE)),
   Fork(BailOnFirstCritical(WithProfilePack(WithValidator(WithEnvelopeValidation(
     WithValidator(Basic, "structure", "directory", Orders)), "profile", "external", <<Alarm>>),
     Bailing(Plan)), TRUE), 2),
   BailOnFirstCritical(WithProfilePack(WithValidator(WithCharsetValidation(WithEnvelopeValidation(Basic)),
     "structure", "external", <<Alarm, Noise>>), Plan), TRUE)}
=============================================================================
