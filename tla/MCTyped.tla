------------------------------- MODULE MCTyped -------------------------------
(* Segment structs that use every attribute of the derives, alone and in    *)
(* messages, and types that no derive accepts.                              *)
EXTENDS TypedMessages

MCDigits == {"0", "1"}
A == <<"A">>
B == <<"B">>
One1 == <<"1">>

Field(type, of) ==
  [by |-> "order", index |-> 0, code |-> "", component |-> 0, type |-> type, of |-> of,
   parts |-> <<>>, required |-> FALSE, repeat |-> type = "vec",
   composite |-> of \in {"record", "list"}]
At(field, e, c) == [field EXCEPT !.by = "index", !.index = e, !.component = c]
Coded(field, code, c) == [field EXCEPT !.by = "code", !.code = code, !.component = c]
Mandatory(field) == [field EXCEPT !.required = TRUE]
Text == Field("plain", "text")
Maybe == Field("option", "text")
Number == Field("plain", "number")
Several == Field("vec", "text")
Numbers == Field("vec", "number")
Record(type, parts) == [Field(type, "record") EXCEPT !.parts = parts]
Part(index, optional) == [index |-> index, optional |-> optional]

Struct(tag, fields) ==
  [tag |-> tag, qualifier |-> Empty, from |-> 0, layout |-> <<>>, fields |-> fields]

Layout1 ==
  Definition("NAD",
    <<Element(1, "3035", "M", 1),
      Composite(3, "C082", "C", 1,
        <<Component(1, "3039", "M"), Component(3, "1131", "C"), Component(4, "3055", "C")>>)>>)

Types ==
  {Struct("BGM", <<Text, Maybe, Number>>),
   Struct("BGM", <<At(Text, 1, 2), At(Maybe, 3, 0)>>),
   Struct("RFF", <<At(Text, 1, 1), At(Several, 1, 3), At(Maybe, 3, 2)>>),
   Struct("RFF", <<Numbers, Maybe>>),
   [Struct("RFF", <<At(Several, 1, 2), At(Text, 2, 0)>>) EXCEPT !.qualifier = A],
   Struct("DTM", <<Record("plain", <<Part(2, TRUE), Part(1, FALSE)>>), At(Mandatory(Maybe), 3, 2)>>),
   Struct("DTM", <<Record("option", <<Part(1, TRUE), Part(3, TRUE)>>), Field("plain", "list")>>),
   [Struct("NAD", <<At(Text, 2, 0)>>) EXCEPT !.qualifier = A],
   [Struct("NAD", <<At(Text, 2, 0)>>) EXCEPT !.qualifier = B],
   [Struct("NAD", <<Maybe, At(Text, 2, 0)>>) EXCEPT !.from = 1],
   [Struct("NAD", <<Coded(Maybe, "3055", 0), Coded(Text, "3035", 0), Coded(Maybe, "C082", 6)>>)
      EXCEPT !.layout = <<Layout1>>],
   [Struct("NAD", <<Coded(Text, "1131", 0), At(Record("option", <<Part(2, FALSE)>>), 2, 0)>>)
      EXCEPT !.layout = <<Layout1>>, !.qualifier = B],
   [Struct("NAD", <<Coded(Several, "1131", 0)>>) EXCEPT !.layout = <<Layout1>>],
   [Struct("NAD", <<Coded(Text, "9999", 0)>>) EXCEPT !.layout = <<Layout1>>],
   [Struct("NAD", <<Coded(Text, "3035", 0)>>) EXCEPT !.layout = <<Layout1>>, !.qualifier = A],
   Struct("DTM", <<Record("plain", <<Part(1, TRUE), Part(2, TRUE)>>), At(Text, 1, 2)>>),
   Struct("DTM", <<Record("plain", <<Part(1, TRUE)>>), At(Several, 1, 2)>>),
   Struct("BGM", <<Text, At(Text, 1, 0)>>)}

Some(values) == [some |-> TRUE, values |-> values]
None == [some |-> FALSE, values |-> <<>>]

FieldValues(field) ==
  LET texts == IF field.of = "number" THEN {One1, <<"1", "0">>} ELSE {A, B}
  IN  CASE field.repeat -> {Some(<<>>)} \cup {Some(<<a>>) : a \in texts}
                             \cup {Some(<<a, b>>) : a \in texts,
                                     b \in texts \cup IF field.of = "text" THEN {Empty} ELSE {}}
        [] field.of = "record" ->
             {Some(v) : v \in [DOMAIN field.parts -> {A, Empty}]}
               \cup IF field.type = "option" THEN {None} ELSE {}
        [] field.of = "list" -> {Some(<<>>), Some(<<A>>), Some(<<A, Empty, B>>)}
        [] ~field.repeat /\ ~field.composite ->
             {Some(<<a>>) : a \in texts} \cup IF field.type = "option" THEN {None, Some(<<Empty>>)} ELSE {}

RECURSIVE Instances(_)
Instances(fields) ==
  IF fields = <<>> THEN {<<>>}
  ELSE {<<v>> \o rest : v \in FieldValues(Head(fields)), rest \in Instances(Tail(fields))}

Member(type, as, qualifier) == [type |-> type, as |-> as, qualifier |-> qualifier]
Message(members, value) == [members |-> members, value |-> value]

(* Ways to set a writer up: the last one implies, in its UNB, a separator   *)
(* that the writer does not use, the one before it no program gets to use.  *)
MCTagSymbols == {"BGM", "RFF", "DTM", "NAD", "FTX", "UNS", "UNA", "UNB", "UNZ"}
MCPunctuation == {"+", ":", "?", "'", "*", ".", ",", "|", "^", "~", "!"}

Header(version, sender) ==
  <<[syntax |-> <<<<"U", "N", "O", "C">>, version>>, sender |-> sender, recipient |-> A,
     ref |-> B, count |-> One1]>>
Version4 == ForSyntaxVersion(<<"4">>)
Custom ==
  [component |-> ",", element |-> "|", decimal |-> " ", release |-> "!", term |-> "~", repetition |-> "^"]
Mode(una, ssa, header) == [una |-> una, advice |-> ssa, header |-> header]

Bare == Mode(FALSE, DefaultAdvice, <<>>)
Version3Mode == Mode(FALSE, DefaultAdvice, Header(<<"3">>, <<"*", "'">>))
Version4Mode == Mode(FALSE, Version4, Header(<<"4">>, <<"*", "+">>))
CustomMode == Mode(TRUE, Custom, Header(<<"4">>, <<"^", "*">>))
NoRepetitionMode == Mode(TRUE, DefaultAdvice, Header(<<"4">>, <<"*">>))
InvalidMode == Mode(TRUE, [Custom EXCEPT !.component = "|"], <<>>)
UnawareMode == Mode(FALSE, DefaultAdvice, Header(<<"4">>, A))
Modes ==
  {Bare, Version3Mode, Version4Mode, CustomMode, NoRepetitionMode, InvalidMode, UnawareMode}

Sent(messages, modes) ==
  {[members |-> m.members, value |-> m.value, dialect |-> d] : m \in messages, d \in modes}

Alone(types) ==
  UNION {{Message(<<Member(type, "plain", Empty)>>, <<<<v>>>>) : v \in Instances(type.fields)} :
           type \in types}

Bgm == Struct("BGM", <<Text, Maybe>>)
NadOf(qualifier) == [Struct("NAD", <<At(Maybe, 2, 0)>>) EXCEPT !.qualifier = qualifier]
AnyNad == [Struct("NAD", <<Text, Maybe>>) EXCEPT !.from = 1]
Rff == Struct("RFF", <<At(Text, 1, 1), At(Several, 1, 2)>>)

BgmValue == <<Some(<<A>>), None>>
NadValue(p) == <<Some(<<p>>)>>
Named(q) == <<Some(<<q>>), Some(<<One1>>)>>
RffValue(n) == <<Some(<<A>>), Some(SubSeq(<<A, B>>, 1, n))>>

Together ==
  {Message(<<Member(Bgm, "plain", Empty), Member(NadOf(A), "option", Empty),
             Member(NadOf(B), "option", Empty), Member(Rff, "vec", Empty)>>,
           <<<<BgmValue>>, a, b, r>>) :
     a \in {<<>>, <<NadValue(A)>>}, b \in {<<>>, <<NadValue(B)>>},
     r \in {<<>>, <<RffValue(1)>>, <<RffValue(2), RffValue(1)>>}}
  \cup
  {Message(<<Member(Bgm, "option", Empty), Member(AnyNad, "option", A),
             Member(AnyNad, "plain", B), Member(AnyNad, "vec", One1)>>, <<g, a, <<Named(B)>>, n>>) :
     g \in {<<>>, <<BgmValue>>}, a \in {<<>>, <<Named(A)>>},
     n \in {<<>>, <<Named(One1), Named(One1)>>}}

MCStrangers ==
  {[tag |-> "NAD", elements |-> <<<<<<A>>>>, <<<<B>>>>>>],
   [tag |-> "NAD", elements |-> <<<<<<A, B>>>>, <<<<Empty>>>>>>],
   [tag |-> "UNS", elements |-> <<<<<<A>>>>>>],
   [tag |-> "UNA", elements |-> <<<<<<A, B>>>>, <<<<A>>>>>>],
   [tag |-> "UNA", elements |-> <<<<<<<<",">>, <<".", "!", "|">>>>>>>>]}

Strings(set, n) == UNION {[1..k -> set] : k \in 0..n}
MCWords == Strings({"A", "B"}, 3)
Patterns ==
  {p \in Strings({"A", "B", "*"}, 4) :
     /\ \E i \in DOMAIN p : p[i] = "*"
     /\ \A i \in 1..Len(p) - 1 : ~(p[i] = "*" /\ p[i + 1] = "*")}

Patterned == {[Struct("NAD", <<At(Text, 2, 0)>>) EXCEPT !.qualifier = p] : p \in Patterns}

(* Values of characters that some separator or other is. *)
Awkward(n) == Strings({"+", "?", "*", "'", "|", "^", "!", ":", "A"}, n)
Ftx == Struct("FTX", <<Text, Several>>)
Contents ==
  {Message(<<Member(Ftx, "plain", Empty)>>, <<<<v>>>>) :
     v \in {<<Some(<<t>>), Some(<<t>>)>> : t \in Awkward(2) \ {Empty}}
           \cup {<<Some(<<A>>), Some(<<t, u>>)>> : t, u \in Awkward(1)}}

MCExchanges ==
  Sent(Alone(Types), {Bare, Version4Mode}) \cup Sent(Alone(Patterned), {Bare})
    \cup Sent(Together, {Version3Mode, CustomMode}) \cup Sent(Contents, Modes)
=============================================================================
