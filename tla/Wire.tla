-------------------------------- MODULE Wire --------------------------------
(***************************************************************************)
(* Segments and their values as bytes: what the writer makes of them       *)
(* (writer.rs), and what the tokenizer and the parser make of its bytes    *)
(* (tokenizer.rs, parser.rs).                                              *)
(*                                                                         *)
(* A byte is a character; a segment tag is one symbol, UNA among them.     *)
(* Elements are those of Layout: occurrences of component values.          *)
(***************************************************************************)
EXTENDS Integers, SequencesExt, FiniteSetsExt

CONSTANTS
  TagSymbols,    \* three upper-case ASCII letters
  Punctuation    \* graphic ASCII characters that are no letters or digits

NotUsed == " "   \* the repetition separator of an advice without one

ForSyntaxVersion(version) ==
  [component |-> ":", element |-> "+", decimal |-> ".", release |-> "?", term |-> "'",
   repetition |-> IF version = <<"4">> THEN "*" ELSE NotUsed]

DefaultAdvice == ForSyntaxVersion(<<>>)

RepetitionActive(advice) == advice.repetition # NotUsed

Separators(advice) ==
  {advice.component, advice.element, advice.term}
    \cup (IF RepetitionActive(advice) THEN {advice.repetition} ELSE {})

(* The decimal mark is ignored on receipt: any graphic character will do. *)
IsValidAdvice(advice) ==
  LET active == Separators(advice) \cup {advice.release}
  IN  /\ advice.decimal \in Punctuation \cup {" "}
      /\ active \subseteq Punctuation
      /\ Cardinality(active) = IF RepetitionActive(advice) THEN 5 ELSE 4

-----------------------------------------------------------------------------
(* Writing.                                                                *)
(* find_escape: what has to be released in a value.                       *)
Services(advice) == Separators(advice) \cup {advice.release}

EscapeValue(advice, value) ==
  FlattenSeq([i \in DOMAIN value |->
    IF value[i] \in Services(advice) THEN <<advice.release, value[i]>> ELSE <<value[i]>>])

Joined(texts, separator) ==
  FlattenSeq([i \in DOMAIN texts |-> IF i = 1 THEN texts[i] ELSE <<separator>> \o texts[i]])

Repeats(seg) == \E e \in DOMAIN seg.elements : Len(seg.elements[e]) > 1

(* write_segment, and the events of a serializer. *)
WriteSegment(advice, seg) ==
  LET Occurrence(values) ==
        Joined([c \in DOMAIN values |-> EscapeValue(advice, values[c])], advice.component)
      Text(element) ==
        <<advice.element>>
          \o Joined([o \in DOMAIN element |-> Occurrence(element[o])], advice.repetition)
  IN  <<seg.tag>> \o FlattenSeq([e \in DOMAIN seg.elements |-> Text(seg.elements[e])])
        \o <<advice.term>>

(* write_composites: no element repeats. *)
Composites(tag, elements) ==
  [tag |-> tag, elements |-> [e \in DOMAIN elements |-> <<elements[e]>>]]

BeginInterchange(header) ==
  Composites("UNB", <<header.syntax, <<header.sender>>, <<header.recipient>>, <<header.ref>>>>)

EndInterchange(header) == Composites("UNZ", <<<<header.count>>, <<header.ref>>>>)

UnaOf(advice) ==
  <<"UNA", advice.component, advice.element, advice.decimal, advice.release,
    advice.repetition, advice.term>>

-----------------------------------------------------------------------------
(* Reading.                                                                *)
BeginsWithUna(bytes) == Len(bytes) >= 7 /\ bytes[1] = "UNA"

DeclaredAdvice(bytes) ==
  [component |-> bytes[2], element |-> bytes[3], decimal |-> bytes[4],
   release |-> bytes[5], repetition |-> bytes[6], term |-> bytes[7]]

LeastOf(positions, default) == IF positions = {} THEN default ELSE Min(positions)

(* sniff_syntax_version: component 2 of the first element of a UNB, looked *)
(* for in the bytes, with the default separators and no release character. *)
SniffVersion(bytes) ==
  LET end == LeastOf({i \in 3..Len(bytes) : bytes[i] \in {"+", "'"}}, Len(bytes) + 1)
      first == LeastOf({i \in 3..end - 1 : bytes[i] = ":"}, end)
      second == LeastOf({i \in first + 1..end - 1 : bytes[i] = ":"}, end)
  IN  IF Len(bytes) < 2 \/ bytes[1] # "UNB" \/ bytes[2] # "+" THEN <<>>
      ELSE SubSeq(bytes, first + 1, second - 1)

(* from_bytes_unchecked *)
AdviceOf(bytes) ==
  IF BeginsWithUna(bytes) THEN DeclaredAdvice(bytes) ELSE ForSyntaxVersion(SniffVersion(bytes))

AfterUna(bytes) == IF BeginsWithUna(bytes) THEN SubSeq(bytes, 8, Len(bytes)) ELSE bytes

(* Whether the byte at a position is released by the one before it. *)
Released(bytes, release) ==
  LET r[i \in DOMAIN bytes] == i > 1 /\ bytes[i - 1] = release /\ ~r[i - 1]
  IN  r

(* resolve_release *)
ResolveRelease(advice, text) ==
  LET released == Released(text, advice.release)
  IN  FlattenSeq([i \in DOMAIN text |->
        IF text[i] = advice.release /\ ~released[i] THEN <<>> ELSE <<text[i]>>])

(* read_value ends at the first separator that is not released. *)
Stops(advice, bytes) ==
  LET released == Released(bytes, advice.release)
  IN  {i \in DOMAIN bytes : bytes[i] \in Separators(advice) /\ ~released[i]}

(* The token that a separator and the value after it make. *)
Token(advice, separator, text) ==
  [value |-> ResolveRelease(advice, text),
   kind |-> CASE separator = advice.element -> "DataElement"
              [] separator = advice.component -> "ComponentElement"
              [] separator = advice.repetition -> "RepeatElement"]

(* PendingElement, with the elements before it. *)
AddToken(elements, token) ==
  LET e == Len(elements)
      o == Len(elements[e])
  IN  CASE token.kind = "DataElement" -> Append(elements, <<<<token.value>>>>)
        [] token.kind = "ComponentElement" -> [elements EXCEPT ![e][o] = Append(@, token.value)]
        [] token.kind = "RepeatElement" -> [elements EXCEPT ![e] = Append(@, <<token.value>>)]

(* The first segment of some bytes: [error, segment, rest].  Its tag ends  *)
(* at an element separator or a terminator, and so is all of the bytes     *)
(* before it.                                                              *)
NotRead(error) == [error |-> error, segment |-> Composites("", <<>>), rest |-> <<>>]

ReadSegment(advice, bytes) ==
  LET body == Tail(bytes)
      stops == Stops(advice, body)
      end == LeastOf({i \in stops : body[i] = advice.term}, 0)
      cuts == SelectSeq([i \in 1..end |-> i], LAMBDA i : i \in stops)
      tokens == [k \in 1..Len(cuts) - 1 |->
                   Token(advice, body[cuts[k]], SubSeq(body, cuts[k] + 1, cuts[k + 1] - 1))]
  IN  CASE bytes[1] \in {advice.element, advice.term} -> NotRead("InvalidDelimiter")
        [] bytes[1] \notin {advice.element, advice.term}
             /\ ~(bytes[1] \in TagSymbols /\ body # <<>> /\ body[1] \in {advice.element, advice.term}) ->
             NotRead("InvalidSegmentTag")
        [] OTHER ->
             IF end = 0 THEN NotRead("UnexpectedEof")
             ELSE [error |-> "none", rest |-> SubSeq(body, end + 1, Len(body)),
                   segment |-> [tag |-> bytes[1], elements |-> FoldLeft(AddToken, <<>>, tokens)]]

(* adopt_syntax_version: what the first UNB says of the rest. *)
AdoptVersion(advice, unb) ==
  LET syntax == IF unb.elements = <<>> THEN <<>> ELSE unb.elements[1][1]
  IN  IF Len(syntax) >= 2 /\ syntax[2] = <<"4">> THEN [advice EXCEPT !.repetition = "*"] ELSE advice
=============================================================================
