-------------------------- MODULE MCSegmentGroups --------------------------
(* Small schemas over one alphabet: open and ordered, with a tag at several *)
(* levels, with places told apart by code, and with one place per segment.  *)
EXTENDS Conformance

Member(tag, group, min, max) ==
  [tag |-> tag, group |-> group, min |-> min, max |-> max,
   rule |-> "any", codes |-> {}, optional |-> FALSE, unclaimed |-> FALSE]

Of(member, codes) == [member EXCEPT !.rule = "one of", !.codes = codes]
Unclaimed(member) == [member EXCEPT !.unclaimed = TRUE]
Optional(member) == [member EXCEPT !.optional = TRUE]
NotUsed(member) == [member EXCEPT !.rule = "not used"]

Open(name, members) == [name |-> name, ordered |-> FALSE, members |-> members]
Ordered(name, members) == [name |-> name, ordered |-> TRUE, members |-> members]

Many == 9

SharedTrigger ==
  <<Open("root", <<Member("RFF", 2, 0, Many), Member("IDE", 3, 0, Many)>>),
    Open("SG2", <<>>),
    Open("SG4", <<Member("RFF", 4, 0, 1)>>),
    Open("SG12", <<>>)>>

SharedMember ==
  <<Ordered("root", <<Member("IDE", NoGroup, 1, 1), Member("RFF", 2, 0, 1),
                      Member("SEQ", 3, 0, 2)>>),
    Ordered("SG6", <<Member("RFF", NoGroup, 0, Many)>>),
    Ordered("SG8", <<Member("SEQ", NoGroup, 0, Many), Member("RFF", NoGroup, 0, 1),
                     Member("RFF", NoGroup, 1, 1)>>)>>

SharedName ==
  <<Ordered("root", <<Of(Member("RFF", 2, 0, 1), {"Z1"}),
                      Unclaimed(Of(Member("RFF", 3, 1, 2), {"Z2"})),
                      Member("IDE", NoGroup, 0, 1)>>),
    Ordered("SG5", <<Of(Member("RFF", NoGroup, 0, Many), {"Z1"}), Member("SEQ", NoGroup, 0, 1)>>),
    Open("SG5", <<Member("IDE", 4, 0, 1)>>),
    Open("SG9", <<>>)>>

OnePlaceEach ==
  <<Ordered("root", <<Member("IDE", NoGroup, 1, 1), Member("SEQ", 2, 0, 2),
                      Of(Member("RFF", NoGroup, 0, 1), {"Z2"})>>),
    Ordered("SG1", <<Member("SEQ", NoGroup, 0, Many),
                     Of(Member("RFF", NoGroup, 1, 1), {"Z1"}),
                     NotUsed(Member("RFF", NoGroup, 0, 1))>>)>>

AcceptsEmpty ==
  <<Open("root", <<Member("IDE", 2, 0, 2)>>),
    Ordered("SG4", <<Member("IDE", NoGroup, 0, Many),
                     Optional(Of(Member("RFF", NoGroup, 0, 1), {"Z1"})),
                     Member("SEQ", 3, 0, 1)>>),
    Open("SG8", <<>>)>>

MCSchemas == {SharedTrigger, SharedMember, SharedName, OnePlaceEach, AcceptsEmpty}

MCSegments ==
  {[tag |-> "IDE", code |-> NoCode], [tag |-> "SEQ", code |-> NoCode]}
    \cup {[tag |-> "RFF", code |-> c] : c \in {NoCode, "Z1", "Z2"}}
=============================================================================
