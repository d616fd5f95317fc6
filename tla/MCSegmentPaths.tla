--------------------------- MODULE MCSegmentPaths ---------------------------
(***************************************************************************)
(* A small instance of SegmentPaths.  An input is a sequence of fragments: *)
(* single bytes of every class, values that hold release characters and    *)
(* terminators, or whole marks, UNAs and what resembles them.              *)
(***************************************************************************)
EXTENDS SegmentPaths, SequencesExt

CONSTANTS MaxBytes, MaxEscapes, MaxMarks   \* bounds: fragments of each kind

Una(terminator) == <<"U", "N", "A", "sep", terminator>>

Bytewise ==
  {<<b>> : b \in {"x", "ws", "term", "sep", "rel", "bad"}}
    \cup {<<"x", "sep", "x">>, <<"x", "term">>}

Escapes == {<<"x", "sep">>, <<"rel", "term">>, <<"rel", "rel">>, <<"term">>, <<"x", "term">>}

Marks == {<<"bom", "bom">>, <<"bom">>, Una("alt"), Una("bad"), <<"U", "N">>,
          <<"ws">>, <<"term">>, <<"x", "x", "alt">>, <<"U", "term">>}

MCInputs ==
  {FlattenSeq(f) : f \in SeqOf(Bytewise, MaxBytes) \cup SeqOf(Escapes, MaxEscapes)
                            \cup SeqOf(Marks, MaxMarks)}

MCTags == {"UNH", "UNT", "BGM"}
=============================================================================
