----------------------------- MODULE MCRecovery -----------------------------
(* Small instances of RecoveryPaths: inputs made of a few fragments. *)
EXTENDS RecoveryPaths, SequencesExt

CONSTANTS Fragments, MaxFragments

MCInputs == {FlattenSeq(f) : f \in SeqOf(Fragments, MaxFragments)}

MCTags == {"UNH", "UNT", "BGM"}

(* A tag of one byte: U is a UNH, N is a UNT. *)
MCTagOf(bytes) ==
  CASE bytes = <<"U">> -> "UNH"
    [] bytes = <<"N">> -> "UNT"
    [] OTHER -> "BGM"

MCFragments ==
  {<<"U", "term">>, <<"N", "sep">>, <<"x">>, <<"x", "term">>, <<"sep">>, <<"ws">>,
   <<"term">>, <<"rel">>, <<"bad">>, <<"bom", "bom">>,
   <<"U", "N", "A", "sep", "alt">>, <<"U", "N", "A", "sep", "bad">>}
=============================================================================
