-------------------------------- MODULE Sink --------------------------------
(***************************************************************************)
(* The sink of a Writer (writer.rs), in the writer's own hands or in those *)
(* of a WriterEmitter (event.rs), and its count of the segments in it.     *)
(*                                                                         *)
(* What a Writer leaves in its sink is modelled as the pieces it writes:   *)
(* a segment tag, a data element with the separator before it, a further   *)
(* part (component or repetition) of one with its own, or a segment        *)
(* terminator.  The text of a value is abstracted away, but for the        *)
(* segment count that a UNT carries.  A write that fails is taken to leave *)
(* nothing of its piece: what matters is that the segment is not whole.    *)
(***************************************************************************)
EXTENDS Integers, Sequences, FiniteSets

Piece(is, tag, count) == [is |-> is, tag |-> tag, count |-> count]

TagPiece(tag) == Piece("tag", tag, 0)
Value(count)  == Piece("value", "", count)
Part          == Piece("part", "", 0)
Term          == Piece("term", "", 0)

(* A whole segment, one value for each data element. *)
SegmentPieces(tag, counts) ==
  <<TagPiece(tag)>> \o [k \in 1..Len(counts) |-> Value(counts[k])] \o <<Term>>

-----------------------------------------------------------------------------
(* The reader's view of a sink s. *)
TermsAt(s)      == {i \in 1..Len(s) : s[i].is = "term"}
TagsAt(s, tag)  == {i \in 1..Len(s) : s[i].is = "tag" /\ s[i].tag = tag}

(* The terminator that ends the segment whose tag is the piece at i, where *)
(* nothing but data elements lies between.                                 *)
Ends(s, i, j) ==
  /\ i < j /\ s[j].is = "term"
  /\ \A k \in i+1 .. j-1 : s[k].is \in {"value", "part"}

WholeAt(s, i) == \E j \in 1..Len(s) : Ends(s, i, j)

(* A segment begins where the one before it ended. *)
CleanAt(s, i) == i = 1 \/ s[i-1].is = "term"
=============================================================================
