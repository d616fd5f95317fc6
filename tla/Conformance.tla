----------------------------- MODULE Conformance -----------------------------
(***************************************************************************)
(* What the resolver's findings mean (GroupResolution::findings): for      *)
(* ordered schemas, that the message is or is not one of the language the  *)
(* schema describes, as a parser that tries every way would find.          *)
(***************************************************************************)
EXTENDS SegmentGroups

(* The language of an ordered schema: the body of definition d, from its   *)
(* member j on, of which c were seen, over the segments from .. to.        *)
RECURSIVE Derives(_, _, _, _, _)
Derives(d, j, c, from, to) ==
  LET members == schema[d].members
      m == members[j]
      Inside(last) ==
        IF m.group = NoGroup THEN last = from
        ELSE Derives(m.group, FirstMember(m.group, TRUE), 0, from + 1, last)
  IN  IF j > Len(members) THEN from > to
      ELSE \/ c >= m.min /\ Derives(d, j + 1, 0, from, to)
           \/ /\ from <= to /\ c < m.max /\ Matches(m, segs[from])
              /\ \E last \in from..to : Inside(last) /\ Derives(d, j, c + 1, last + 1, to)

Conforms == Derives(Root, 1, 0, 1, Len(segs))

AllOrdered == \A d \in DOMAIN schema : schema[d].ordered

(* No segment has two places.  A group's trigger is its own first member.  *)
Unambiguous ==
  \A s \in Segments :
    Cardinality({p \in UNION {{d} \X DOMAIN schema[d].members : d \in DOMAIN schema} :
                   /\ Matches(schema[p[1]].members[p[2]], s)
                   /\ p[2] >= FirstMember(p[1], TRUE)}) <= 1

(***************************************************************************)
(* A message without findings conforms to its ordered schema: it could be  *)
(* derived from it, occurrence for occurrence, by any parser.              *)
(***************************************************************************)
NoFindingsConforms == AllOrdered /\ NoFindings => Conforms

(***************************************************************************)
(* When every segment has one place in the schema, a conforming message    *)
(* has no findings: not looking ahead then costs nothing.                  *)
(***************************************************************************)
ConformingHasNoFindings == AllOrdered /\ Unambiguous /\ Conforms => NoFindings
=============================================================================
