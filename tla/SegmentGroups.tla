---------------------------- MODULE SegmentGroups ----------------------------
(***************************************************************************)
(* The segment group resolver (group.rs): segments are placed one by one   *)
(* in the groups a schema declares, innermost open group first, and a      *)
(* placement is never taken back.                                          *)
(*                                                                         *)
(* A schema is a sequence of definitions [name, ordered, members], the     *)
(* root first.  A member is a place for segments, or, when its group is a  *)
(* definition's index, a group, its place being the trigger.  The first    *)
(* member of an ordered group is its own trigger.  A segment is its tag    *)
(* and the code its place may ask for.                                     *)
(***************************************************************************)
EXTENDS Integers, SequencesExt, FiniteSetsExt

CONSTANTS
  Schemas,    \* schemas under which segments are placed
  Segments,   \* the segments there are: [tag, code]
  NoCode,     \* the code of a segment without one
  MaxLength   \* bound on the segments of a message

Root == 1
NoGroup == 0
NoMember == 0
Trigger == 0 - 1   \* the member of a segment that opened its instance

(* check_bounds, check_place and check_group: what the builders accept.    *)
GoodMember(schema, m) ==
  /\ m.min \in Nat /\ m.max \in Nat \ {0} /\ m.min <= m.max
  /\ m.rule = "one of" => m.codes # {}
  /\ m.group \in {NoGroup} \cup 2..Len(schema)

(* An entry holds its group by value: no two of a level hold the same one.  *)
(* Two groups may share a static slice of groups.                          *)
OneEntryEach(schema) ==
  \A d \in DOMAIN schema : \A i, j \in DOMAIN schema[d].members :
    /\ schema[d].members[i].group = schema[d].members[j].group
    /\ schema[d].members[i].group # NoGroup
    => i = j

(* An ordered group, but not the root, has its trigger as its first member. *)
GoodSchema(schema) ==
  /\ Root \in DOMAIN schema
  /\ \A d \in DOMAIN schema :
       /\ schema[d].members \in Seq(Range(schema[d].members))
       /\ \A m \in Range(schema[d].members) : GoodMember(schema, m)
       /\ schema[d].ordered /\ d # Root => schema[d].members # <<>>
  /\ OneEntryEach(schema)

ASSUME SegmentGroupsAssumption ==
  MaxLength \in Nat /\ \A schema \in Schemas : schema \in Seq(Range(schema)) /\ GoodSchema(schema)

VARIABLES
  schema,
  segs,        \* the segments placed so far
  nodes,       \* the group instances, the root first
  stack,       \* the open instances, the root first
  slots,       \* for each segment, its instance and member
  unplaced,    \* indices of the segments no place was found for
  overflows    \* indices of those that are one too many

vars == <<schema, segs, nodes, stack, slots, unplaced, overflows>>

-----------------------------------------------------------------------------
AllMembers == UNION {Range(schema[d].members) : d \in DOMAIN schema}

(* Tables::claimed *)
Claimed(s) == \E m \in AllMembers : m.tag = s.tag /\ m.rule = "one of" /\ s.code \in m.codes

(* Discriminator::admits *)
Admits(m, s) ==
  CASE m.rule = "any" -> TRUE
    [] m.rule = "not used" -> s.code = NoCode
    [] m.rule = "one of" ->
         IF s.code = NoCode THEN m.optional
         ELSE s.code \in m.codes \/ (m.unclaimed /\ ~Claimed(s))

(* SegmentPlace::matches *)
Matches(m, s) == m.tag = s.tag /\ Admits(m, s)

DefOf(n) == schema[nodes[n].def]
Members(n) == DefOf(n).members

(* An ordered group's own trigger is not among its candidates.             *)
FirstMember(def, ordered) == IF ordered /\ def # Root THEN 2 ELSE 1

NewNode(def, parent, start, occurrence) ==
  LET d == schema[def]
      first == FirstMember(def, d.ordered)
  IN  [def |-> def, parent |-> parent, start |-> start, end |-> start,
       occurrence |-> occurrence, children |-> <<>>, cursor |-> first,
       counts |-> [j \in DOMAIN d.members |-> IF j < first THEN 1 ELSE 0]]

Fits(n, s) == {j \in DOMAIN Members(n) : j >= nodes[n].cursor /\ Matches(Members(n)[j], s)}

(* Fault: full one occurrence too early. *)
NearlyFull(n, j) == nodes[n].counts[j] + 1 >= Members(n)[j].max

Full(n, j) == nodes[n].counts[j] >= Members(n)[j].max

(* The first of these members, or none. *)
FirstOf(js) == IF js = {} THEN NoMember ELSE Min(js)

(* Node::candidate *)
Candidate(n, s) ==
  LET room == {j \in Fits(n, s) : ~Full(n, j)}
  IN  IF DefOf(n).ordered THEN FirstOf(IF room # {} THEN room ELSE Fits(n, s))
      ELSE FirstOf({j \in DOMAIN Members(n) :
                      Members(n)[j].group # NoGroup /\ Matches(Members(n)[j], s)})

(* The innermost open level with a candidate, or 0. *)
LevelFor(s) ==
  LET levels == {k \in DOMAIN stack : Candidate(stack[k], s) # NoMember}
  IN  IF levels = {} THEN 0 ELSE Max(levels)

-----------------------------------------------------------------------------
Init ==
  /\ schema \in Schemas
  /\ segs = <<>>
  /\ nodes = <<[def |-> Root, parent |-> 0, start |-> 1, end |-> 0, occurrence |-> 0,
                children |-> <<>>, cursor |-> 1,
                counts |-> [j \in DOMAIN schema[Root].members |-> 0]]>>
  /\ stack = <<Root>>
  /\ slots = <<>> /\ unplaced = <<>> /\ overflows = <<>>

(* Fault: an instance still has the segment that closed it. *)
ClosedLate(k) ==
  [n \in DOMAIN nodes |->
     IF n \in Range(SubSeq(stack, k + 1, Len(stack)))
     THEN [nodes[n] EXCEPT !.end = Len(segs) + 1] ELSE nodes[n]]

(* A match at level k closes the instances inside it. *)
Closed(k) ==
  [n \in DOMAIN nodes |->
     IF n \in Range(SubSeq(stack, k + 1, Len(stack)))
     THEN [nodes[n] EXCEPT !.end = Len(segs)] ELSE nodes[n]]

(* Fault: the cursor stays at an earlier entry. *)
KeepCursor(k, j) == [Closed(k) EXCEPT ![stack[k]].counts[j] = @ + 1]

Counted(k, j) ==
  [Closed(k) EXCEPT ![stack[k]].cursor = j, ![stack[k]].counts[j] = @ + 1]

Overflowed(k, j) == IF Full(stack[k], j) THEN Append(overflows, Len(segs) + 1) ELSE overflows

(* The next free occurrence of the name under its parent.                  *)
Occurrence(n, def) ==
  Cardinality({c \in Range(nodes[n].children) : schema[nodes[c].def].name = schema[def].name})

Slot(n, j) == [instance |-> n, member |-> j]

PlaceSegment(s) ==
  LET k == LevelFor(s)
      j == Candidate(stack[k], s)
  IN  /\ k # 0
      /\ Members(stack[k])[j].group = NoGroup
      /\ nodes' = Counted(k, j)
      /\ stack' = SubSeq(stack, 1, k)
      /\ slots' = Append(slots, Slot(stack[k], j))
      /\ overflows' = Overflowed(k, j)
      /\ UNCHANGED unplaced

OpenGroup(s) ==
  LET k == LevelFor(s)
      j == Candidate(stack[k], s)
      def == Members(stack[k])[j].group
      child == Len(nodes) + 1
      node == NewNode(def, stack[k], Len(segs) + 1, Occurrence(stack[k], def))
  IN  /\ k # 0
      /\ def # NoGroup
      /\ nodes' = Append([Counted(k, j) EXCEPT ![stack[k]].children = Append(@, child)], node)
      /\ stack' = Append(SubSeq(stack, 1, k), child)
      /\ slots' = Append(slots, Slot(child, Trigger))
      /\ overflows' = Overflowed(k, j)
      /\ UNCHANGED unplaced

Innermost == stack[Len(stack)]

AttachDirect(s) ==
  /\ LevelFor(s) = 0
  /\ ~DefOf(Innermost).ordered
  /\ slots' = Append(slots, Slot(Innermost, NoMember))
  /\ UNCHANGED <<nodes, stack, unplaced, overflows>>

(* Node::passed, Tables::any_place_matches *)
Passed(n, s) ==
  DefOf(n).ordered /\ \E j \in 1..nodes[n].cursor - 1 : Matches(Members(n)[j], s)

Reason(s) ==
  IF \E n \in Range(stack) : Passed(n, s) THEN "out of order"
  ELSE IF \E m \in AllMembers : Matches(m, s) THEN "not here" ELSE "unknown"

LeaveUnplaced(s) ==
  /\ LevelFor(s) = 0
  /\ DefOf(Innermost).ordered
  /\ slots' = Append(slots, Slot(Innermost, NoMember))
  /\ unplaced' = Append(unplaced, [index |-> Len(segs) + 1, reason |-> Reason(s)])
  /\ UNCHANGED <<nodes, stack, overflows>>

(* resolve, for one more segment. *)
Place(s) ==
  /\ Len(segs) < MaxLength
  /\ segs' = Append(segs, s)
  /\ UNCHANGED schema
  /\ \/ PlaceSegment(s)
     \/ OpenGroup(s)
     \/ AttachDirect(s)
     \/ LeaveUnplaced(s)

Next == \E s \in Segments : Place(s)

Spec == Init /\ [][Next]_vars

-----------------------------------------------------------------------------
(* The tree if the message ends here. *)
Span(n) == nodes[n].start .. (IF n \in Range(stack) THEN Len(segs) ELSE nodes[n].end)

(* The first member whose occurrences are counted. *)
CountedFrom(n) == FirstMember(nodes[n].def, DefOf(n).ordered)

(* findings: what is missing, besides unplaced and overflows.              *)
MissingMembers ==
  {p \in UNION {{n} \X DOMAIN Members(n) : n \in DOMAIN nodes} :
     p[2] >= CountedFrom(p[1]) /\ nodes[p[1]].counts[p[2]] < Members(p[1])[p[2]].min}

NoFindings == unplaced = <<>> /\ overflows = <<>> /\ MissingMembers = {}

UnplacedIndices == {unplaced[k].index : k \in DOMAIN unplaced}

(* direct_segment_indices *)
Direct(n) ==
  {i \in Span(n) : \A c \in Range(nodes[n].children) : i \notin Span(c)}
    \ {i \in UnplacedIndices : slots[i].instance = n}

(* What a member has taken: segments and groups. *)
Taken(n, j) ==
  Cardinality({i \in DOMAIN segs : slots[i] = Slot(n, j)})
    + Cardinality({c \in Range(nodes[n].children) : nodes[c].def = Members(n)[j].group})

(* What exceeds a maximum, each as its member and its number there. *)
Excess ==
  UNION {UNION {{<<n, j>>} \X (Members(n)[j].max + 1 .. Taken(n, j)) :
                  j \in CountedFrom(n)..Len(Members(n))} : n \in DOMAIN nodes}

(***************************************************************************)
(* Each member's count is the number of segments and groups it has taken,  *)
(* and what exceeds its maximum is exactly what was reported as too many.  *)
(***************************************************************************)
CountsAreWhatWasTaken ==
  /\ \A n \in DOMAIN nodes : \A j \in CountedFrom(n)..Len(Members(n)) :
       nodes[n].counts[j] = Taken(n, j)
  /\ Len(overflows) = Cardinality(Excess)

(***************************************************************************)
(* A group path (the names and occurrences from the root) belongs to one   *)
(* instance, so a finding's path points at one group (group_path).         *)
(***************************************************************************)
PathsAreUnique ==
  \A a, b \in DOMAIN nodes :
    a # b /\ nodes[a].parent = nodes[b].parent /\ DefOf(a).name = DefOf(b).name =>
      nodes[a].occurrence # nodes[b].occurrence

(* Children lie in their parent, one after the other. *)
SpansNest ==
  \A n \in DOMAIN nodes :
    LET kids == nodes[n].children
    IN  /\ \A c \in Range(kids) : Span(c) \subseteq Span(n)
        /\ \A a, b \in DOMAIN kids : a < b => \A i \in Span(kids[a]) : \A j \in Span(kids[b]) : i < j

(* Every segment is a direct segment of exactly the instance it was placed *)
(* in, unless it is unplaced.                                              *)
PlacedOnce ==
  \A i \in DOMAIN segs :
    {n \in DOMAIN nodes : i \in Direct(n)} =
      IF i \in UnplacedIndices THEN {} ELSE {slots[i].instance}

(***************************************************************************)
(* The tree is a partition: the spans, which are moved as groups close,    *)
(* say the same as the placements, which are not (SegmentGroupIndexed,     *)
(* group.rs), and the counts that decided the placements say the same      *)
(* again.                                                                  *)
(***************************************************************************)
TreeIsAPartition == SpansNest /\ PlacedOnce /\ PathsAreUnique /\ CountsAreWhatWasTaken
=============================================================================
