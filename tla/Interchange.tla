---------------------------- MODULE Interchange ----------------------------
(***************************************************************************)
(* An interchange arrives segment by segment, with at most MaxSlips        *)
(* departures from a correct one: a segment where none of its kind is due, *)
(* a reference or a count that is missing or wrong, a syntax identifier    *)
(* that is refused.  At every point the envelope is validated, the         *)
(* recovered windows are built, and errors are located on both ways, over  *)
(* the segments there are.                                                 *)
(***************************************************************************)
EXTENDS Envelope, ContrlLocation

CONSTANTS
  MaxLength,   \* bound on the segments of an interchange
  MaxSlips,    \* bound on its departures from a correct one
  MaxLocated   \* bound on the segments of one in which errors are located

ASSUME InterchangeAssumption == {MaxLength, MaxSlips, MaxLocated} \subseteq Nat

VARIABLES segs, slips

vars == <<segs, slips>>

Tags == {"UNB", "UNG", "UNH", "BGM", "UNT", "UNE", "UNZ", "UNO"}

TagsOf(s) == [i \in 1..Len(s) |-> s[i].tag]
PositionsOf(s, tag) == {i \in DOMAIN s : s[i].tag = tag}
Occurs(tag) == Cardinality(PositionsOf(segs, tag))
LastIn(s, tag) == Max(PositionsOf(s, tag) \cup {0})
LastOf(tag) == LastIn(segs, tag)

(* The tags a correct interchange may go on with after these segments. *)
Due(s) ==
  LET w == Windows(TagsOf(s))
  IN  CASE s = <<>> -> {"UNB"}
        [] PositionsOf(s, "UNZ") # {} -> {}
        [] OTHER ->
             IF w.message # 0
             THEN IF LastIn(s, "UNH") = Len(s) THEN {"BGM"} ELSE {"BGM", "UNT"}
             ELSE IF w.group # 0 THEN {"UNH", "UNE"}
             ELSE IF w.groups # <<>> THEN {"UNG", "UNZ"}
             ELSE IF w.messages # <<>> THEN {"UNH", "UNZ"} ELSE {"UNG", "UNH"}

HeaderOf(tag) == CASE tag = "UNT" -> "UNH" [] tag = "UNE" -> "UNG" [] tag = "UNZ" -> "UNB"

RefOfLast(tag) == IF LastOf(tag) = 0 THEN 1 ELSE segs[LastOf(tag)].ref

(* The count a correct trailer has here. *)
TrueCount(tag) ==
  CASE tag = "UNT" -> Len(segs) + 2 - LastOf("UNH")
    [] tag = "UNE" -> Cardinality({i \in DOMAIN segs : segs[i].tag = "UNT" /\ i > LastOf("UNG")})
    [] tag = "UNZ" -> IF Occurs("UNG") > 0 THEN Occurs("UNG") ELSE Occurs("UNT")

Slip(condition) == IF condition THEN 1 ELSE 0

Read(tag, ref, count, whole, syntax, slip) ==
  /\ Len(segs) < MaxLength
  /\ slips' = slips + Slip(tag \notin Due(segs)) + slip
  /\ slips' <= MaxSlips
  /\ segs' = Append(segs, [tag |-> tag, ref |-> ref, count |-> count, whole |-> whole,
                           syntax |-> syntax])

(* A header has a fresh reference, or slips: the first one again, or none. *)
(* A UNG has no other component that the code requires, and only a UNB a   *)
(* syntax identifier that it reads.                                        *)
ReadHeader(tag) ==
  \E ref \in {NoRef, 1, Occurs(tag) + 1}, whole \in IF tag = "UNG" THEN {TRUE} ELSE BOOLEAN,
     syntax \in {Resolved} \cup IF tag = "UNB" THEN SyntaxFaults ELSE {} :
    Read(tag, ref, 0, whole, syntax,
         Slip(ref # Occurs(tag) + 1) + Slip(~whole) + Slip(syntax # Resolved))

ReadTrailer(tag) ==
  LET right == RefOfLast(HeaderOf(tag))
      actual == TrueCount(tag)
  IN  \E ref \in {NoRef, right, right + 1}, count \in {Garbled, Absent, actual, actual + 1} :
        Read(tag, ref, count, TRUE, Resolved, Slip(ref # right) + Slip(count # actual))

(* No reference or count is read in any other segment.                     *)
ReadOther(tag) == Read(tag, 1, 0, TRUE, Resolved, 0)

Init == segs = <<>> /\ slips = 0

Next ==
  \/ \E tag \in {"UNB", "UNG", "UNH"} : ReadHeader(tag)
  \/ \E tag \in {"UNT", "UNE", "UNZ"} : ReadTrailer(tag)
  \/ \E tag \in {"BGM", "UNO"} : ReadOther(tag)

Spec == Init /\ [][Next]_vars

-----------------------------------------------------------------------------
(* What a correct interchange is (ISO 9735-1, as the code's comments cite  *)
(* it), said of the whole sequence at once.                                *)
ServiceTags == {"UNB", "UNZ", "UNG", "UNE", "UNH", "UNT", "UNO", "UNP"}

Closes(i, j, open, close) ==
  /\ i < j
  /\ segs[i].tag = open /\ segs[j].tag = close
  /\ segs[i].ref # NoRef /\ segs[i].ref = segs[j].ref
  /\ segs[i].whole

GoodMessage(i, j) ==
  /\ Closes(i, j, "UNH", "UNT")
  /\ j > i + 1
  /\ \A k \in i+1..j-1 : segs[k].tag \notin ServiceTags
  /\ segs[j].count = j - i + 1

(* The segments from .. to are messages, one after the other. *)
AllMessages(from, to) ==
  \A k \in from..to : \E i, j \in from..to : i <= k /\ k <= j /\ GoodMessage(i, j)

TrailersIn(from, to, tag) == Cardinality({k \in from..to : segs[k].tag = tag})

GoodGroup(i, j) ==
  /\ Closes(i, j, "UNG", "UNE")
  /\ AllMessages(i + 1, j - 1)
  /\ segs[j].count = TrailersIn(i + 1, j - 1, "UNT")

UniqueRefs(tag) ==
  \A i, j \in DOMAIN segs :
    i # j /\ segs[i].tag = tag /\ segs[j].tag = tag => segs[i].ref # segs[j].ref

GoodInterchange ==
  LET z == Len(segs)
      grouped == \A k \in 2..z-1 : \E i, j \in 2..z-1 : i <= k /\ k <= j /\ GoodGroup(i, j)
  IN  /\ z > 2
      /\ Closes(1, z, "UNB", "UNZ")
      /\ segs[1].syntax = Resolved
      /\ \/ AllMessages(2, z - 1) /\ segs[z].count = TrailersIn(2, z - 1, "UNT")
         \/ grouped /\ segs[z].count = TrailersIn(2, z - 1, "UNE")
      /\ UniqueRefs("UNH") /\ UniqueRefs("UNG")

(***************************************************************************)
(* Validation accepts exactly the correct interchanges (validate_envelope, *)
(* envelope.rs): one loop over messages, called per group, one over the    *)
(* groups, and checks before and after both, miss nothing and refuse       *)
(* nothing that is right.  A correct one names a repertoire that the crate *)
(* has: a UNOX or KECA is refused as unsupported.                          *)
(***************************************************************************)
AcceptsTheCorrect == (Validate(segs).errors = <<>>) <=> GoodInterchange

-----------------------------------------------------------------------------
Bounds(windows) == [k \in 1..Len(windows) |-> <<windows[k].first, windows[k].end>>]

(***************************************************************************)
(* An interchange whose structure validation can interpret has, whatever   *)
(* else is wrong with it, the messages and groups the recovered windows    *)
(* and the boundaries CONTRL finds in its segments have, at the same       *)
(* indices: three independent walks (envelope.rs, recover.rs, contrl.rs)   *)
(* that findings of one are handed to another by index.                    *)
(***************************************************************************)
WalksAgree ==
  LET v == Validate(segs)
      tags == TagsOf(segs)
      w == Windows(tags)
  IN  ~v.fatal =>
        /\ Bounds(v.messages) = Bounds(w.messages)
        /\ Bounds(v.groups) = Bounds(w.groups)
        /\ Bounds(v.messages) = Bounds(SpansBetween(tags, "UNH", "UNT"))
        /\ Bounds(v.groups) = Bounds(SpansBetween(tags, "UNG", "UNE"))

(* The item that ends what is opened at i by one of these tags, or 0.      *)
StopAfter(i, stops) ==
  LET after == {j \in DOMAIN segs : j > i /\ segs[j].tag \in stops}
  IN  IF after = {} THEN 0 ELSE CHOOSE j \in after : \A k \in after : j <= k

EndOf(i, stops, closer) ==
  LET j == StopAfter(i, stops)
  IN  IF j = 0 THEN Len(segs) ELSE IF segs[j].tag = closer THEN j ELSE j - 1

(***************************************************************************)
(* The recovered windows of any sequence of tags, interchange or not: a    *)
(* message or group is the items from its header to its trailer, or to     *)
(* what interrupts it, and a message belongs to the group around it        *)
(* (build_windows, recover.rs, which moves ends as it goes).               *)
(***************************************************************************)
WindowsAsDeclared ==
  LET w == Windows(TagsOf(segs))
      Headers(tag) == {i \in DOMAIN segs : segs[i].tag = tag}
  IN  /\ {<<m.first, m.end>> : m \in Range(w.messages)} =
           {<<i, EndOf(i, {"UNH", "UNT", "UNG", "UNE", "UNZ"}, "UNT")>> : i \in Headers("UNH")}
      /\ {<<g.first, g.end>> : g \in Range(w.groups)} =
           {<<i, EndOf(i, {"UNG", "UNE", "UNZ"}, "UNE")>> : i \in Headers("UNG")}
      /\ \A m \in Range(w.messages) :
           \A i \in m.first..m.end : FirstWithin(w.groups, i) = m.group

-----------------------------------------------------------------------------
(* An error of this kind about segment i; it may point at element e.       *)
ErrorAt(kind, i, e) == Fault(kind, i, segs[i].tag, e, i)

(* Elements an error may point at; an offset always points at one.         *)
Elements(kind) ==
  IF kind \in OffsetAnchored THEN {1, 3}
  ELSE IF kind \in ElementSpanned \cup ComponentSpanned THEN {3} ELSE {NoElement}

SampleErrors ==
  {ErrorAt(kind, i, e) : kind \in Kinds, i \in DOMAIN segs, e \in {NoElement, 3}}

(* What ContrlLocation promises of itself (contrl/location.rs).            *)
WellPlaced(l) ==
  /\ Permitted(l.error, l.level)
  /\ l.level \in {SegmentLevel, DataElement} => l.message # NoOrdinal /\ l.segment # NoOrdinal
  /\ l.level = DataElement => l.element # NoElement
  /\ l.service # NoService =>
       \/ l.level = Interchange /\ l.service \in {"UNA", "UNB", "UNZ"}
       \/ l.level = Group /\ l.service \in {"UNG", "UNE"}
       \/ l.level = Message /\ l.service \in {"UNH", "UNT"}

(* A location depends on the tags only: the states with no other slip.     *)
TagsAlone ==
  /\ Len(segs) <= MaxLocated
  /\ slips = Cardinality({i \in DOMAIN segs : segs[i].tag \notin Due(SubSeq(segs, 1, i - 1))})

(* The message an error is known to be about decides where those go that   *)
(* name a tag, or miss one.                                                *)
HintsFor(e) ==
  IF e.kind \in TagAnchored \cup {"MissingSegment"}
  THEN 0..Len(Windows(TagsOf(segs)).messages) ELSE {NoOrdinal}

(***************************************************************************)
(* Whatever the error, and whatever state the interchange is in, its       *)
(* location carries a code its level may carry, and names only a segment,  *)
(* element or service segment that its level has.                          *)
(***************************************************************************)
PlacedWherePermitted ==
  LET tags == TagsOf(segs)
      w == Windows(tags)
  IN  TagsAlone => \A e \in SampleErrors :
        /\ \A m \in HintsFor(e) : WellPlaced(Locate(w, tags, e, m))
        /\ WellPlaced(LocateIssue(tags, e))
        /\ WellPlaced(LocateFault(w, tags, e, e.at))

(***************************************************************************)
(* "The two paths cannot place a fault differently" (contrl.rs:880): an    *)
(* error with a span is located alike by RecoveredInterchange::locate and, *)
(* as an issue of a report, by from_report, once the structure is one that *)
(* validation can interpret; and each place is one its code may have.      *)
(***************************************************************************)
LocationsAgree ==
  LET tags == TagsOf(segs)
      w == Windows(tags)
  IN  /\ PlacedWherePermitted
      /\ TagsAlone /\ ~Validate(segs).fatal =>
           \A kind \in Spanned, i \in DOMAIN segs : \A e \in Elements(kind) :
             LocateIssue(tags, ErrorAt(kind, i, e)) = Locate(w, tags, ErrorAt(kind, i, e), NoOrdinal)
=============================================================================
