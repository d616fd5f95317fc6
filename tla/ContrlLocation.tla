--------------------------- MODULE ContrlLocation ---------------------------
(***************************************************************************)
(* Where an error sits in CONTRL terms (contrl/location.rs), on the two    *)
(* ways to find out: RecoveredInterchange::locate (recover.rs), over the   *)
(* items of a scan, and locate_issue (contrl.rs), over parsed segments.    *)
(*                                                                         *)
(* An error is [kind, at, tag, element]: the item its offset or span lies  *)
(* in, the tag it names, and the data element position (DE 0098, the tag   *)
(* being 1) it points at.  Components go with their element.               *)
(***************************************************************************)
EXTENDS RecoveredWindows, SyntaxErrors

NoService == "no service segment"

Location(level, group, message, segment, service, element, error, exact) ==
  [level |-> level, group |-> group, message |-> message, segment |-> segment,
   service |-> service, element |-> element, error |-> error, exact |-> exact]

ServiceIn(tag, allowed) == IF tag \in allowed THEN tag ELSE NoService

(* S011 belongs to a service segment; without one there is none. *)
ElementOf(t, service) == IF service = NoService THEN NoElement ELSE t.element

(* Fault: a code that climbs past the message keeps its code whether or    *)
(* not the interchange may carry it.                                       *)
KeepCode(t, service, element, code) ==
  Location(Interchange, NoOrdinal, NoOrdinal, NoOrdinal, service, element, code, t.exact)

OnInterchange(t, service, element, code) ==
  Location(Interchange, NoOrdinal, NoOrdinal, NoOrdinal, service, element,
           IF Permitted(code, Interchange) THEN code ELSE "18", t.exact)

OnGroup(t, service, code) ==
  Location(Group, t.group, NoOrdinal, NoOrdinal, service, ElementOf(t, service), code, t.exact)

OnMessage(t, service, code) ==
  Location(Message, t.group, t.message, NoOrdinal, service, ElementOf(t, service), code, t.exact)

Climb(t, code) ==
  IF t.group # NoOrdinal /\ Permitted(code, Group) THEN OnGroup(t, NoService, code)
  ELSE OnInterchange(t, NoService, NoElement, code)

(* The message's own header or trailer, or the message as a whole. *)
PlaceOnMessage(t, code, stable) ==
  LET missing == IF stable = "E043" THEN "13" ELSE code
  IN  IF Permitted(missing, Message)
      THEN OnMessage(t, ServiceIn(t.tag, {"UNH", "UNT"}), missing)
      ELSE Climb(t, missing)

(* A body segment: the deepest level that may carry the code.  An invalid  *)
(* tag is an invalid value of the segment's first position.                *)
PlaceInBody(t, code, stable) ==
  LET tagFault == stable \in {"E006", "E028"}
      stated == IF tagFault THEN "12" ELSE code
      element == IF tagFault THEN 1 ELSE t.element
      At(level, e) ==
        Location(level, t.group, t.message, t.position, NoService, e, stated, t.exact)
  IN  CASE element # NoElement /\ Permitted(stated, DataElement) -> At(DataElement, element)
        [] (element = NoElement \/ ~Permitted(stated, DataElement))
           /\ Permitted(stated, SegmentLevel) -> At(SegmentLevel, NoElement)
        [] OTHER -> IF Permitted(stated, Message) THEN OnMessage(t, NoService, stated)
                    ELSE Climb(t, stated)

PlaceInGroup(t, code) ==
  IF Permitted(code, Group) THEN OnGroup(t, ServiceIn(t.tag, {"UNG", "UNE"}), code)
  ELSE OnInterchange(t, NoService, NoElement, code)

PlaceInInterchange(t, code) ==
  LET service == ServiceIn(t.tag, {"UNA", "UNB", "UNZ"})
  IN  OnInterchange(t, service, ElementOf(t, service), code)

Place(t, code, stable) ==
  CASE stable = "E007" ->
         Location(Interchange, NoOrdinal, NoOrdinal, NoOrdinal, "UNA", NoElement, "20", t.exact)
    [] stable # "E007" /\ t.message # NoOrdinal ->
         IF t.position = NoOrdinal \/ t.tag \in {"UNH", "UNT"}
         THEN PlaceOnMessage(t, code, stable) ELSE PlaceInBody(t, code, stable)
    [] stable # "E007" /\ t.message = NoOrdinal /\ t.group # NoOrdinal -> PlaceInGroup(t, code)
    [] OTHER -> PlaceInInterchange(t, code)

-----------------------------------------------------------------------------
(* RecoveredInterchange::target, by what the error anchors to.             *)
FirstWithTag(tags, tag, range) ==
  LET found == {i \in range \cap DOMAIN tags : tags[i] = tag}
  IN  IF found = {} THEN NoOrdinal ELSE CHOOSE i \in found : \A j \in found : i <= j

(* The message as a whole, for something that does not occur in it. *)
WholeMessage(w, m, tag) ==
  Target(ServiceIn(tag, {"UNH", "UNT"}), m, NoOrdinal, w.messages[m].group, NoElement, FALSE)

TagTarget(w, tags, e, m) ==
  LET range == IF e.tag \in {"UNB", "UNZ", "UNG", "UNE"} THEN DOMAIN tags
               ELSE IF m = NoOrdinal THEN {} ELSE w.messages[m].first .. w.messages[m].end
      found == FirstWithTag(tags, e.tag, range)
      base == CASE found # NoOrdinal -> ItemTarget(w, tags, found)
                [] found = NoOrdinal /\ m # NoOrdinal -> WholeMessage(w, m, e.tag)
                [] OTHER -> InterchangeTarget(FALSE)
  IN  [base EXCEPT !.exact = FALSE, !.element = e.element]

MissingTarget(w, e, m) ==
  IF m # NoOrdinal THEN WholeMessage(w, m, e.tag)
  ELSE [InterchangeTarget(FALSE) EXCEPT !.tag = ServiceIn(e.tag, {"UNB", "UNZ"})]

ServiceTarget(w, tags, service, element) ==
  LET found == FirstWithTag(tags, service, DOMAIN tags)
      base == IF found # NoOrdinal THEN ItemTarget(w, tags, found)
              ELSE [InterchangeTarget(TRUE) EXCEPT !.tag = service]
  IN  [base EXCEPT !.element = element]

(* UNB S001 DE 0001 is the first element after the tag. *)
ServiceElement(kind) ==
  IF kind \in {"UnrecognisedSyntaxIdentifier", "UnsupportedCharset"} THEN 2 ELSE NoElement

TargetOf(w, tags, e, m) ==
  CASE e.kind = "SegmentTooLong" -> ItemTarget(w, tags, e.at)
    [] e.kind \in OffsetAnchored \cup Spanned ->
         [ItemTarget(w, tags, e.at) EXCEPT !.element = e.element]
    [] e.kind \in TagAnchored -> TagTarget(w, tags, e, m)
    [] e.kind = "MissingSegment" -> MissingTarget(w, e, m)
    [] e.kind \in ServiceAnchored ->
         ServiceTarget(w, tags, ServiceOf(e.kind), ServiceElement(e.kind))
    [] e.kind \in InterchangeAnchored -> InterchangeTarget(TRUE)
    [] e.kind \in Unplaced -> InterchangeTarget(FALSE)

(* locate *)
Locate(w, tags, e, m) ==
  Place(TargetOf(w, tags, e, m), ForError(e.kind), StableCodes[e.kind])

(* fault_target: a fault the scan recorded at item i is placed there when  *)
(* its error does not say where it is.                                     *)
LocateFault(w, tags, e, i) ==
  IF e.kind \in Unplaced \cup TagAnchored \cup {"MissingSegment"}
  THEN Place(ItemTarget(w, tags, i), ForError(e.kind), StableCodes[e.kind])
  ELSE Locate(w, tags, e, NoOrdinal)

-----------------------------------------------------------------------------
(* spans_between: from an opening tag to the next closing one. *)
SpanStep(open, close, x, tag, i) ==
  [start |-> CASE tag = open -> i [] tag = close -> NoOrdinal [] OTHER -> x.start,
   out |-> IF tag = close /\ x.start # NoOrdinal
           THEN Append(x.out, [first |-> x.start, end |-> i]) ELSE x.out]

SpansAfter(tags, open, close) ==
  LET after[i \in 0..Len(tags)] ==
        IF i = 0 THEN [start |-> NoOrdinal, out |-> <<>>]
        ELSE SpanStep(open, close, after[i-1], tags[i], i)
  IN  after

SpansBetween(tags, open, close) == SpansAfter(tags, open, close)[Len(tags)].out

(* Fault: the position of a segment in its message is its distance from UNH. *)
DistanceTarget(tags, i) ==
  LET messages == SpansBetween(tags, "UNH", "UNT")
      m == FirstWithin(messages, i)
  IN  Target(tags[i], m, IF m = NoOrdinal THEN NoOrdinal ELSE i - messages[m].first,
             FirstWithin(SpansBetween(tags, "UNG", "UNE"), i), NoElement, TRUE)

SegmentTarget(tags, i) ==
  LET messages == SpansBetween(tags, "UNH", "UNT")
      m == FirstWithin(messages, i)
  IN  Target(tags[i], m, IF m = NoOrdinal THEN NoOrdinal ELSE i - messages[m].first + 1,
             FirstWithin(SpansBetween(tags, "UNG", "UNE"), i), NoElement, TRUE)

(* issue_from_error: the issue has the error's span and, for most errors   *)
(* that name one, its element; an offset becomes an empty span.            *)
IssueHasSpan(kind) ==
  kind \in OffsetAnchored \cup Spanned \cup {"SegmentTooLong", "LimitExceeded"}

IssueHasElement(kind) == kind \in ElementSpanned \cup ComponentSpanned \cup TagAnchored

(* anchor_for_code: an issue without a span. *)
TargetForCode(stable) ==
  CASE stable = "E004" -> [InterchangeTarget(TRUE) EXCEPT !.tag = "UNZ"]
    [] stable \in {"E031", "E039"} ->
         [InterchangeTarget(TRUE) EXCEPT !.tag = "UNB", !.element = 2]
    [] stable = "E007" -> [InterchangeTarget(TRUE) EXCEPT !.tag = "UNA"]
    [] OTHER -> InterchangeTarget(TRUE)

(* locate_issue *)
LocateIssue(tags, e) ==
  LET stable == StableCodes[e.kind]
      t == IF IssueHasSpan(e.kind)
           THEN [SegmentTarget(tags, e.at) EXCEPT
                   !.element = IF IssueHasElement(e.kind) THEN e.element ELSE NoElement]
           ELSE TargetForCode(stable)
  IN  Place(t, ForIssue(stable), stable)
=============================================================================
