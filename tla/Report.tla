------------------------------- MODULE Report -------------------------------
(***************************************************************************)
(* Validation issues and reports (report.rs), and what an error becomes as *)
(* an issue (validator/mod.rs).  An issue is a record; `what` stands for   *)
(* its message, `at` for the span: the segment it lies in, 0 for none.     *)
(***************************************************************************)
EXTENDS SyntaxErrors, SequencesExt

CONSTANT NoValue   \* a field that is not set

NewIssue(severity, what) ==
  [what |-> what, severity |-> severity, at |-> 0, tag |-> NoValue, element |-> 0,
   component |-> 0, occurrence |-> 0, position |-> 0, code |-> NoValue, kind |-> NoValue,
   rule |-> NoValue, layer |-> NoValue, pack |-> NoValue, path |-> <<>>,
   group |-> NoValue, ref |-> NoValue]

(* severity_for_error *)
SeverityFor(error) ==
  IF error \in {"InvalidCodeValue", "BlankDataElementValue", "TrailingSeparator",
                "InsignificantCharacters"}
  THEN "warning" ELSE "error"

(* FindingKind::for_error *)
FindingKindFor(error) ==
  CASE error \in {"UnexpectedEof", "InvalidDelimiter", "InvalidSegmentTag", "InvalidUna",
                  "InvalidReleaseSequence", "UnexpectedDataToken",
                  "SegmentWithoutDataElements", "TrailingSeparator"} -> "syntax"
    [] error \in {"InvalidText", "UnrecognisedSyntaxIdentifier", "CharacterNotInRepertoire",
                  "UnsupportedCharset"} -> "charset"
    [] error \in {"MessageCountMismatch", "SegmentCountMismatch", "QualifierMismatch"} ->
         "control mismatch"
    [] error \in {"MissingRequiredElement", "MissingSegment", "ConditionalRequirementNotMet",
                  "MissingRequiredComponent"} -> "missing"
    [] error \in {"InvalidSegmentForMessage", "SegmentNotPlaced"} -> "placement"
    [] error \in {"InvalidElementCount", "InvalidComponentCount", "TooManyRepetitions",
                  "TooManySegmentOccurrences", "TooManyGroupOccurrences"} -> "count"
    [] error = "InvalidCodeValue" -> "code"
    [] error \in {"SegmentTooLong", "InterchangeTooLarge", "LimitExceeded"} -> "limit"
    [] error \in {"InvalidFieldValue", "BlankDataElementValue", "InvalidCharacterType",
                  "DataElementTooLong", "DataElementTooShort", "InsignificantCharacters"} ->
         "representation"
    [] error = "DuplicateReference" -> "duplicate"
    [] error \in {"EmptyInterchange", "EmptyMessage", "GroupsAndMessagesMixed"} -> "envelope"
    [] error = "PackageNotSupported" -> "unsupported"

(* issue_from_error: an issue has as much of a place as its error states.  *)
IssueFromError(error, tag, at, element, component) ==
  LET tagged == Spanned \cup {"MissingSegment", "MissingRequiredElement",
                              "MissingRequiredComponent"}
      hasElement == ElementSpanned \cup ComponentSpanned
                      \cup {"MissingRequiredElement", "MissingRequiredComponent"}
      hasComponent == ComponentSpanned \cup {"MissingRequiredComponent"}
  IN  [NewIssue(SeverityFor(error), error) EXCEPT
         !.code = StableCodes[error], !.kind = FindingKindFor(error),
         !.at = IF error \in Spanned \cup OffsetAnchored \cup {"SegmentTooLong", "LimitExceeded"}
                THEN at ELSE 0,
         !.tag = IF error \in tagged THEN tag ELSE NoValue,
         !.element = IF error \in hasElement THEN element ELSE 0,
         !.component = IF error \in hasComponent THEN component ELSE 0]

-----------------------------------------------------------------------------
EmptyReport == [errors |-> <<>>, warnings |-> <<>>, infos |-> <<>>]

(* push_issue, and Extend *)
Push(report, issue) ==
  CASE issue.severity \in {"critical", "error"} ->
         [report EXCEPT !.errors = Append(@, issue)]
    [] issue.severity = "warning" -> [report EXCEPT !.warnings = Append(@, issue)]
    [] issue.severity = "info" -> [report EXCEPT !.infos = Append(@, issue)]

PushAll(report, issues) == FoldLeft(Push, report, issues)

HasCritical(report) == \E i \in DOMAIN report.errors : report.errors[i].severity = "critical"

IterIssues(report) == report.errors \o report.warnings \o report.infos
IssuesOf(report) == Range(IterIssues(report))

=============================================================================
