---------------------------- MODULE SyntaxErrors ----------------------------
(***************************************************************************)
(* What an error (error.rs) is to a CONTRL: its stable code, the DE 0085   *)
(* code that names it, the levels that may carry that code (contrl.rs),    *)
(* and what it says about its own position (contrl/location.rs).  An error *)
(* is the name of its EdifactError variant.                                *)
(***************************************************************************)
EXTENDS Sequences

(* The errors that are faults of an interchange. *)
Kinds ==
  {"UnexpectedEof", "InvalidDelimiter", "InvalidText", "MessageCountMismatch",
   "SegmentCountMismatch", "InvalidSegmentTag", "InvalidUna", "MissingRequiredElement",
   "InvalidSegmentForMessage", "InvalidElementCount", "InvalidComponentCount",
   "InvalidCodeValue", "MissingSegment", "QualifierMismatch",
   "ConditionalRequirementNotMet", "InvalidReleaseSequence", "SegmentTooLong",
   "MissingRequiredComponent", "InterchangeTooLarge", "InvalidFieldValue",
   "UnexpectedDataToken", "UnrecognisedSyntaxIdentifier", "DuplicateReference",
   "LimitExceeded", "CharacterNotInRepertoire", "UnsupportedCharset",
   "EmptyInterchange", "EmptyMessage", "PackageNotSupported", "BlankDataElementValue",
   "SegmentWithoutDataElements", "TooManyRepetitions", "InvalidCharacterType",
   "DataElementTooLong", "DataElementTooShort", "TrailingSeparator",
   "GroupsAndMessagesMixed", "InsignificantCharacters", "SegmentNotPlaced",
   "TooManySegmentOccurrences", "TooManyGroupOccurrences"}

(* stable_code *)
StableCodes ==
  [kind \in Kinds |->
     CASE kind = "UnexpectedEof" -> "E001" [] kind = "InvalidDelimiter" -> "E002"
       [] kind = "InvalidText" -> "E003" [] kind = "MessageCountMismatch" -> "E004"
       [] kind = "SegmentCountMismatch" -> "E005" [] kind = "InvalidSegmentTag" -> "E006"
       [] kind = "InvalidUna" -> "E007" [] kind = "MissingRequiredElement" -> "E008"
       [] kind = "InvalidSegmentForMessage" -> "E011" [] kind = "InvalidElementCount" -> "E012"
       [] kind = "InvalidComponentCount" -> "E013" [] kind = "InvalidCodeValue" -> "E014"
       [] kind = "MissingSegment" -> "E015" [] kind = "QualifierMismatch" -> "E016"
       [] kind = "ConditionalRequirementNotMet" -> "E017" [] kind = "InvalidReleaseSequence" -> "E019"
       [] kind = "SegmentTooLong" -> "E020" [] kind = "MissingRequiredComponent" -> "E021"
       [] kind = "InterchangeTooLarge" -> "E023" [] kind = "InvalidFieldValue" -> "E027"
       [] kind = "UnexpectedDataToken" -> "E028" [] kind = "UnrecognisedSyntaxIdentifier" -> "E031"
       [] kind = "DuplicateReference" -> "E032" [] kind = "LimitExceeded" -> "E036"
       [] kind = "CharacterNotInRepertoire" -> "E038" [] kind = "UnsupportedCharset" -> "E039"
       [] kind = "EmptyInterchange" -> "E042" [] kind = "EmptyMessage" -> "E043"
       [] kind = "PackageNotSupported" -> "E044" [] kind = "BlankDataElementValue" -> "E045"
       [] kind = "SegmentWithoutDataElements" -> "E046" [] kind = "TooManyRepetitions" -> "E047"
       [] kind = "InvalidCharacterType" -> "E048" [] kind = "DataElementTooLong" -> "E049"
       [] kind = "DataElementTooShort" -> "E050" [] kind = "TrailingSeparator" -> "E051"
       [] kind = "GroupsAndMessagesMixed" -> "E052" [] kind = "InsignificantCharacters" -> "E053"
       [] kind = "SegmentNotPlaced" -> "E068" [] kind = "TooManySegmentOccurrences" -> "E069"
       [] kind = "TooManyGroupOccurrences" -> "E070"]

(* SyntaxError::for_error, as DE 0085 codes; 18 is "unspecified". *)
ForError(kind) ==
  CASE kind \in {"MessageCountMismatch", "SegmentCountMismatch"} -> "29"
    [] kind = "QualifierMismatch" -> "28"
    [] kind = "DuplicateReference" -> "26"
    [] kind \in {"MissingRequiredElement", "MissingRequiredComponent", "MissingSegment",
                 "SegmentWithoutDataElements"} -> "13"
    [] kind \in {"InvalidCodeValue", "InvalidFieldValue", "BlankDataElementValue",
                 "InsignificantCharacters"} -> "12"
    [] kind \in {"InvalidSegmentForMessage", "ConditionalRequirementNotMet",
                 "SegmentNotPlaced"} -> "15"
    [] kind \in {"InvalidElementCount", "InvalidComponentCount"} -> "16"
    [] kind \in {"UnrecognisedSyntaxIdentifier", "UnsupportedCharset"} -> "46"
    [] kind \in {"CharacterNotInRepertoire", "InvalidText"} -> "21"
    [] kind \in {"InvalidUna", "InvalidDelimiter", "InvalidReleaseSequence"} -> "22"
    [] kind \in {"EmptyInterchange", "EmptyMessage"} -> "32"
    [] kind = "PackageNotSupported" -> "47"
    [] kind \in {"SegmentTooLong", "DataElementTooLong"} -> "39"
    [] kind = "DataElementTooShort" -> "40"
    [] kind = "InvalidCharacterType" -> "37"
    [] kind \in {"TooManyRepetitions", "TooManySegmentOccurrences"} -> "35"
    [] kind = "TooManyGroupOccurrences" -> "36"
    [] kind = "TrailingSeparator" -> "45"
    [] kind = "GroupsAndMessagesMixed" -> "30"
    [] kind \in {"UnexpectedDataToken", "InvalidSegmentTag"} -> "33"
    [] OTHER -> "18"

(* SyntaxError::for_issue, which has the stable code only. *)
ForIssue(stable) ==
  CASE stable \in {"E004", "E005"} -> "29"
    [] stable = "E016" -> "28"
    [] stable = "E032" -> "26"
    [] stable \in {"E008", "E015", "E021", "E046"} -> "13"
    [] stable \in {"E014", "E027", "E045", "E053"} -> "12"
    [] stable \in {"E011", "E017", "E068"} -> "15"
    [] stable \in {"E012", "E013"} -> "16"
    [] stable \in {"E031", "E039"} -> "46"
    [] stable \in {"E003", "E038"} -> "21"
    [] stable \in {"E002", "E007", "E019"} -> "22"
    [] stable \in {"E042", "E043"} -> "32"
    [] stable = "E044" -> "47"
    [] stable \in {"E020", "E049"} -> "39"
    [] stable = "E050" -> "40"
    [] stable = "E048" -> "37"
    [] stable \in {"E047", "E069"} -> "35"
    [] stable = "E070" -> "36"
    [] stable = "E051" -> "45"
    [] stable = "E052" -> "30"
    [] stable \in {"E006", "E028"} -> "33"
    [] OTHER -> "18"

(* ReportingLevel *)
Interchange == "UCI"
Group == "UCF"
Message == "UCM"
SegmentLevel == "UCS"
DataElement == "UCD"

(* permitted_at: the levels Annex A allows a code at. *)
LevelsOf(code) ==
  CASE code \in {"2", "7", "20", "23", "46"} -> {Interchange}
    [] code \in {"12", "13", "14", "15", "16", "18", "21", "22"} ->
         {Interchange, Group, Message, SegmentLevel, DataElement}
    [] code \in {"17", "25", "45"} -> {Interchange, Group, Message, SegmentLevel}
    [] code = "24" -> {Interchange, Group}
    [] code \in {"26", "28", "29", "30"} -> {Interchange, Group, Message}
    [] code \in {"32", "33"} -> {Interchange, Group}
    [] code = "35" -> {Message, SegmentLevel, DataElement}
    [] code = "36" -> {SegmentLevel}
    [] code \in {"37", "39", "40"} -> {Interchange, Group, Message, DataElement}
    [] code = "47" -> {Group, Message}

Permitted(code, level) == level \in LevelsOf(code)

-----------------------------------------------------------------------------
(* detail_of: what an error anchors to. *)
OffsetAnchored ==
  {"UnexpectedEof", "InvalidDelimiter", "InvalidText", "InvalidReleaseSequence",
   "UnexpectedDataToken"}

InterchangeAnchored == {"InterchangeTooLarge", "LimitExceeded", "EmptyInterchange"}

TagAnchored == {"MissingRequiredElement", "InvalidFieldValue", "MissingRequiredComponent"}

(* Spanned errors, by whether they also name an element, and a component. *)
ElementSpanned ==
  {"InvalidComponentCount", "InvalidCodeValue", "ConditionalRequirementNotMet",
   "TooManyRepetitions", "TrailingSeparator"}

ComponentSpanned ==
  {"BlankDataElementValue", "InvalidCharacterType", "DataElementTooLong",
   "DataElementTooShort", "InsignificantCharacters"}

SegmentSpanned ==
  {"SegmentCountMismatch", "InvalidSegmentForMessage", "InvalidElementCount",
   "QualifierMismatch", "DuplicateReference", "EmptyMessage", "PackageNotSupported",
   "SegmentWithoutDataElements", "SegmentNotPlaced", "TooManySegmentOccurrences",
   "TooManyGroupOccurrences", "GroupsAndMessagesMixed"}

Spanned == SegmentSpanned \cup ElementSpanned \cup ComponentSpanned

(* The service segment an error is about, whatever it was raised for. *)
ServiceOf(kind) ==
  CASE kind = "MessageCountMismatch" -> "UNZ"
    [] kind \in {"UnrecognisedSyntaxIdentifier", "UnsupportedCharset"} -> "UNB"
    [] kind = "InvalidUna" -> "UNA"

ServiceAnchored ==
  {"MessageCountMismatch", "UnrecognisedSyntaxIdentifier", "UnsupportedCharset", "InvalidUna"}

Unplaced == {"InvalidSegmentTag", "CharacterNotInRepertoire"}
=============================================================================
