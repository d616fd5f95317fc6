----------------------------- MODULE Validation -----------------------------
(***************************************************************************)
(* The validation pipeline (validator/context.rs, validator/mod.rs): a     *)
(* context runs its validators, one after another, over the segments of a  *)
(* batch, the flat pass, and then over its tree of groups.                 *)
(*                                                                         *)
(* A validator is [layer, does, using]: the envelope, syntax and charset   *)
(* checks, a directory, a pack, and a validator of the caller's that       *)
(* reports the issues it holds.  A batch is [segs, root, grouped].         *)
(***************************************************************************)
EXTENDS Packs

CONSTANTS
  Contexts, Batches,
  AnyCharacter,    \* the repertoire that has every character
  NoCharset,       \* no repertoire, or one that is not supported
  Garbled, Absent  \* trailer counts, as in Envelope

VARIABLES ctx, batch, report, next, pass

vars == <<ctx, batch, report, next, pass>>

E == INSTANCE Envelope

EnvelopeClass == {"envelope", "syntax", "charset"}
EnvelopeTags == {"UNB", "UNZ", "UNG", "UNE"}

-----------------------------------------------------------------------------
(* ValidationContextBuilder *)
NewContext ==
  [validators |-> <<>>, envelope |-> FALSE, structure |-> TRUE, codes |-> TRUE,
   profile |-> TRUE, bail |-> FALSE, type |-> NoType, ref |-> NoValue, statics |-> <<>>]

SetMessageType(validator, type) ==
  IF validator.does = "directory" THEN [validator EXCEPT !.using.type = type] ELSE validator

WithMessageRef(c, ref) == [c EXCEPT !.ref = ref]
WithMessageType(c, type) ==
  [c EXCEPT !.type = type,
            !.validators = [i \in DOMAIN @ |-> SetMessageType(@[i], type)]]
WithStructure(c, enabled) == [c EXCEPT !.structure = enabled]
WithCodeList(c, enabled) == [c EXCEPT !.codes = enabled]
WithProfile(c, enabled) == [c EXCEPT !.profile = enabled]
WithEnvelope(c, enabled) == [c EXCEPT !.envelope = enabled]
BailOnFirstCritical(c, bail) == [c EXCEPT !.bail = bail]

Layered(layer, does, using) == [layer |-> layer, does |-> does, using |-> using]
Added(c, validator) == [c EXCEPT !.validators = Append(@, validator)]

WithValidator(c, layer, does, using) ==
  Added(c, SetMessageType(Layered(layer, does, using), c.type))
WithEnvelopeValidation(c) ==
  Added(WithEnvelope(c, TRUE), Layered("envelope", "envelope", NoValue))
WithSyntaxValidation(c) == Added(WithEnvelope(c, TRUE), Layered("syntax", "syntax", NoValue))
WithCharsetValidation(c) ==
  Added(WithEnvelope(c, TRUE), Layered("charset", "charset", NoCharset))
WithCharsetValidationFor(c, charset) ==
  Added(WithEnvelope(c, TRUE), Layered("charset", "charset", charset))
WithProfilePack(c, pack) == Added(c, Layered("profile", "pack", pack))
WithStaticIssue(c, issue) == [c EXCEPT !.statics = Append(@, issue)]

(* fork_with_message_ref: a validator that cannot be forked is left out,   *)
(* and the child says so.                                                  *)
Forks(validator) == validator.does \notin {"directory", "external"}

Fork(c, ref) ==
  LET kept == SelectSeq(c.validators, Forks)
      note == [NewIssue("info", "excluded") EXCEPT
                 !.rule = "edifact-rs::fork::excluded-validator", !.kind = "other"]
  IN  [c EXCEPT !.validators = kept, !.ref = ref,
                !.statics = IF kept = c.validators THEN @ ELSE Append(@, note)]

(* layer_enabled *)
Enabled(c, layer) ==
  CASE layer \in EnvelopeClass -> c.envelope
    [] layer = "structure" -> c.structure
    [] layer = "code list" -> c.codes
    [] layer = "profile" -> c.profile

(* Fault: the envelope validator hides the envelope, the other two do not. *)
EnvelopeActiveAlone(c) ==
  c.envelope /\ \E v \in Range(c.validators) : v.layer = "envelope"

EnvelopeActive(c) ==
  c.envelope /\ \E v \in Range(c.validators) : v.layer \in EnvelopeClass

(* What the layers below the envelope see of a batch: envelope_interior, or *)
(* the segments filtered, which are the same segments.                      *)
Interior(segs) == SelectSeq(segs, LAMBDA seg : seg.tag \notin EnvelopeTags)

ShownTo(c, validator, segs) ==
  IF validator.layer \notin EnvelopeClass /\ EnvelopeActive(c) THEN Interior(segs) ELSE segs

-----------------------------------------------------------------------------
(* What a validator reports of the segments it is shown.                   *)
ErrorAt(finding, segs, i, layer) ==
  [IssueFromError(finding.kind, segs[i].tag, segs[i].index, finding.element, finding.component)
     EXCEPT !.layer = layer, !.position = MessagePosition(segs, i)]

(* An error that lies in a segment names its tag; a count mismatch names    *)
(* the message too.                                                         *)
EnvelopeIssues(segs) ==
  LET errors == E!Validate(segs).errors
      Tag(error) == IF error.at = 0 THEN error.tag ELSE segs[error.at].tag
      RefOf(error) == segs[Max({j \in 1..error.at : segs[j].tag = "UNH"})].ref
      Of(error) ==
        [IssueFromError(error.kind, Tag(error), error.at, error.element, 1) EXCEPT
           !.layer = "envelope",
           !.ref = IF error.kind = "SegmentCountMismatch" THEN RefOf(error) ELSE NoValue]
  IN  [i \in DOMAIN errors |-> Of(errors[i])]

(* Every component value of an element, in order: [component, value].      *)
ValuesOf(element) ==
  FlattenSeq([o \in DOMAIN element |->
    [c \in DOMAIN element[o] |-> [component |-> c, value |-> element[o][c]]]])

IsBlank(value) == value # Empty /\ Range(value) = {Space}

SyntaxFaults(seg) ==
  LET n == Len(seg.elements)
      Of(e) ==
        LET values == ValuesOf(seg.elements[e])
            first == seg.elements[e][1]
            blanks == SelectSeq(values, LAMBDA v : IsBlank(v.value))
        IN  (IF Len(first) > 1 /\ first[Len(first)] = Empty
             THEN <<Found("TrailingSeparator", e, 0)>> ELSE <<>>)
              \o [b \in DOMAIN blanks |-> Found("BlankDataElementValue", e, blanks[b].component)]
  IN  CASE n = 0 -> <<Found("SegmentWithoutDataElements", 0, 0)>>
        [] n > 0 ->
             (IF n > 1 /\ \A v \in Range(ValuesOf(seg.elements[n])) : v.value = Empty
              THEN <<Found("TrailingSeparator", 0, 0)>> ELSE <<>>)
               \o FlattenSeq([e \in 1..n |-> Of(e)])

SyntaxIssues(segs) ==
  LET Of(i) ==
        LET faults == SyntaxFaults(segs[i])
        IN  [f \in DOMAIN faults |-> ErrorAt(faults[f], segs, i, "syntax")]
  IN  FlattenSeq([i \in DOMAIN segs |-> Of(i)])

(* A repertoire is the set of its characters. *)
ResolveCharset(stated, segs) ==
  LET unb == FirstWithTag(segs, "UNB")
  IN  IF stated # NoCharset THEN stated
      ELSE IF unb = 0 THEN NoCharset ELSE segs[unb].charset

CharsetIssues(stated, segs) ==
  LET charset == ResolveCharset(stated, segs)
      Issue(i, e, c) ==
        [NewIssue("error", "charset") EXCEPT
           !.code = StableCodes["CharacterNotInRepertoire"], !.kind = "charset",
           !.layer = "charset", !.tag = segs[i].tag, !.at = segs[i].index,
           !.element = e, !.component = c, !.position = MessagePosition(segs, i)]
      InElement(i, e) ==
        LET wrong == SelectSeq(ValuesOf(segs[i].elements[e]),
                               LAMBDA v : ~(Range(v.value) \subseteq charset))
        IN  [w \in DOMAIN wrong |-> Issue(i, e, wrong[w].component)]
      Of(i) == FlattenSeq([e \in DOMAIN segs[i].elements |-> InElement(i, e)])
  IN  IF charset \in {NoCharset, AnyCharacter} THEN <<>>
      ELSE FlattenSeq([i \in DOMAIN segs |-> Of(i)])

(* DirectoryValidator::validate_batch *)
DirectoryIssues(directory, segs) ==
  LET version == DetectSyntaxVersion(segs)
      Of(i) ==
        LET found == SegmentIssues(directory, segs[i], version)
            Layer(f) == IF f.kind = "InvalidCodeValue" THEN "code list" ELSE "structure"
        IN  [f \in DOMAIN found |-> ErrorAt(found[f], segs, i, Layer(found[f]))]
      About(tag, what, kind, position) ==
        [NewIssue("error", what) EXCEPT
           !.tag = tag, !.layer = "structure", !.kind = kind, !.position = position]
      absent == AbsentSegments(directory, segs)
      late == OutOfOrder(directory, segs)
  IN  FlattenSeq([i \in DOMAIN segs |-> Of(i)])
        \o IF ~directory.structure \/ DetectMessageType(directory, segs) = NoType THEN <<>>
           ELSE [a \in DOMAIN absent |-> About(absent[a], "absent", "missing", 0)]
                  \o [l \in DOMAIN late |->
                        About(late[l], "late", "placement",
                              MessagePosition(segs, FirstWithTag(segs, late[l])))]

FlatFindings(validator, segs, type) ==
  CASE validator.does = "envelope" -> EnvelopeIssues(segs)
    [] validator.does = "syntax" -> SyntaxIssues(segs)
    [] validator.does = "charset" -> CharsetIssues(validator.using, segs)
    [] validator.does = "directory" -> DirectoryIssues(validator.using, segs)
    [] validator.does = "pack" -> FlatIssues(validator.using, segs, type)
    [] validator.does = "external" -> validator.using

GroupFindings(validator, b, type) ==
  IF validator.does = "pack" THEN GroupIssues(validator.using, b.root, b.segs, type) ELSE <<>>

HasGroupRules(c) ==
  \E v \in Range(c.validators) :
    v.does = "pack" /\ v.using.groupRules # <<>> /\ Enabled(c, v.layer)

-----------------------------------------------------------------------------
Init ==
  /\ ctx \in Contexts
  /\ batch \in Batches
  /\ report = EmptyReport
  /\ next = 1
  /\ pass = "flat"

Current == ctx.validators[next]
Running(name) == pass = name /\ next \in DOMAIN ctx.validators
Ended(name) == pass = name /\ next > Len(ctx.validators)
Type == UnhType(batch.segs)

StampLayer(layer, issues) ==
  [i \in DOMAIN issues |->
     IF issues[i].layer = NoValue THEN [issues[i] EXCEPT !.layer = layer] ELSE issues[i]]

(* The validator's turn: its issues, stamped; a critical one ends the pass. *)
Take(issues) ==
  LET found == PushAll(report, StampLayer(Current.layer, issues))
  IN  /\ report' = found
      /\ next' = IF ctx.bail /\ HasCritical(found) THEN Len(ctx.validators) + 1 ELSE next + 1
      /\ UNCHANGED <<ctx, batch, pass>>

RunOnWhole ==
  /\ Running("flat")
  /\ Enabled(ctx, Current.layer)
  /\ Current.layer \in EnvelopeClass
  /\ Take(FlatFindings(Current, batch.segs, Type))

RunOnShown ==
  /\ Running("flat")
  /\ Enabled(ctx, Current.layer)
  /\ Current.layer \notin EnvelopeClass
  /\ Take(FlatFindings(Current, ShownTo(ctx, Current, batch.segs), Type))

Skip ==
  /\ pass \in {"flat", "groups"} /\ next \in DOMAIN ctx.validators
  /\ ~Enabled(ctx, Current.layer)
  /\ next' = next + 1
  /\ UNCHANGED <<ctx, batch, report, pass>>

StampRef(ref, issues) ==
  [i \in DOMAIN issues |->
     IF issues[i].ref = NoValue THEN [issues[i] EXCEPT !.ref = ref] ELSE issues[i]]

(* The end of validate_with_context, and the start of run_group_pass.      *)
EndFlat ==
  /\ Ended("flat")
  /\ report' = PushAll([bucket \in DOMAIN report |-> StampRef(ctx.ref, report[bucket])],
                       ctx.statics)
  /\ next' = 1
  /\ pass' = IF batch.grouped /\ HasGroupRules(ctx) THEN "groups" ELSE "done"
  /\ UNCHANGED <<ctx, batch>>

RunOnGroups ==
  /\ Running("groups")
  /\ Enabled(ctx, Current.layer)
  /\ Take(GroupFindings(Current, batch, Type))

EndGroups ==
  /\ Ended("groups")
  /\ pass' = "done"
  /\ UNCHANGED <<ctx, batch, report, next>>

Next == RunOnWhole \/ RunOnShown \/ Skip \/ EndFlat \/ RunOnGroups \/ EndGroups

Spec == Init /\ [][Next]_vars

-----------------------------------------------------------------------------
Below == {"structure", "code list", "profile"}

(* The envelope is hidden from the layers below it, whichever validators   *)
(* of the envelope class there are and wherever they were registered: no   *)
(* issue that the flat pass makes below lies in an envelope segment.       *)
EnvelopeIsHidden ==
  ctx.envelope /\ (\E v \in Range(ctx.validators) : v.layer \in EnvelopeClass) =>
    \A issue \in IssuesOf(report) :
      issue.layer \in Below /\ issue.at # 0 /\ issue.group = NoValue =>
        batch.segs[issue.at].tag \notin EnvelopeTags

(* In a message that stands alone, the position of an issue is the place   *)
(* of its segment, counted from the UNH, whatever precedes the message.    *)
Headers == {i \in DOMAIN batch.segs : batch.segs[i].tag = "UNH"}

PositionsAreTrue ==
  Cardinality(Headers) = 1 =>
    \A issue \in IssuesOf(report) :
      issue.position # 0 /\ issue.at # 0 =>
        issue.position = issue.at - Min(Headers) + 1

PacksIn(c) == {c.validators[i].using : i \in {j \in DOMAIN c.validators :
                                                 c.validators[j].does = "pack"}}
FromPack(pack, inGroups) ==
  SelectSeq(IterIssues(report), LAMBDA issue :
    issue.pack = pack.name /\ ((issue.group # NoValue) <=> inGroups))

(* A capped pack reports of each rule at most its cap, over all the        *)
(* segments of a batch, and over all the groups of a batch.                *)
CapsHold ==
  \A pack \in PacksIn(ctx) : \A inGroups \in BOOLEAN :
    pack.limit # NoLimit =>
      \A rule \in Range(pack.rules \o pack.groupRules) :
        Cardinality({i \in DOMAIN FromPack(pack, inGroups) :
                       FromPack(pack, inGroups)[i].rule = rule.id}) <= pack.limit

(* A pack that bails reports the errors of one rule, at one group instance *)
(* in the group pass, and no more.                                         *)
BailingPacksStop ==
  \A pack \in PacksIn(ctx) : \A inGroups \in BOOLEAN :
    pack.bail =>
      Cardinality({<<issue.rule, issue.path>> : issue \in
        {x \in Range(FromPack(pack, inGroups)) : x.severity \in {"critical", "error"}}}) <= 1

(* A merged pack runs, of each id, the one rule of the pack that overrides *)
(* when it has one.                                                        *)
Ids(rules) == {rule.id : rule \in Range(rules)} \ {NoValue}

OverridesReplace ==
  \A pack, other \in PacksIn(ctx) :
    CompatibleReleases(pack, other) =>
      LET merged == MergeWithOverride(pack, other).rules
      IN  \A id \in Ids(other.rules) :
            /\ Cardinality({i \in DOMAIN merged : merged[i].id = id}) = 1
            /\ \A rule \in Range(merged) : rule.id = id => rule \in Range(other.rules)

(* What a pack is told it does: its caps, its bail-out and its overrides.   *)
PacksAreObeyed == CapsHold /\ BailingPacksStop /\ OverridesReplace

DirectoriesIn(c) ==
  {c.validators[i].using : i \in {j \in DOMAIN c.validators :
                                    c.validators[j].does = "directory"}}
Fresh == pass = "flat" /\ next = 1

(* A segment whose definition the audit finds nothing to say against has   *)
(* no component too many and, where an element is there, none too few.     *)
AuditedSegmentsFit ==
  Fresh =>
    \A directory \in DirectoriesIn(ctx) : \A seg \in Range(batch.segs) :
      /\ HasDefinition(directory, seg.tag)
      /\ directory.exact = <<>>
      /\ \A element \in Range(seg.elements) : Len(element) = 1
      /\ ~HasContradictions(Audit(ResolveDef(directory, seg.tag), <<seg>>))
      => \A f \in Range(SegmentIssues(directory, seg, NoVersion)) :
           /\ f.kind # "InvalidComponentCount"
           /\ f.kind = "MissingRequiredComponent" => ~IsPresent(seg, f.element)

(* Where the syntax version is not known, as below a hidden envelope, a    *)
(* value that is wrong is wrong in every version.                          *)
WrongPlaces(directory, seg, version) ==
  {<<f.element, f.component>> : f \in
    {x \in Range(SegmentIssues(directory, seg, version)) :
       x.kind \in {"InvalidCharacterType", "DataElementTooLong", "DataElementTooShort"}}}

UnknownVersionIsLenient ==
  Fresh =>
    \A directory \in DirectoriesIn(ctx) : \A seg \in Range(batch.segs) :
      \A version \in {3, 4} :
        WrongPlaces(directory, seg, NoVersion) \subseteq WrongPlaces(directory, seg, version)

(* Required segments of which none is late are all in their order.         *)
RequiredSegmentsAreOrdered ==
  Fresh =>
    \A directory \in DirectoriesIn(ctx) :
      OutOfOrder(directory, batch.segs) = <<>> =>
        LET first == [i \in DOMAIN directory.required |->
                        FirstWithTag(batch.segs, directory.required[i])]
        IN  \A i, j \in DOMAIN first : i < j /\ 0 \notin {first[i], first[j]} => first[i] <= first[j]
=============================================================================
