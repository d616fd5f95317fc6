------------------------------- MODULE Contrl -------------------------------
(***************************************************************************)
(* A CONTRL message from the findings about an interchange (contrl.rs):    *)
(* findings are raised one by one, errors before warnings, and assembled   *)
(* into verdicts on the interchange (UCI), its groups (UCF) and messages   *)
(* (UCM), with the segments (UCS) and elements (UCD) at fault.  What each  *)
(* level says about its subject beyond that is copied and left out.        *)
(***************************************************************************)
EXTENDS ContrlLocation

CONSTANTS
  Shapes,        \* the interchanges: [messages, groups], see of_recovered
  Faults,        \* the kinds of error that are raised
  MaxFindings    \* bound on the findings about an interchange

IsShape(s) ==
  /\ s.groups \in Seq(BOOLEAN)
  /\ s.messages \in Seq([named: BOOLEAN, group: 0..Len(s.groups)])

ASSUME ContrlAssumption ==
  /\ Faults \subseteq Kinds
  /\ MaxFindings \in Nat
  /\ \A s \in Shapes : IsShape(s)

Rejected == "4"
Acknowledged == "7"

VARIABLES
  shape,      \* what can be named: messages [named, group], groups BOOLEAN
  options,    \* [recovered, forced, interchange, warnings]
  raised,     \* the findings so far: [location, rejects, states]
  reply       \* the CONTRL, or NoReply before it is assembled

contrlVars == <<shape, options, raised, reply>>

NoReply == [action |-> "no action"]
NoError == [code |-> "no code", service |-> NoService, element |-> NoElement]

LevelError(l) ==
  [code |-> l.error, service |-> l.service, element |-> ElementOf(l, l.service)]

-----------------------------------------------------------------------------
(* Shape: a message is named when its identity could be read and, in an    *)
(* interchange with groups, when its group can be named too.               *)
NamesGroup(s, g) == g \in DOMAIN s.groups /\ s.groups[g]

NamesMessage(s, m) ==
  /\ m \in DOMAIN s.messages
  /\ s.messages[m].named
  /\ s.groups = <<>> \/ NamesGroup(s, s.messages[m].group)

MessageIndex(f) ==
  IF f.location.level \in {Message, SegmentLevel, DataElement}
  THEN f.location.message ELSE NoOrdinal

(* assemble, first loop: one finding. *)
Reported(f) == f.rejects \/ options.warnings

Nameable(s, f) ==
  IF f.location.level = Group THEN NamesGroup(s, f.location.group)
  ELSE NamesMessage(s, MessageIndex(f))

(* Fault: what no level can name is dropped. *)
DropUnnamed(acc, f) ==
  IF f.location.level # Interchange /\ ~Nameable(shape, f) THEN acc
  ELSE IF f.location.level = Interchange
       THEN [acc EXCEPT !.rejected = @ \/ f.rejects]
       ELSE [acc EXCEPT !.lower = Append(@, f)]

TakeFinding(acc, f) ==
  CASE ~Reported(f) -> acc
    [] Reported(f) /\ f.location.level = Interchange ->
         [acc EXCEPT !.rejected = @ \/ f.rejects,
                     !.error = IF @ = NoError /\ f.states THEN LevelError(f.location) ELSE @]
    [] Reported(f) /\ f.location.level # Interchange /\ Nameable(shape, f) ->
         [acc EXCEPT !.lower = Append(@, f)]
    [] OTHER -> [acc EXCEPT !.unattributed = @ \/ f.rejects]

Untaken ==
  [unattributed |-> options.forced, rejected |-> FALSE, error |-> NoError, lower |-> <<>>]

(* What has been taken after each finding, and after none. *)
TakenAfter ==
  LET after[k \in 0..Len(raised)] ==
        IF k = 0 THEN Untaken ELSE TakeFinding(after[k-1], raised[k])
  IN  after

Taken == TakenAfter[Len(raised)]

-----------------------------------------------------------------------------
(* Those of a sequence that are in a set, in their order: filter.          *)
AmongAfter(s, S) ==
  LET after[k \in 0..Len(s)] ==
        IF k = 0 THEN <<>> ELSE IF s[k] \in S THEN Append(after[k-1], s[k]) ELSE after[k-1]
  IN  after

Among(s, S) == AmongAfter(s, S)[Len(s)]

Verdict(rejects) == IF rejects THEN Rejected ELSE Acknowledged

FirstError(findings) ==
  IF findings = <<>> THEN NoError ELSE LevelError(Head(findings).location)

MessagesOf(g) == {m \in DOMAIN shape.messages : shape.messages[m].group = g}

AnyRejects(findings) == \E f \in Range(findings) : f.rejects

(* message_verdict, for a message with findings. *)
MessageFindings(lower, m) == Among(lower, {f \in Range(lower) : MessageIndex(f) = m})

MessageVerdict(lower, m) ==
  LET own == MessageFindings(lower, m)
  IN  [index |-> m,
       action |-> Verdict(AnyRejects(own)),
       error |-> FirstError(Among(own, {f \in Range(own) : f.location.level = Message}))]

HasFindings(lower, m) == \E f \in Range(lower) : MessageIndex(f) = m

GroupFindings(lower, g) ==
  Among(lower, {f \in Range(lower) : f.location.level = Group /\ f.location.group = g})

MessageIndices == [m \in 1..Len(shape.messages) |-> m]

(* Fault: an acknowledged message stays under a rejected interchange. *)
KeepAll(lower, uciRejected, among) ==
  LET indices == Among(MessageIndices, {m \in among : HasFindings(lower, m)})
  IN  [k \in 1..Len(indices) |-> MessageVerdict(lower, indices[k])]

(* The messages of a level, in order, as far as they are reported.         *)
MessageReports(lower, uciRejected, among) ==
  LET shown == {m \in among :
                  /\ HasFindings(lower, m)
                  /\ uciRejected => MessageVerdict(lower, m).action = Rejected}
      indices == Among(MessageIndices, shown)
  IN  [k \in 1..Len(indices) |-> MessageVerdict(lower, indices[k])]

(* A rejected group rejects its messages, and lists none.                  *)
GroupReport(lower, whole, uciRejected, g) ==
  LET faults == GroupFindings(lower, g)
      own == AnyRejects(faults)
      messages == IF own THEN <<>>
                  ELSE MessageReports(lower, uciRejected, MessagesOf(g))
      rejects == own \/ (whole /\ \E m \in Range(messages) : m.action = Rejected)
  IN  [index |-> g,
       action |-> Verdict(rejects),
       error |-> IF own \/ ~rejects THEN FirstError(faults) ELSE NoError,
       messages |-> messages,
       shown |-> /\ shape.groups[g]
                 /\ faults # <<>> \/ messages # <<>>
                 /\ uciRejected => rejects]

GroupReports(lower, whole, uciRejected) ==
  LET reports == [g \in 1..Len(shape.groups) |-> GroupReport(lower, whole, uciRejected, g)]
  IN  Among(reports, {r \in Range(reports) : r.shown})

(* assemble *)
Assembled ==
  LET taken == Taken
      lower == taken.lower
      whole == options.interchange \/ taken.unattributed
      uciRejected == whole /\ (taken.unattributed \/ AnyRejects(lower))
  IN  IF taken.rejected
      THEN [action |-> Rejected, error |-> taken.error, messages |-> <<>>, groups |-> <<>>,
            findings |-> <<>>]
      ELSE [action |-> Verdict(uciRejected),
            error |-> IF uciRejected THEN NoError ELSE taken.error,
            messages |-> IF shape.groups # <<>> THEN <<>>
                         ELSE MessageReports(lower, uciRejected, DOMAIN shape.messages),
            groups |-> GroupReports(lower, whole, uciRejected),
            findings |-> lower]

-----------------------------------------------------------------------------
Line(tag, of, code) == [tag |-> tag, of |-> of, code |-> code]

(* segment_reports: a UCS for each position, a UCD for each element at     *)
(* fault.                                                                  *)
ReportSegment(acc, f, m) ==
  LET l == f.location
      fresh == l.segment \notin acc.positions
      ucs == Line("UCS", l.segment, IF l.level = SegmentLevel THEN l.error ELSE NoError.code)
      opened == IF fresh THEN Append(acc.out, ucs) ELSE acc.out
  IN  IF MessageIndex(f) # m \/ l.segment = NoOrdinal THEN acc
      ELSE [positions |-> acc.positions \cup {l.segment},
            out |-> IF l.level = DataElement
                    THEN Append(opened, Line("UCD", l.element, l.error)) ELSE opened]

Unreported == [positions |-> {}, out |-> <<>>]

SegmentsAfter(findings, m) ==
  LET after[k \in 0..Len(findings)] ==
        IF k = 0 THEN Unreported
        ELSE ReportSegment(after[k-1], findings[k], m)
  IN  after

SegmentReports(r, m) == SegmentsAfter(r.findings, m)[Len(r.findings)].out

(* message_report: a level's line, and its segments. *)
LevelLine(tag, report) ==
  [tag |-> tag, of |-> report.index, code |-> report.error.code, action |-> report.action]

MessageLinesAfter(r, messages) ==
  LET after[k \in 0..Len(messages)] ==
        IF k = 0 THEN <<>>
        ELSE Append(after[k-1], LevelLine("UCM", messages[k])) \o SegmentReports(r, messages[k].index)
  IN  after

MessageLines(r, messages) == MessageLinesAfter(r, messages)[Len(messages)]

GroupLinesAfter(r) ==
  LET after[k \in 0..Len(r.groups)] ==
        IF k = 0 THEN <<>>
        ELSE Append(after[k-1], LevelLine("UCF", r.groups[k])) \o MessageLines(r, r.groups[k].messages)
  IN  after

(* segments *)
Lines(r) ==
  <<[tag |-> "UCI", of |-> 0, code |-> r.error.code, action |-> r.action]>>
    \o MessageLines(r, r.messages) \o GroupLinesAfter(r)[Len(r.groups)]

-----------------------------------------------------------------------------
GroupAround(m) == shape.messages[m].group

(* What findings are about: the interchange, a group's trailer, a message's *)
(* header, a body segment or an element of one of two of them.             *)
Targets ==
  {[InterchangeTarget(TRUE) EXCEPT !.tag = tag] : tag \in {"UNB", NoTag}}
    \cup {Target("UNE", NoOrdinal, NoOrdinal, g, NoElement, TRUE) : g \in DOMAIN shape.groups}
    \cup UNION {
      {Target("UNH", m, 1, GroupAround(m), NoElement, TRUE),
       Target("BGM", m, 2, GroupAround(m), NoElement, TRUE),
       Target("BGM", m, 2, GroupAround(m), 3, TRUE),
       Target("DTM", m, 3, GroupAround(m), 2, TRUE)} : m \in DOMAIN shape.messages}

(* The stand-in of OnInterchange states no code in a reply to a report.    *)
StatesCode(l, kind) ==
  options.recovered \/ l.level # Interchange \/ l.error # "18" \/ ForError(kind) = "18"

Raisable ==
  {[location |-> Place(t, ForError(kind), StableCodes[kind]),
    rejects |-> rejects,
    states |-> StatesCode(Place(t, ForError(kind), StableCodes[kind]), kind)] :
     t \in Targets, kind \in Faults, rejects \in BOOLEAN}

(* Only a recovered interchange has messages or groups without a name, and *)
(* only it may be incomplete.                                              *)
Unnamed(s) ==
  \/ \E m \in DOMAIN s.messages : ~NamesMessage(s, m)
  \/ \E g \in DOMAIN s.groups : ~s.groups[g]

ContrlInit ==
  /\ shape \in Shapes
  /\ options \in [recovered : BOOLEAN, forced : BOOLEAN, interchange : BOOLEAN, warnings : BOOLEAN]
  /\ options.forced \/ Unnamed(shape) => options.recovered
  /\ raised = <<>>
  /\ reply = NoReply

Raise ==
  /\ reply = NoReply
  /\ Len(raised) < MaxFindings
  /\ \E f \in Raisable :
       /\ options.recovered => f.rejects
       /\ f.rejects => \A k \in DOMAIN raised : raised[k].rejects
       /\ raised' = Append(raised, f)
  /\ UNCHANGED <<shape, options, reply>>

Assemble ==
  /\ reply = NoReply
  /\ reply' = Assembled
  /\ UNCHANGED <<shape, options, raised>>

ContrlNext == Raise \/ Assemble

ContrlSpec == ContrlInit /\ [][ContrlNext]_contrlVars

-----------------------------------------------------------------------------
Done == reply # NoReply

(* The message is rejected by the reply: itself, its group or the whole.   *)
RejectedByReply(m) ==
  \/ reply.action = Rejected
  \/ \E r \in Range(reply.messages) : r.index = m /\ r.action = Rejected
  \/ \E g \in Range(reply.groups) :
       \/ g.index = GroupAround(m) /\ g.action = Rejected
       \/ \E r \in Range(g.messages) : r.index = m /\ r.action = Rejected

(* The message is rejected by what was found about it or around it.        *)
RejectedByFindings(m) ==
  \/ options.forced
  \/ \E f \in Range(raised) :
       /\ f.rejects
       /\ \/ options.interchange
          \/ f.location.level = Interchange
          \/ ~Nameable(shape, f)
          \/ f.location.level = Group /\ f.location.group = GroupAround(m)
          \/ MessageIndex(f) = m

(***************************************************************************)
(* The receiver of the reply rejects a message exactly when a rejecting    *)
(* finding is about it, about its group or the interchange, or about       *)
(* something the reply has no name for ("Where a rejection lands",         *)
(* Contrl::from_report): none is lost between the levels, none is invented.*)
(***************************************************************************)
VerdictsAreTheFindings ==
  Done => \A m \in DOMAIN shape.messages : RejectedByReply(m) <=> RejectedByFindings(m)

(***************************************************************************)
(* Under a rejected level nothing is acknowledged, and a level rejected    *)
(* only for what is under it has no code of its own.                       *)
(***************************************************************************)
NothingUnderARejection ==
  LET allRejected(reports) == \A r \in Range(reports) : r.action = Rejected
  IN  Done =>
        /\ reply.action = Rejected => allRejected(reply.messages) /\ allRejected(reply.groups)
        /\ reply.action = Rejected /\ reply.messages \o reply.groups # <<>> => reply.error = NoError
        /\ \A g \in Range(reply.groups) : g.action = Rejected =>
             /\ allRejected(g.messages)
             /\ g.messages # <<>> => g.error = NoError

(***************************************************************************)
(* Between a UCM and the next, every segment position is opened by one UCS *)
(* and no other, and the UCD of an element comes after the UCS of its      *)
(* segment, if not always under it (see UcdsFollowTheirUcs).               *)
(***************************************************************************)
SegmentsAreReportedOnce ==
  Done => \A m \in DOMAIN shape.messages :
    LET lines == SegmentReports(reply, m)
        found == {f \in Range(reply.findings) : MessageIndex(f) = m /\ f.location.segment # NoOrdinal}
        opening == {i \in DOMAIN lines : lines[i].tag = "UCS"}
    IN  /\ {lines[i].of : i \in opening} = {f.location.segment : f \in found}
        /\ \A i, j \in opening : lines[i].of = lines[j].of => i = j
        /\ \A f \in found : f.location.level = DataElement =>
             \E i \in opening, j \in DOMAIN lines :
               /\ i < j
               /\ lines[i].of = f.location.segment
               /\ lines[j] = Line("UCD", f.location.element, f.location.error)

(***************************************************************************)
(* "A second finding on the same segment extends it with a UCD rather than *)
(* opening a second UCS for it" (segment_reports): the UCD of an element   *)
(* is under the UCS of its own segment, no other UCS between them.         *)
(***************************************************************************)
UcdsFollowTheirUcs ==
  Done => \A m \in DOMAIN shape.messages : \A f \in Range(reply.findings) :
    MessageIndex(f) = m /\ f.location.level = DataElement =>
      LET lines == SegmentReports(reply, m)
      IN  \E i \in DOMAIN lines : \E j \in i+1..Len(lines) :
            /\ lines[i].tag = "UCS" /\ lines[i].of = f.location.segment
            /\ lines[j] = Line("UCD", f.location.element, f.location.error)
            /\ \A k \in i+1..j : lines[k].tag = "UCD"

(***************************************************************************)
(* A code is never written at a level that Annex A forbids for it, nor at  *)
(* a level about which no finding has that code: each line of the reply    *)
(* with a code is the place of a finding with that code; and findings on   *)
(* one segment share one report.                                           *)
(***************************************************************************)
CodesAreWhereTheyBelong ==
  /\ SegmentsAreReportedOnce
  /\ Done => \A line \in Range(Lines(reply)) : line.code # NoError.code =>
       /\ Permitted(line.code, line.tag)
       /\ \E f \in Range(raised) :
            /\ f.location.level = line.tag
            /\ f.location.error = line.code
            /\ line.tag = "UCM" => f.location.message = line.of
            /\ line.tag = "UCF" => f.location.group = line.of
            /\ line.tag = "UCS" => f.location.segment = line.of
            /\ line.tag = "UCD" => f.location.element = line.of
=============================================================================
