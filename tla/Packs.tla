-------------------------------- MODULE Packs --------------------------------
(***************************************************************************)
(* Profile rule packs (validator/pack.rs): rules over the segments of a    *)
(* message, rules over the instances of its segment groups, and the ways   *)
(* packs are combined.                                                     *)
(*                                                                         *)
(* A rule is [id, does, tag, value, times, severity, scope]: the built-in  *)
(* helpers (require, forbid, qualifier), and closures, which report every  *)
(* segment of a tag as often as `times` says.                              *)
(*                                                                         *)
(* A group instance is [definition, occurrence, first, last, children].    *)
(***************************************************************************)
EXTENDS Directory, Report

CONSTANTS
  NoLimit,     \* no cap on the issues of a rule
  AnyRelease   \* a pack that is bound to no release

Rule(id, does, tag, severity) ==
  [id |-> id, does |-> does, tag |-> tag, value |-> <<>>, times |-> 1, severity |-> severity,
   scope |-> NoValue]
Scoped(rule, definition) == [rule EXCEPT !.scope = definition]

Pack(name, rules, groupRules) ==
  [name |-> name, types |-> <<>>, release |-> AnyRelease, rules |-> rules,
   groupRules |-> groupRules, bail |-> FALSE, limit |-> NoLimit]

ForMessageType(pack, type) ==
  IF type \in Range(pack.types) THEN pack ELSE [pack EXCEPT !.types = Append(@, type)]
ForRelease(pack, release) == [pack EXCEPT !.release = release]
Bailing(pack) == [pack EXCEPT !.bail = TRUE]
Capped(pack, limit) == [pack EXCEPT !.limit = limit]

-----------------------------------------------------------------------------
(* Fault: a position is counted from the first segment, whatever it is. *)
CountedPosition(segs, i) == i

MessagePosition(segs, i) == IF segs[1].tag = "UNH" THEN i ELSE 0

(* located: the occurrence among the segments of the tag, the position.    *)
Located(issue, segs, i) ==
  [issue EXCEPT !.occurrence = Cardinality({j \in 1..i : segs[j].tag = segs[i].tag}),
                !.position = MessagePosition(segs, i)]

Tagged(segs, tag) == SetToSortSeq({i \in DOMAIN segs : segs[i].tag = tag}, <)

(* What a rule reports of the segments it is shown. *)
Required(rule, segs) ==
  IF Tagged(segs, rule.tag) # <<>> THEN <<>>
  ELSE <<[NewIssue("error", "missing") EXCEPT
            !.tag = rule.tag, !.kind = "missing", !.rule = rule.id]>>

Forbidden(rule, segs) ==
  [k \in DOMAIN Tagged(segs, rule.tag) |->
     LET i == Tagged(segs, rule.tag)[k]
     IN  Located([NewIssue("error", "forbidden") EXCEPT
                    !.at = segs[i].index, !.tag = rule.tag, !.kind = "not permitted",
                    !.rule = rule.id], segs, i)]

Qualified(rule, segs) ==
  LET First(i) == ValueAt(segs[i], [element |-> 1, component |-> 1])
      wrong == SelectSeq(Tagged(segs, rule.tag), LAMBDA i : First(i) # rule.value)
  IN  [k \in DOMAIN wrong |->
         Located([NewIssue("error", "qualifier") EXCEPT
                    !.tag = rule.tag, !.element = 1, !.component = 1, !.kind = "code",
                    !.rule = rule.id], segs, wrong[k])]

Noted(rule, segs) ==
  FlattenSeq([k \in DOMAIN Tagged(segs, rule.tag) |->
    [n \in 1..rule.times |->
       [NewIssue(rule.severity, "noted") EXCEPT
          !.at = segs[Tagged(segs, rule.tag)[k]].index, !.tag = rule.tag, !.rule = rule.id]]])

Evaluate(rule, segs) ==
  CASE rule.does = "require" -> Required(rule, segs)
    [] rule.does = "forbid" -> Forbidden(rule, segs)
    [] rule.does = "qualifier" -> Qualified(rule, segs)
    [] rule.does = "note" -> Noted(rule, segs)

(* scope_admits, given the message type the context has found, if any.     *)
ScopeAdmits(pack, segs, type) ==
  LET unh == FirstWithTag(segs, "UNH")
      stated == IF type # NoType THEN type ELSE UnhType(segs)
  IN  /\ pack.types # <<>> => stated # NoType /\ stated \in Range(pack.types)
      /\ pack.release # AnyRelease => unh # 0 /\ segs[unh].release = pack.release

Stamped(pack, issue) == IF issue.pack = NoValue THEN [issue EXCEPT !.pack = pack.name] ELSE issue

Truncated(limit, issues) ==
  IF limit = NoLimit THEN issues ELSE SubSeq(issues, 1, Min({limit, Len(issues)}))

HasError(issues) == \E i \in DOMAIN issues : issues[i].severity \in {"critical", "error"}

(* ProfileRulePack::validate_batch: the issues, until a bailing pack has   *)
(* an error.                                                               *)
FlatIssues(pack, segs, type) ==
  LET One(issues, rule) ==
        IF pack.bail /\ HasError(issues) THEN issues
        ELSE issues \o Truncated(pack.limit, Evaluate(rule, segs))
      found == IF ScopeAdmits(pack, segs, type) THEN FoldLeft(One, <<>>, pack.rules) ELSE <<>>
  IN  [i \in DOMAIN found |-> Stamped(pack, found[i])]

-----------------------------------------------------------------------------
(* walk_group_tree: w is [issues, spent], spent for each rule what it has  *)
(* reported in the walk.                                                   *)
Started(pack) == [issues |-> <<>>, spent |-> [r \in DOMAIN pack.groupRules |-> 0]]

Stops(pack, w) == pack.bail /\ HasError(w.issues)

StampedInGroup(pack, node, path, issue) ==
  Stamped(pack, [issue EXCEPT !.path = IF @ = <<>> THEN path ELSE @,
                              !.group = IF @ = NoValue THEN node.definition ELSE @])

Applies(pack, node, w, r) ==
  /\ pack.groupRules[r].scope \in {NoValue, node.definition}
  /\ pack.limit = NoLimit \/ w.spent[r] < pack.limit

(* Fault: every group instance has a budget of its own. *)
RunGroupRuleAnew(pack, node, path, segs, w, r) ==
  LET found == Truncated(pack.limit,
                         Evaluate(pack.groupRules[r], SubSeq(segs, node.first, node.last)))
  IN  IF Stops(pack, w) \/ ~Applies(pack, node, w, r) THEN w
      ELSE [w EXCEPT !.issues = @ \o [i \in DOMAIN found |->
                                         StampedInGroup(pack, node, path, found[i])]]

RunGroupRule(pack, node, path, segs, w, r) ==
  LET left == IF pack.limit = NoLimit THEN NoLimit ELSE pack.limit - w.spent[r]
      found == Truncated(left, Evaluate(pack.groupRules[r], SubSeq(segs, node.first, node.last)))
  IN  IF Stops(pack, w) \/ ~Applies(pack, node, w, r) THEN w
      ELSE [issues |-> w.issues \o [i \in DOMAIN found |->
                                      StampedInGroup(pack, node, path, found[i])],
            spent |-> [w.spent EXCEPT ![r] = @ + Len(found)]]

RECURSIVE WalkGroupTree(_, _, _, _, _)
WalkGroupTree(pack, node, path, segs, w) ==
  LET own == FoldLeft(LAMBDA v, r : RunGroupRule(pack, node, path, segs, v, r), w,
                      [r \in DOMAIN pack.groupRules |-> r])
      Child(v, c) ==
        IF Stops(pack, v) THEN v
        ELSE WalkGroupTree(pack, c, Append(path, <<c.definition, c.occurrence>>), segs, v)
  IN  FoldLeft(Child, own, node.children)

(* ProfileRulePack::validate_group_batch *)
GroupIssues(pack, root, segs, type) ==
  IF ScopeAdmits(pack, segs, type) THEN WalkGroupTree(pack, root, <<>>, segs, Started(pack)).issues
  ELSE <<>>

-----------------------------------------------------------------------------
(* merge_release_scopes; two packs bound to different releases are refused *)
CompatibleReleases(pack, other) ==
  AnyRelease \in {pack.release, other.release} \/ pack.release = other.release

MergedRelease(pack, other) == IF pack.release = AnyRelease THEN other.release ELSE pack.release

MergedTypes(pack, other) ==
  pack.types \o SelectSeq(other.types, LAMBDA type : type \notin Range(pack.types))

(* extend_from *)
ExtendFrom(pack, base) ==
  [pack EXCEPT !.rules = base.rules \o @, !.groupRules = base.groupRules \o @,
               !.types = MergedTypes(pack, base), !.release = MergedRelease(pack, base)]

(* Rules without an id are never overridden. *)
Overrides(rules, theirs, i) ==
  {j \in DOMAIN theirs : theirs[j].id = rules[i].id /\ rules[i].id # NoValue}

Overridden(rules, theirs) ==
  LET Latest(i) == ~\E k \in DOMAIN rules : k > i /\ rules[k].id = rules[i].id
      replaced == [i \in DOMAIN rules |->
                     IF Overrides(rules, theirs, i) # {} /\ Latest(i)
                     THEN theirs[Max(Overrides(rules, theirs, i))] ELSE rules[i]]
      added == SelectSeq(theirs, LAMBDA rule :
                 rule.id = NoValue \/ \A i \in DOMAIN rules : rules[i].id # rule.id)
  IN  replaced \o added

(* merge_with_override *)
MergeWithOverride(pack, other) ==
  [pack EXCEPT !.rules = Overridden(@, other.rules),
               !.groupRules = Overridden(@, other.groupRules),
               !.types = MergedTypes(pack, other), !.release = MergedRelease(pack, other)]
=============================================================================
