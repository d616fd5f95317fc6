# A TLA+ model of edifact-rs

This directory holds TLA+ specifications of
[edifact-rs](../src/README.md), TLC configurations that check them on small
instances, and TLAPS proofs that hold for every value of their constants.
File names without a directory are those of `src/crates/edifact-rs/src/`.

The modules model the code at the level of its control: every state change,
guard, early return and error, in the order in which they happen. Data is
abstracted to what the properties tell apart: for the iterators a byte is the
class it belongs to; for the layers above them a segment is a tag with its
reference and count; for the directory and the typed layer a value is a short
sequence of characters.

1. [The system](#1-the-system)
2. [The modules](#2-the-modules)
3. [How state and actions correspond to the code](#3-how-state-and-actions-correspond-to-the-code)
4. [What the runs check](#4-what-the-runs-check)
5. [Where code and documentation disagree](#5-where-code-and-documentation-disagree)
6. [What is proved](#6-what-is-proved)
7. [What is not modelled](#7-what-is-not-modelled)
8. [Plan](#8-plan)

## 1. The system

edifact-rs parses, writes, validates and acknowledges UN/EDIFACT interchanges,
and reads and writes Rust types as segments. Nothing in it runs concurrently.
What makes it hard is that

* the **same input is read by several paths** (a slice in memory, a buffer with a
  whole segment in it, a reader byte by byte, and a scan that recovers from
  faults), which are documented to agree;
* a **reader cuts the input anywhere**, so a segment, a release sequence, a UNA,
  a byte order mark or a character of the repertoire may be split at any byte;
* **limits** are enforced in several places, each with its own unit and order, and
  an input may exceed more than one;
* **iterators** keep state between calls, next to the state of the iterator they
  pull from;
* a **sink may fail** at any write, and values are written on the way out of a
  scope (`Drop`);
* the **same structure is found by several walks** (the envelope validator, the
  recovered windows, the CONTRL boundaries), which hand findings to one another
  by index;
* **decisions are not taken back**: the group resolver places a segment without
  looking ahead, the delimiters are settled by the first UNB;
* **what is written must be readable**, by two parsers, whatever characters the
  values have and however the writer was set up.

| Component | State | Operations | Interacts with | What makes it correct |
|---|---|---|---|---|
| Budgets (`parser.rs` `Budget`) | segments, messages, whether in a message, its size | `admit_bytes`, `sees_byte`, `admit_segment`, `account` | owned by each segment iterator and by the recovering scan | no limit passed; the same refusal on every path |
| Slice path (`lib.rs` `FromBytesIter`) | parser position, budget, end of last segment | `next`, `over_budget` | `Parser`, `Tokenizer`, `Budget` | agrees with the reader path; names the limit the whole input would have met first |
| Reader path (`parser.rs` `OwnedSegmentStream`) | stream state, offset, delimiters, budget | `next`: fast path in the buffer, slow path byte by byte | any `BufRead`, `Parser`, `Budget` | the input's segments under every chunking; the error of the slice path, at a place that can be found; bounded memory; ends |
| Tokenizer, parser (`tokenizer.rs`, `parser.rs`) | position, pending token, delimiters | `next`, `read_tag`, `read_value`, `sniff_syntax_version` | all paths, scan | first fault of a segment, size guard before reading on; released characters are text |
| Message windows (`de.rs` `MessageWindows`) | buffered segments, in-message flag, done flag | `next` | pulls from a segment iterator that has its own budget | windows are the whole messages; a cut stream never ends cleanly |
| Recovering scan (`recover.rs`) | parser, pending faults, item and fault counts, budget | `next`, `fault_at`, `emit_fault`; windows and locations over the result | `Parser`, `Budget`, CONTRL | strict segments kept, faults in order, items tile the input |
| Writer (`writer.rs` `Writer`, `MessageWriter`) | sink, segment count, message start, guard, advice | `write_*`, `begin_message`, `finish`, `finish_unt`, `Drop`, `begin_interchange`, `end_interchange` | a `Write` that can fail | true counts; damage reported; what is written is read |
| Emitter (`event.rs` `WriterEmitter`) | protocol state, writer | `emit` of five events | `Writer` | only whole segments get through |
| Envelope validation (`envelope.rs`) | open message, open group, references seen, errors | `validate_envelope`, `..._lenient` | a slice of segments, the validation pipeline, CONTRL | accepts the correct interchanges and no other |
| Segment groups (`group.rs`) | stack of open groups, counts, placements | `resolve`, `group_segments_indexed` | schema, packs | a tree that partitions the message; findings exactly where it does not conform |
| Repertoires (`charset.rs` `DecodingReader`) | source buffer, spilled bytes | `read`, `sniff_charset`, `decode_reader` | any `Read` | the decoded stream, whatever the buffer sizes |
| Validation (`validator/`, `report.rs`) | validators, issues, limits | `validate_with_context`, builder, merge and extension of packs | segments, group tree, directory, envelope | layers see what they should; caps, bail-outs and overrides hold |
| Directory validator (`directory_validator.rs`) | definitions, code lists, required segments | `validate_batch`, `audit_against_corpus` | validation, derives (addresses by code) | audit, checks and addresses agree |
| CONTRL (`contrl.rs`, `contrl/location.rs`) | findings | build a report, locate an error | recovering scan, validation report | an error lands where it is; verdicts are the findings |
| Typed layer (`ser.rs`, `de.rs`, `edifact-rs-derive`) | none | serialize, deserialize, match a qualifier | writer, parsers, directory | what is written is read back |
| Errors (`error.rs`) | none | stable code, severity, offset | all | an error is located by what it says of itself |

PROJECT.json lists the components with their status, and under `hazards` what
is hard to test in this code, at its line, with the properties that cover it.

## 2. The modules

| Module | Models | Builds on |
|---|---|---|
| `Budget` | `Budget`: counters and limits as operators on a record | |
| `MessageWindows` | `MessageWindows::next` over an inner iterator that enforces `Budget` | `Budget` |
| `MessageWindowsProofs` | theorems | `MessageWindows` |
| `Syntax` | byte classes, release characters, one segment read by `Parser` over `Tokenizer` | |
| `Prologue` | byte order mark, whitespace and UNA of an input in memory | `Syntax`, `Budget` |
| `SegmentStream` | `OwnedSegmentStream` over a `BufRead` | `Syntax`, `Budget` |
| `SyntaxLemmas` | lemmas about the operators of `Syntax`: escapes, terminators, what a parsed segment is, what a prefix of the input parses to | `Syntax` |
| `FromBytes` | `FromBytesIter` over an input in memory, call by call | `Prologue` |
| `SegmentPaths` | both paths on one input, and on which inputs they agree | `SegmentStream`, `FromBytes` |
| `SegmentStreamProofs` | theorems about the reader path, and that it agrees with the slice path | `SegmentPaths`, `SyntaxLemmas` |
| `RecoveringScan` | the scan, one item per call, and what it promises by itself | `Prologue` |
| `RecoveryPaths` | the scan compared with the strict parser | `RecoveringScan`, `FromBytes` |
| `RecoveryProofs` | theorems about both | `RecoveryPaths`, `SyntaxLemmas` |
| `RecoveredWindows` | message and group windows of `RecoveredInterchange` | |
| `SyntaxErrors` | codes, levels, anchors of errors (`error.rs`, `contrl.rs`, `contrl/location.rs`) | |
| `ContrlLocation` | where an error is, on the two ways to find out | `RecoveredWindows`, `SyntaxErrors` |
| `Envelope` | `validate_envelope` and its lenient form | |
| `Interchange` | an interchange that grows segment by segment, and what the walks say of it | `Envelope`, `ContrlLocation` |
| `Contrl` | a reply assembled from findings | `ContrlLocation` |
| `InterchangeProofs` | theorems about the walks and about the reply | `Interchange`, `Contrl` |
| `SegmentGroups` | the group resolver, and that its tree is a partition | |
| `SegmentGroupsProofs` | theorems | `SegmentGroups` |
| `Conformance` | the language of an ordered schema, and what findings say of it | `SegmentGroups` |
| `Decoding` | `decode_reader`, `DecodingReader`, `sniff_charset` | |
| `DecodingProofs` | theorems | `Decoding` |
| `Sink` | the pieces a writer leaves in its sink | |
| `Writer` | `Writer` with `MessageWriter` | `Sink` |
| `Emitter` | `WriterEmitter` | `Sink` |
| `SinkProofs` | theorems about both | `Writer`, `Emitter` |
| `Layout` | segment definitions, representations, addresses of data elements, audits | |
| `Directory` | the directory validator | `Layout` |
| `Report` | issues and reports, an error as an issue | `SyntaxErrors` |
| `Packs` | profile rule packs and the ways to combine them | `Directory`, `Report` |
| `Validation` | the pipeline: the context, its builder, the flat pass and the group pass | `Packs`, `Envelope` |
| `Typed` | what the derives accept, and what their code writes and reads | `Layout` |
| `Wire` | segments as bytes: writer, tokenizer and parser | |
| `TypedMessages` | typed message, writer, bytes, parser, typed message | `Typed`, `Wire` |

`MC...` modules define the sets of values that a configuration gives to TLC. The
other configurations need none.

Composition: `SegmentPaths` instantiates `FromBytes`, which says what an input
holds, next to the machine that reads it piece by piece, and `RecoveryPaths` extends
it next to the scan; `MCSink` runs a writer or an emitter; `Interchange` runs envelope validation, recovered windows and
CONTRL location over one sequence of segments; `Validation` runs the envelope,
directory and pack validators over one batch; `TypedMessages` chains derived code,
writer, parser and derived code.

Operators marked "fault" in a comment stand for bugs the code does not have.
Nothing refers to them; each is a variant of the definition below it for which
a property fails, named in PROJECT.json under `mutants`.

## 3. How state and actions correspond to the code

**MessageWindows.** One step is one turn of the loop in `next`: the inner iterator
hands out a segment it has admitted and counted (`Pull`), refuses one (`InnerRefuses`),
fails (`InnerFails`) or ends (`EndOfInput`), and the adapter does with it what the match
arms say. Tags come in any order, so every misplaced UNH and UNT occurs. `handed`
and `windows` record what went in and out; the other variables are the adapter's
fields and the inner iterator's `Budget`.

**SegmentStream.** The `BufRead` is `input`, `consumed` and `avail`: `FillBuf` makes
any number of bytes available, at least one, and `FillFails` is an I/O error at any
`fill_buf`. `next()` is cut into the steps between which the buffer can change:
`phase` says where it stands. At `"top"` the fast path decides on the unit in the
buffer (`FastSegment`, `FastSkip`, `FastParseError`, `FastTooLong`,
`FastOverBudget`) or hands over to the slow path (`NeedMore`), which reads one byte at a
time: `"lead"` is `read_next_non_ws_byte`, `"una"` the UNA lookahead, `"body"`
`read_remainder_of_segment`. `raw` is the `RawSegment` it holds. `HandOut` and
`Fail` are the code's `hand_out` and `fail`. What a segment holds is decided by
`ParseSegment` of `Syntax`, for both paths: the order of the tag check, the size
guard, release characters and the text check is the tokenizer's.

**FromBytes and SegmentPaths.** The slice iterator is deterministic, so `FromBytes`
defines it as a record and what a call makes of it: `Opened` is
`from_bytes_with_config`, with the input truncated at the byte budget, `Called` is `next`, and
`OverBudget` is `over_budget`, which reconstructs the error the whole input would have met.
`AfterCall` is the iterator after each call; a segment takes a byte at least, so `n` bytes
exhaust it in `n + 1` calls, and `Yields` is what it has yielded by then.
`SegmentPaths` compares on inputs that are `Regular` and, for the offset of a
limit error, in which no unit has two faults (`OneFault`). Each condition is there
because the paths differ without it (section 5). `ErrorsAreLocated` compares the error of either
path, with the offset of a parser's error counted from the unit the parser was given: on the fast
path that is the unit with the blanks before it, on the slow path the unit without them.

**RecoveringScan.** One step is one `next()`, which yields one item. The parser
hands out a segment (`YieldSegment`), ends (`ReachEnd`) or refuses (`FaultAt`): the
fault is located to its terminator, and the scan resumes behind it or ends. `pending` holds
faults that wait for a call of their own (`YieldPending`): the one of a bad UNA and the one that
reports a limit. Items are spans of the input.

**RecoveredWindows, Envelope, ContrlLocation.** Pure functions of the code; a loop
is a recursive function from the number of turns to the state of its variables. `Interchange` has the state: the segments read so far. An
action reads one more, right or with a slip: a segment that is not due, a reference that
is missing or repeated, a count that is wrong, missing or no number, a syntax identifier that is unknown or
not supported (envelope.rs:890). What
is checked is checked after every segment, so interchanges that are cut off count.

**Contrl.** Findings are raised one by one, errors before warnings as a report
iterates them (`ContrlInit`, `ContrlNext`); `Assemble` is `assemble`. `Lines` is the reply as its segments.
The four options are `of_recovered` or `of_report`, a forced rejection, rejection of the whole interchange, and
whether warnings are reported.

**SegmentGroups.** `Place` takes one segment: it looks for a candidate in the innermost
open group that has one, closes the groups above it, opens or repeats a group, or leaves
the segment unplaced. `nodes` are the instances with their spans, counts and
children, `stack` the open ones. A schema is a sequence of definitions, each ordered or open.
`Conformance` adds no state: it compares the resolver's findings with what a parser that tries
every way would accept.

**Decoding.** `Probe` and `EndProbe` are `decode_reader`'s loop before the first call;
`Call` is the caller's `read`, with a buffer of any size; the steps of `Read` are the turns of
its loop, each with every way the source's `read` may end, `Interrupted` included. A character that
does not fit the buffer goes to `spill`.

**Writer, Emitter.** A step is one call. The sink holds pieces: a tag, a data
element, a further part of one, a terminator. A call whose write fails leaves the pieces already
written, and the caller may go on. `FinishMessageFails` has the two writes of the UNT
that a failed `finish` makes: its own, and the one of the guard it drops.
What the bytes are is left to `Wire`.

**Validation.** A context is built by the builder's operators, in the configuration, in the
way programs call them. `RunOnWhole` and `RunOnShown` are one validator's turn in the
flat pass, over all segments or over those without the envelope; `EndFlat` stamps the
message reference and adds the static issues; `RunOnGroups` is a turn in the group
pass. What validators find is a function of the segments: `SyntaxIssues`, `CharsetIssues`,
`DirectoryIssues`, `FlatIssues`, `GroupIssues`.

**Typed, Wire, TypedMessages.** A type is a struct with its attributes; `Accepted`
is what the derive compiles, `Serialize` and `Deserialize` what its code does.
`TypedMessages` starts from an exchange: a type, a value and how the writer is set up
(advice, UNA, UNB). Members are serialized one after the other, with segments of somebody else
in between (`AddStranger`). The bytes are then opened by `from_bytes` (`OpenSlice`), by a
reader (`OpenReader`) or with a stated advice, and handed out segment by segment;
`settledBy` records who settled the separators, `AdviceAfter` is `adopt_syntax_version`.

## 4. What the runs check

| Run | Distinct states | Shows |
|---|---|---|
| `message_windows` | 13k | the windows are exactly the whole messages, within both limits; a clean end is complete |
| `segments` | 216k | the two paths hand out the same segments and name the same limit; both report the same error at the same place; segments tile the input; memory and bytes are bounded; the iteration ends (liveness) |
| `sink` | 1.3M | a writer's counts are true and damage is reported, whatever fails; the emitter's protocol lets only whole segments through, until a tag is refused or a write fails |
| `recovering_scan` | 63k | the scan is the strict parser up to the first fault; its items tile the input and end at true terminators; limits hold; every call advances |
| `interchange` | 28k | validation accepts exactly the correct interchanges; three walks find the same messages and groups; two ways of locating an error agree and put it where its code may be |
| `contrl` | 1.1M | the reply rejects exactly what the findings reject; every code is at a level that may have it and is that of a finding there |
| `segment_groups` | 98k | spans, placements and counts agree; no findings means derivable from the schema, and, where nothing is ambiguous, the converse |
| `decoding` | 27k | the repertoire is that of the whole stream; what is handed out is the beginning of what `decode_interchange` makes of it, and all of it at a good end; the caller is done at some point (liveness) |
| `validation` | 10k | the envelope is hidden below, positions are true, packs are obeyed, audit and checks agree |
| `typed` | 252k | the parsers get the segments that were written; what the derives accept is read back, however its places are stated; patterns are globs |
| `wildcard_qualifier` | – | violated: a matched segment can be read (section 5) |
| `segment_reports` | – | violated: the codes of a segment follow its own report (section 5) |

**Hazards first.** The properties compare two pieces of state, mostly kept by
different code: windows and stream, tree spans and placements and counts, location on one
way and on the other, what is written and what is read. A guard restated would hold by
construction; PROJECT.json names, for each property, a plausible bug for which TLC
finds it violated.

**Bounds.**

* `message_windows`: nine pulls hold two windows with a message limit of 2 and a size
  limit of 3, a third message that is refused, and segments between them.
* `segments`: an input is up to four bytes of any class, up to four pieces with
  release characters, or up to three out of byte order marks, UNAs and what begins like one.
  `MaxSegments`, `MaxInputBytes` and `MaxSegmentBytes` are such that each is the first to be
  met on some input, and falls inside a segment, inside the prologue and at their ends.
  `TagLen`, `UnaLen` and `BomLen` are 3, 9 and 3 in the code; here 1, 5 and 2, which can still be
  split and cut. `MaxSegmentBytes` is at least 2: with 0 or 1 the prefix `UN` at the end of the
  input is UnexpectedEof on the reader path and SegmentTooLong on the slice path, as
  the lookahead reads its bytes before it checks the size. The default is 64 KiB.
* `recovering_scan`: four fragments hold two messages, a fault between
  two segments and more of everything than its limit allows.
* `sink`: ten pieces of a writer hold two messages, or one with a segment
  cut short and a UNT written twice; seven of an emitter hold two segments.
* `interchange`: twelve segments hold two groups, the one with one message, the other
  with an error in it, or three messages; one slip is every error by itself at every
  place. Errors of every kind are located in the interchanges of up to eight.
* `contrl`: two messages and two groups are the least for which one verdict
  can be wrong about another; three findings can meet on one segment, on one message and above it.
* `segment_groups`: five schemas of up to four definitions, one for each thing that is hard: a trigger
  shared by levels, a member shared by groups, two groups of one name, one place per segment,
  groups that may be empty; all messages of up to six segments, which open, repeat and overflow each.
* `decoding`: a probe of four and a buffer of two units, read calls of one to three: each
  falls inside a UNA, before an identifier and inside a character.
* `validation`: ten contexts put each interplay of validators at stake, over messages that stand alone,
  in an interchange, in a group, cut short and twice in a row.
* `typed`: every attribute of the derives, alone and in messages of four members, with one stranger;
  values of one or two characters out of all service characters, through seven ways to set a
  writer up; patterns of up to four characters against words of up to three.

**Fairness.** Two runs assume any. `segments` uses `FairWholeMarkSpec`: weak fairness
of the next-state relation of `SegmentStream`. A step is part of one call of `next()`,
which the code runs to its end, or a `fill_buf`, which returns: fairness says no
more than that the caller goes on calling until the iterator is done and that
`fill_buf` does not block for ever. (Its byte order mark arrives whole: see
section 5.) `decoding` is the same of a caller who reads to the end; reads of the
source that fail with `Interrupted` are bounded by `MaxInterrupts`.

**Stopping.** `CHECK_DEADLOCK FALSE` is set where iterators, messages and
calls end: each configuration says which.

## 5. Where code and documentation disagree

TLC finds two runs violated. In `wildcard_qualifier`, a type whose qualifier is a
pattern, `#[edifact(segment = "NAD", qualifier = "M*")]` (site/content/docs/typed-derive.md:81),
matches the segments it is documented to match, but cannot be read from one: the
generated code looks its segment up with the pattern as if it were a value
(edifact-rs-derive/src/lib.rs:1848).

In `segment_reports`, the UCS and UCD lines of a message are written in the order of the
findings, and what is remembered is only which segments have a UCS (contrl.rs:1782). A
finding on an element of segment 2 that comes after one on segment 3 puts its UCD
after the UCS of segment 3, whose element it then names; a comment
(contrl.rs:1779) has a second finding on a segment extend that segment's UCS.

The following were met as well. They have no run of their own; where a property
would fail for them, its precondition excludes them, and says so.

Reading:

* The fast path skips an empty segment (parser.rs:951), the slice path refuses it;
  tests/bolero_harness.rs:578 has the paths "agree **completely**" (line 642 knows of this one).
* The fast path measures leading whitespace as part of the segment (parser.rs:920); parser.rs:357
  promises "the same limit error at the same offset".
* A byte order mark split over two buffers is not recognised (parser.rs:1021, the comment at 1016).
* A parse error of the reader path has an offset relative to the unit that was parsed, on the fast path
  from the blanks that lead it and on the slow path from its first byte (parser.rs:966, 1081;
  error.rs:77 has "a single byte position in the input stream"). A caller cannot tell which.
  `ErrorsAreLocated` is about the offset with that base added.
* The reader path does not parse a last unit that no terminator ends, and reports the end of the input
  where the slice path reports a fault of that unit. `ErrorsAreLocated` says so (`UnparsedFault`).
* An oversized segment with a bad tag is refused for its size by the fast path and for its tag
  by the slice path (hence `OneFault`). Input that ends within a UNA is refused
  by the reader (parser.rs:1228) and read as a segment by the slice path (hence `CutUna`).
* A UNB whose own elements hold an unreleased `*` under syntax version 4 is split on the
  slice path (which looks ahead for the version) and not on the reader path (which adopts
  it after handing the UNB out, parser.rs:806; lib.rs:90 "applies identically").
* `sniff_syntax_version` ignores release characters, and only looks at a UNB at the very start.
* An undefined byte or an inner error in `DecodingReader::read` loses what the same call had
  already written to the caller's buffer (charset.rs:456); `Interrupted` from the source does so too, and
  the caller's retry goes on behind the loss (charset.rs:481). Hence `DecodesUnlessInterrupted`.
  `decode_reader`'s own probe propagates `Interrupted`.
* Under UNOA, UNOB and UNOY `decode_interchange` refuses bytes that are not UTF-8 (charset.rs:318), but the
  reader hands them out as they are (charset.rs:497). Hence `PassedOn`, in `Decoding`.
* `sniff_charset` does not see through a byte order mark, or whitespace before a UNA (charset.rs:541).

Writing:

* After a failed `finish` the UNT, or what can be written of it, is written twice (writer.rs:1043;
  line 976 has `finished` prevent "a double-write").
* After a refused tag the emitter accepts elements (event.rs:263), where "everything the
  writer emits reparses" (writer.rs:207).
* `Writer::new` and `begin_interchange` with version "4" leave `*` as it is, which both
  readers then split on. Hence `Understood`, in `TypedMessages`.
* A first segment tagged UNA is written, and reads back as a service string advice (writer.rs:294).
* `message_start_count` leaves the UNH out (writer.rs:455), where a comment (writer.rs:668) has it
  counted: the number written is right, the comment is not.

Validation and reply:

* Group issues are not stamped with the message reference (validator/context.rs:129; 364–391 and 519–530);
  static issues are not stamped either.
* The second message of a batch has positions counted from the first UNH (validator/mod.rs:242;
  report.rs:620). Hence the precondition of `PositionsAreTrue`.
* After a critical issue in the flat pass the group pass still runs, up to the end of its first validator
  (validator/context.rs:394–421), where "every validator after it — in any layer — is skipped" (163–168).
* A forked context "inherits all rules" (validator/context.rs:557), but not those of a directory
  validator, which does not fork; the fork's report says so with an issue of its own.
* The directory validator looks at the first repetition only for mandatory components,
  counts and code lists, does not check positions in gaps, misses a
  mandatory component in a composite that is absent, and its component count sums over repetitions (2208).
  The audit is blind to a mandatory composite of conditional components only.
* Leading zeroes are counted in "0E5" (directory_validator.rs:2731–2738).
* Where the syntax version is hidden with the envelope, a value that mixes what two versions
  allow is accepted (directory_validator.rs:259–274).
* `merge_with_override` keeps duplicates that both are in the pack that is overridden.
* A missing trailer count yields a missing-component error and a count mismatch.
  `validate_envelope_lenient` also checks references, which its documentation leaves open.
* A UNE whose count is wrong is located at the interchange on the report's way (contrl.rs:1236), an
  error that names a tag at the first segment of that tag, and a limit error at the interchange though
  its issue has a span.
* `segment_reports` drops the code of a segment-level finding that follows an element-level
  finding at the same position.
* `render_deterministic` compares neither the ends of spans nor suggestions (report.rs:1427–1467), but
  writes both (1519–1526): the lines of issues that differ in these alone come in the order the issues were raised.

Typed layer:

* An unqualified `Option` member whose struct has a qualifier is `MissingSegment`, not `None`,
  when another segment of its tag is there (edifact-rs-derive/src/lib.rs:2102–2116).
* A bare `Option` that is `None` cannot be serialized (ser.rs:67–75).
* An `Option` composite that is `None` is written as an empty element and read
  as `Some` or a missing component (lib.rs:1764–1781; 1866–1880); an empty `Vec` reads back as one empty value.
* A composite field and a component field of the same element are accepted and
  shift each other. A sparse field that repeats is accepted by the derive and does not compile.
* In a pattern with adjacent wildcards prefix and suffix may overlap: `A**A` matches `A` (de.rs:395–397).

Each of the typed layer's is a condition of `Returns`, or a type or pattern left out of `MCTyped`.

## 6. What is proved

The theorems hold for every value of the constants that satisfies the named
assumptions, and for inputs, sinks and messages of any length. PROJECT.json
lists them under `theorems`.

| Theorem | Says | Model-checked in |
|---|---|---|
| `MessageWindowsProofs.LimitsAreKept` | `WithinLimits` | `message_windows` |
| `MessageWindowsProofs.WindowsAreWhole` | `WindowsAreTheMessages` | `message_windows` |
| `MessageWindowsProofs.CleanEndIsSound` | `CleanEndIsComplete` | `message_windows` |
| `SegmentStreamProofs.BudgetIsKept` | `NothingBeyondBudget` | `segments` |
| `SegmentStreamProofs.MemoryIsBounded` | `MemoryBounded` | `segments` |
| `SegmentStreamProofs.SegmentsTile` | `SegmentsTileInput` | `segments` |
| `SegmentStreamProofs.PathsAgree` | `RegularPathsAgree` | `segments` |
| `SinkProofs.CountsStayTrue` | `CountsAreTrue` | `sink` |
| `SinkProofs.DamageIsNeverSilent` | `DamageIsReported` | `sink` |
| `SinkProofs.ProtocolIsKept` | `ProtocolKeepsSegments` | `sink` |
| `RecoveryProofs.RecoveryTilesInput` | `ItemsTileInput` | `recovering_scan` |
| `RecoveryProofs.RecoveryIsBounded` | `ScanBounded` | `recovering_scan` |
| `RecoveryProofs.RecoveryAdvances` | `ScanAdvances`, an action property | `recovering_scan` |
| `RecoveryProofs.RecoveryYieldsTheStrictPrefix` | `StrictPrefix` | `recovering_scan` |
| `InterchangeProofs.DeclaredWindows` | `WindowsAsDeclared` | `interchange` |
| `InterchangeProofs.CorrectIsAccepted` | `AcceptsTheCorrect` | `interchange` |
| `InterchangeProofs.WalksAlwaysAgree` | `WalksAgree` | `interchange` |
| `InterchangeProofs.LocationsAlwaysAgree` | `LocationsAgree` | `interchange` |
| `InterchangeProofs.VerdictsAreAlwaysTheFindings` | `VerdictsAreTheFindings` | `contrl` |
| `InterchangeProofs.RejectionsHideNothing` | `NothingUnderARejection` | `contrl` |
| `InterchangeProofs.CodesAreAlwaysWhereTheyBelong` | `CodesAreWhereTheyBelong` | `contrl` |
| `SegmentGroupsProofs.TreePartitions` | `TreeIsAPartition` | `segment_groups` |
| `DecodingProofs.RepertoireFound` | `RepertoireIsFound` | `decoding` |
| `DecodingProofs.DecodesTheStream` | `DecodesUnlessInterrupted` | `decoding` |

The proofs of `MessageWindows`, `SegmentStream`, `Writer` and `Interchange` also have theorems of
type correctness, and the first one of the parts of `LimitsAreKept`.

**Assumptions.** Limits are naturals or `None`; the tag set contains UNH and UNT
(`MessageWindows`), the tags of a writer's own content are neither (`Writer`); inputs are sequences of
byte classes, lengths are positive. What is assumed of a schema is what the
code's types and builder give (`GoodSchema`): members refer to definitions, bounds are
ordered, an ordered group has a member, and no two members of one
definition hold the same group (`OneEntryEach`; those of two definitions may). The sources of
`Decoding` are sequences of its units, probe and buffers are not empty, and the
probe reaches every UNB (`ProbeAssumption`): the code probes 4 KiB, and an interchange with more whitespace than
that in front of its UNB does not satisfy it. In the shapes `Contrl` starts from, a
message is in a group that is there or in none (`IsShape`); its kinds of error are those of the code.

Three theorems state a condition on the constants, each because TLC finds the property
violated without it. `SegmentsTile` takes `TagLen > 1 \/ Advice \notin {"U", "N"}`: a
tag of one byte and a terminator that is a letter of `UNA` let the lookahead read
past a terminator; in the code tags have three bytes. `RecoveryYieldsTheStrictPrefix` takes
`MaxSegmentBytes >= 2`, as a tag alone has more (the default is 64 KiB), and
`SliceAdvice # "ws"`: the code does not validate an advice the caller states, and with
whitespace for a terminator, what is skipped before a segment would end one. `PathsAgree` takes
`MaxSegmentBytes >= 2` for the same reason, and `Advice \notin {"ws", "rel", "U", "N"}`: with any of
the four as the caller's terminator, the paths differ on some input about what ends a segment.

**`MessageWindowsProofs`.** The size bound is not inductive by itself: adapter and
budget keep separate records of the open message. `MemoryInv` adds
that they agree (`Agreement`: while the iteration runs, both are in a message or
neither is, and the buffer is as long as the budget's count). `CountInv` ties the
windows returned to the budget's message count and reserves one for a
message that is open. From them follow `BufferIsBounded`, `MessagesAreLimited` and, together,
`LimitsAreKept`. `PositionInv` says what the open window is (a UNH and all that
followed it, none of it UNH or UNT), that every earlier UNH has been closed, and that the
windows so far are the messages; from it follow `WindowsAreWhole` and `CleanEndIsSound`.

**`SegmentStreamProofs`.** `StreamInv` has five parts. `ReaderOK`: the offset is what was
consumed. `SlowOK`: what the slow path holds is exactly the input between its start and the
reader's place. `IterOK` and `SegsOK`: types, and segments lie within what was consumed.
`InBudget`: no more was consumed than the budget allows. The fast path needs
that the segment parsed lies within its unit (over `ParseSegment`), and
that the first unescaped terminator lies in the buffer (`UnitAtHand`). From
it follow `TypeCorrect` and `BudgetIsKept`, and that `stream_offset` counts what was consumed
(`OffsetIsConsumed`), which says nothing of the offsets in errors;
`MemoryIsBounded` needs in addition that `raw` is shorter than a UNA
while the lookahead runs.

That segments tile the input takes `TileInv` on top: the segments so far do, only
whitespace and empty segments lie between the last and the place where the next begins
(`GapSoFar`), the slow path's bytes hold no terminator in force, unless they are bound to be
refused (`NoEarlierEnd`), and the UNA lookahead comes before any segment
(`HeaderFirst`). A piece of the input that parses then joins the tiling, whichever
path read it (`PieceParsed`, `JoinedTiles`). `SyntaxLemmas` has what this needs of
the parity of release characters, without induction: what is escaped does not depend on
where a read began, if no release character lies right before it. The theorems so far are of `Spec`, with marks in any number of buffers.

That the reader agrees with the slice (`PathsAgree`) takes `PathInv`, a relation between the reader's
state and where the slice's iterator stands. Before the header is scanned (`Ahead`), no segment has
been handed out, and what was consumed is the prologue and letters that may begin a UNA where the
slice looks for one. Afterwards (`Abreast`), the terminator in force is the slice's, and there
is a place `p` at which the slice's iterator stands after as many calls as the reader made: the same
segments behind it, the same budget. The reader has then consumed only blanks beyond `p`, or
holds bytes of the unit at `p` without its terminator. A unit that is complete is parsed alike by both: on
the fast path it lies in the buffer, on the slow path the bytes held are copied, and an input of the
same bytes parses the same. What remains is the ends: of the input, of the byte budget, of a unit
over the limit, and the errors of each; `Regular` excludes the inputs on which these differ by design, and
`OneFault` those of which each path reports another fault. The theorem is of
`FairWholeMarkSpec`, in which a mark arrives in one buffer; its fairness is not used.

**`SinkProofs`.** `CountsAreTrue` speaks of each UNT, however long ago it was written, and is not
inductive: it needs where the writer counts from. `SinkInv` ties the writer's two
counters to the sink: `segment_count` is its number of terminators; where the latest
UNH is whole, `message_start_count` is the number of segments before it
(`StartIsLatest`). An open guard counts from there (`GuardOK`). Every call
appends a prefix of a segment, whole or cut (`SinkGrows`, `CleanGrows`): so UNTs that are there stay true, and one that is
appended is. `SilentIsClean` is `DamageIsReported` for sinks: if no
call has returned an error and no drop has discarded one, every segment is whole. A drop may discard the only error
(writer.rs:1060–1067), and `DamageIsNeverSilent` claims nothing of the sink then.

The emitter's property is inductive with its types. A
piece is appended after the last (`Ending`); the state machine says which may follow,
and `segment_count` grows with the terminators. A refused tag and a
failed write end what `ProtocolIsKept` claims of segments and of the state, as they end it in the
code (section 5); only that `segment_count` is the number of terminators goes on.

**`RecoveryProofs`.** `ScanInv` has, beside the two properties: types; counters
count the items, and a scan that goes on has exceeded no limit (`ScanCounts`); the
parser stands where the items end (`ScanPlace`); a pending fault is that of the
UNA, before any item, or the second of a segment whose end the last fault did not find
(`ScanPending`). The last is what makes the items tile: a fault that is yielded a call later
begins where the last one did. Each way `next` goes through is a lemma (`PendingStep`,
`EndStep`, `SegmentStep`, `ResumeStep`, `OverlongStep`); each shows `ScanInv'` and
that the call made headway, so `ScanAdvances` follows from the same step.

`StrictPrefix` compares the scan with `FromBytes`, which is given only the bytes within
`MaxInputBytes`, while the scan has the whole input and refuses what passes the limit.
At any byte, either the two agree on what lies there (`Agree`), or both find that it does not lie
within the budget (`OutOfBudget`): lemma `Verdict`, from the cases that the terminator, or the size limit, or
neither lies within the budget, and from what a prefix of an input parses to
(`SyntaxLemmas`). `StrictInv` then says that before the first fault `FromBytes` after as many calls stands
where the scan stands, with the same segments and the same counts (`Abreast`), unless the prologue alone crosses
the budget (`Precluded`, `UnaRefused`); and that from the first fault on its verdict is settled (`Told`), for
an iterator that is done stays as it is (`DoneStays`), and the scan only adds items.

**`InterchangeProofs`.** The state is a sequence of segments of which only the type is an
invariant; what is proved is what loops over it compute. Each loop is a
recursive function of the number of turns, and each has its recurrence (`WindowsStep`, `SpansStep`,
`FlatStep`, `GroupsStep`) and an invariant over the turns. `WindowsInv` says that each
recovered window begins at its opening tag, ends where a declarative walk of the tags ends (`Walked`),
and that messages nest in groups; `DeclaredWindows` follows. For the validator,
`FlatInv` and `GroupsInv` say that the messages and groups extracted so far tile what was read and that
no fault was added if and only if each is clean; the reference definition `Good...` is
cut into the same tiles in both directions, so that acceptance and correctness coincide (`CorrectIsAccepted`). Windows,
spans and outline all pair opening with closing tags (`Paired`) and begin at the same places, hence are the same
(`SameFirsts`, `SameBounds`), which is `WalksAlwaysAgree`. A place depends on windows and tags
alone, which are the same on both ways, and each constructor of a place puts a code only
where it is permitted (`PlaceIsWell`).

For the reply, `FindingsTyped` is the inductive part; the reply is assembled once, from findings
and shape that no longer change. `TakenStep`, `AmongStep`, `SegmentsStep`, `MessageLinesStep`
and `GroupLinesStep` are the recurrences of `assemble` and of the lines. What is taken is what was found
(`TakenIs`), each message and group is given the verdict of the findings on it
(`MessageReportsAre`, `GroupReportsAre`), and of a list of lines it is
shown, line by line, that each is at a level that may have its code and states that of a
finding there (`AllBelong`), and that a segment is opened once, before its elements (`OpenedFor`).

**`SegmentGroupsProofs`.** `TreeIsAPartition` says that spans nest, that each segment has one place,
that paths name instances, and that counts are what was taken. `GroupInv` adds what makes
it inductive: the nodes form a tree, and the stack is its path along the last children
(`Tree`); closed spans lie within what was read, and open ones end with it (`Within`); a segment's instance
is the innermost whose span has it (`Placed`); an occurrence number is below
the number of siblings of that name (`NumberedOf`, `UniqueOf`); each member's count is the number
of segments and children it took, up to its maximum, and `overflows` has one entry for each beyond
(`Counts`). The four actions differ in guards, but are one kind of change: a level of
the stack is kept, or a child is opened there, and one of its members, or none,
takes the segment (`Grows`). That change keeps `GroupInv` (`GrowsKeepsInv`, proved once), and each
action is such a change (`PlaceSegmentGrows`, `OpenGroupGrows`,
`AttachDirectGrows`, `LeaveUnplacedGrows`).

**`DecodingProofs`.** The decoding of a source is a recursive function of how much of it
is decoded. While the probe runs, what it holds and what it has left are the source, cut in two (`Probing`); afterwards
the repertoire is the declared one (`Found`). While nothing has failed, what the buffer, the probe's
rest and the source's rest hold are three adjacent windows of the source, and what was handed out,
what is written and what spilled over are, together, the decoding up to the first window (`Going`,
`Cut`). At the end the first window is empty and at the end of the source (`Ended`); after a failure what
was handed out still begins the decoding, `decode_interchange` refuses the stream too, and less than one buffer
before the undefined byte is lost (`Failed`). Bytes that are not UTF-8 under UNOA, UNOB and UNOY are
the exception that the property states. `Interrupted` is excluded, as in
the property: the caller's retry loses what the failed call had written (section 5).

**Induction over data.** The library's induction theorems take an operator as a
parameter, which the provers cannot instantiate. Where a loop is a recursive function over
`0..n`, its recurrence can be proved all the same, and an invariant over its turns follows from the
least turn at which it fails (`LeastOne`, `UpTo`, `ClimbsTo`). That does not help with `RECURSIVE` operators, over trees
and patterns: a module that declares them cannot be proved about.

**Only model-checked.**

* `Terminates` and `CallerIsDone`: liveness is out of the prover's reach.
* `NoFindingsConforms` and `ConformingHasNoFindings`: the language of a schema is a `RECURSIVE` operator.
* `ErrorsAreLocated`: the proof that the paths agree does not carry the kinds and offsets of all errors.
* The six properties of `Validation`: the walk over a group tree is a `RECURSIVE` operator, and all of
  them are about the pipeline that contains it.
* The four properties of `TypedMessages`: what a pattern matches is a `RECURSIVE` operator, and the
  segments are bytes of any value in between.

## 7. What is not modelled

* Reading: a `BufRead` that returns an empty buffer and later more; 32-bit targets, on which
  offsets saturate; borrowed versus owned text; spans of single values.
* Writing: repertoires (a value that cannot be encoded is a failing write); a UNH or UNT that
  a caller writes by hand through a guard; a guard that is leaked.
* Segment groups: the builder's own audits and the serialized form of the tree; a
  discriminator is one code of one element.
* Repertoires: the code tables. A character has a number of bytes, or none.
* CONTRL: the bytes of the reply, its identifier and references.
* Validation: the wording of issues, the rendering of reports, adapters that only forward, suggestions. Closures in rules are represented
  by ones that report each segment of a tag.
* Directory: the tables of the directories themselves, which are data.
* Typed layer: `deserialize_each`, `contiguous_groups`, group fields, lifetimes, formatting of
  numbers, the parsing of attributes and the wording of compile errors.
* `service.rs`: tables of definitions. Of `model.rs` only access to elements, components and codes.
* Examples and benches.

## 8. Plan

Done: the modules of section 2 and the proofs of section 6. Left, in this order:

1. Proofs: that `EnvelopeIsHidden` follows from what `RunOnShown` shows its validators, once the
   pipeline's state machine is in a module that does not reach the recursive walk of `Packs`.
2. `deserialize_each` and group fields over the tree of `SegmentGroups`.
3. Two messages with slips in both in `Interchange` (`MaxSlips = 2`), as far as TLC's time allows.
