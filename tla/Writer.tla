------------------------------- MODULE Writer -------------------------------
(***************************************************************************)
(* Writer and its message guard, MessageWriter (writer.rs), over a sink    *)
(* that may fail at any write and recover afterwards.                      *)
(*                                                                         *)
(* One step is one call.  A call that fails leaves in the sink what it had *)
(* written: a write error, or a value that cannot be encoded in the        *)
(* writer's repertoire, may come before any piece.  The caller may carry   *)
(* on after an error.  While a guard is open it borrows the writer, so     *)
(* only the guard's own methods can be called; content is not expected to  *)
(* hold a UNH of its own there, nor a UNT anywhere.  No value but the      *)
(* count in a UNT is told apart: the others are part of the piece before   *)
(* them, and a segment cut within them is one cut before its terminator.   *)
(***************************************************************************)
EXTENDS Sink

CONSTANTS
  Content,     \* tags of ordinary segments
  MaxPieces    \* bound on the sink when a call is made

ASSUME ContentAssumption == Content \cap {"UNH", "UNT"} = {}
ASSUME MaxPiecesAssumption == MaxPieces \in Nat

VARIABLES
  sink,           \* Writer::inner, as the pieces it holds
  segmentCount,   \* Writer::segment_count
  messageStart,   \* Writer::message_start_count
  guard,          \* MessageWriter::unh_count while a guard is open, or NoGuard
  live,           \* FALSE once finish or finish_unt has consumed the writer
  reported,       \* a call has returned an error
  swallowed       \* a drop has discarded an error

vars == <<sink, segmentCount, messageStart, guard, live, reported, swallowed>>

NoGuard == -1

Room == Len(sink) < MaxPieces

Init ==
  /\ sink = <<>>
  /\ segmentCount = 0
  /\ messageStart = 0
  /\ guard = NoGuard
  /\ live = TRUE
  /\ reported = FALSE /\ swallowed = FALSE

-----------------------------------------------------------------------------
Prefix(pieces, n) == SubSeq(pieces, 1, n)

(* Fault: a message is taken to start after its UNH. *)
StartAfterUnh(pieces, n) ==
  /\ sink' = sink \o Prefix(pieces, n)
  /\ IF n = Len(pieces)
     THEN /\ segmentCount' = segmentCount + 1
          /\ messageStart' = IF pieces[1].tag = "UNH" THEN segmentCount + 1
                                                      ELSE messageStart
     ELSE UNCHANGED <<segmentCount, messageStart>>

(* The first n writes of a segment succeed, and when they are all of them, *)
(* end_segment counts it.                                                  *)
Write(pieces, n) ==
  /\ sink' = sink \o Prefix(pieces, n)
  /\ IF n = Len(pieces)
     THEN /\ segmentCount' = segmentCount + 1
          /\ messageStart' = IF pieces[1].tag = "UNH" THEN segmentCount
                                                      ELSE messageStart
     ELSE UNCHANGED <<segmentCount, messageStart>>

Succeeds(pieces, n) == n = Len(pieces)

(* write_segment, write_simple, write_composites and write_elements, on    *)
(* the writer or on its guard.                                             *)
WriteSegment ==
  /\ live /\ Room
  /\ \E tag \in Content \cup {"UNH"} :
       LET pieces == SegmentPieces(tag, <<>>)
       IN  /\ tag = "UNH" => guard = NoGuard
           /\ \E n \in 0..Len(pieces) :
                /\ Write(pieces, n)
                /\ reported' = (reported \/ ~Succeeds(pieces, n))
  /\ UNCHANGED <<guard, live, swallowed>>

(* A segment with a tag that is not one, or with repetitions where no      *)
(* repetition separator is declared, is refused before the first write.    *)
RefuseSegment ==
  /\ live
  /\ reported' = TRUE
  /\ UNCHANGED <<sink, segmentCount, messageStart, guard, live, swallowed>>

(* begin_message: writes the UNH and opens a guard. *)
BeginMessage ==
  /\ live /\ guard = NoGuard /\ Room
  /\ LET unh == SegmentPieces("UNH", <<>>)
     IN  \E n \in 0..Len(unh) :
           /\ Write(unh, n)
           /\ guard' = IF Succeeds(unh, n) THEN segmentCount' ELSE NoGuard
           /\ reported' = (reported \/ ~Succeeds(unh, n))
  /\ UNCHANGED <<live, swallowed>>

(* Fault: UNH and UNT are taken off. *)

(* write_unt: UNH, what came after it, and the UNT. *)
GuardCount == segmentCount - guard + 2
GuardUnt == SegmentPieces("UNT", <<GuardCount>>)

FinishMessage ==
  /\ live /\ guard # NoGuard /\ Room
  /\ Write(GuardUnt, Len(GuardUnt))
  /\ guard' = NoGuard
  /\ UNCHANGED <<live, reported, swallowed>>

(* Fault: finish does not return the error. *)
FinishQuietly ==
  /\ live /\ guard # NoGuard /\ Room
  /\ \E n \in 0 .. Len(GuardUnt) - 1 : Write(GuardUnt, n)
  /\ guard' = NoGuard
  /\ UNCHANGED <<live, reported, swallowed>>

(* finish fails to write the UNT.  It returns before it sets `finished`,   *)
(* and drops the guard it consumed, which writes the UNT again.            *)
FinishMessageFails ==
  /\ live /\ guard # NoGuard /\ Room
  /\ \E n \in 0 .. Len(GuardUnt) - 1, m \in 0..Len(GuardUnt) :
       /\ sink' = sink \o Prefix(GuardUnt, n) \o Prefix(GuardUnt, m)
       /\ segmentCount' =
            IF Succeeds(GuardUnt, m) THEN segmentCount + 1 ELSE segmentCount
  /\ guard' = NoGuard
  /\ reported' = TRUE
  /\ UNCHANGED <<messageStart, live, swallowed>>

(* The guard is dropped unfinished: the UNT is written, an error is lost. *)
DropMessage ==
  /\ live /\ guard # NoGuard /\ Room
  /\ \E n \in 0..Len(GuardUnt) :
       /\ Write(GuardUnt, n)
       /\ swallowed' = (swallowed \/ ~Succeeds(GuardUnt, n))
  /\ guard' = NoGuard
  /\ UNCHANGED <<live, reported>>

(* finish: flushes the sink and hands it back. *)
Finish ==
  /\ live /\ guard = NoGuard
  /\ live' = FALSE
  /\ \E flushed \in BOOLEAN : reported' = (reported \/ ~flushed)
  /\ UNCHANGED <<sink, segmentCount, messageStart, guard, swallowed>>

(* finish_unt: closes the message begun by the latest UNH, then finishes. *)
FinishUnt ==
  /\ live /\ guard = NoGuard /\ Room
  /\ LET unt == SegmentPieces("UNT", <<segmentCount - messageStart + 1>>)
     IN  \E n \in 0..Len(unt), flushed \in BOOLEAN :
           /\ Write(unt, n)
           /\ reported' = (reported \/ ~Succeeds(unt, n) \/ ~flushed)
  /\ live' = FALSE
  /\ UNCHANGED <<guard, swallowed>>

Next ==
  \/ WriteSegment \/ RefuseSegment \/ BeginMessage \/ FinishMessage
  \/ FinishMessageFails \/ DropMessage \/ Finish \/ FinishUnt

Spec == Init /\ [][Next]_vars

-----------------------------------------------------------------------------
TypeOK ==
  /\ sink \in Seq([is: {"tag", "value", "term"},
                   tag: Content \cup {"UNH", "UNT", ""}, count: Nat])
  /\ segmentCount \in Nat
  /\ messageStart \in Nat
  /\ guard \in Nat \cup {NoGuard}
  /\ {live, reported, swallowed} \subseteq BOOLEAN

(* segment_count is the number of segments a reader of the sink finds,     *)
(* whatever failed: one for each terminator.                               *)
CountIsWhatIsRead == segmentCount = Cardinality(TermsAt(sink))

(* The UNH of the message a UNT at j closes: the last one before it. *)
Opens(i, j) ==
  /\ i \in TagsAt(sink, "UNH") /\ i < j
  /\ TagsAt(sink, "UNH") \cap (i+1 .. j-1) = {}

(***************************************************************************)
(* What is counted is what a reader finds, whatever failed, and the count  *)
(* in a UNT (DE 0074) is true whichever way it was written: by finish, by  *)
(* a drop, by a drop after a failed finish or by finish_unt.  Where both   *)
(* segments are whole, it counts the segments a reader finds from the one  *)
(* to the other.                                                           *)
(***************************************************************************)
CountsAreTrue ==
  /\ CountIsWhatIsRead
  /\ \A j \in TagsAt(sink, "UNT") : \A i \in 1..j-1, end \in j+1..Len(sink) :
       Opens(i, j) /\ WholeAt(sink, i) /\ Ends(sink, j, end)
         => sink[j+1].count = Cardinality(TermsAt(sink) \cap (i..end))

(***************************************************************************)
(* Damage is never silent: a sink that holds anything but whole segments   *)
(* means that a call has returned an error, or that a drop (which is       *)
(* documented to) has discarded one.                                       *)
(***************************************************************************)
DamageIsReported ==
  ~reported /\ ~swallowed =>
    \A i \in 1..Len(sink) :
      sink[i].is = "tag" => CleanAt(sink, i) /\ WholeAt(sink, i)
=============================================================================
