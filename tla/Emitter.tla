------------------------------- MODULE Emitter -------------------------------
(***************************************************************************)
(* WriterEmitter (event.rs): segments written one event at a time, in the  *)
(* order of a protocol that the emitter enforces.  Any event may come at   *)
(* any time, and any write may fail; a caller may carry on after an error. *)
(* One step is one call of emit.  Its state changes before it writes.      *)
(*                                                                         *)
(* The emitter's writer is its own: it opens no message guard, and neither *)
(* message_start_count nor open_segment_is_unh can be observed through it. *)
(***************************************************************************)
EXTENDS Sink

CONSTANT MaxEmitted   \* bound on the sink when an event comes

ASSUME MaxEmittedAssumption == MaxEmitted \in Nat

VARIABLES
  emitted,          \* the sink of the emitter's writer
  emittedCount,     \* the segment_count of the emitter's writer
  repetitionActive, \* the writer's advice declares a repetition separator
  state,          \* WriterEmitter::state
  rejected,       \* a tag has been refused
  failed,         \* a write has failed
  result          \* what the latest emit returned

emitterVars ==
  <<emitted, emittedCount, repetitionActive, state, rejected, failed, result>>

EmitterRoom == Len(emitted) < MaxEmitted

EmitterInit ==
  /\ emitted = <<>>
  /\ emittedCount = 0
  /\ state = "Idle"
  /\ repetitionActive \in BOOLEAN
  /\ rejected = FALSE /\ failed = FALSE
  /\ result = "Ok"

-----------------------------------------------------------------------------
(* The event is out of order: nothing changes, and the error says so. *)
Refuse(error) ==
  /\ result' = error
  /\ UNCHANGED <<emitted, emittedCount, repetitionActive, state, rejected, failed>>

(* The event writes a piece, or the write fails. *)
WritePiece(piece) ==
  \/ /\ emitted' = Append(emitted, piece)
     /\ result' = "Ok"
     /\ UNCHANGED <<repetitionActive, rejected, failed>>
  \/ /\ result' = "WriteFailed"
     /\ failed' = TRUE
     /\ UNCHANGED <<emitted, repetitionActive, rejected>>

(* The writer refuses a tag that is not three ASCII uppercase letters,     *)
(* before a byte is written.                                               *)
WriteTag(tagIsValid) ==
  IF tagIsValid THEN WritePiece(TagPiece("BGM"))
  ELSE /\ result' = "InvalidSegmentTag"
       /\ rejected' = TRUE
       /\ UNCHANGED <<emitted, repetitionActive, failed>>

StartSegment(tagIsValid) ==
  /\ EmitterRoom
  /\ IF state # "Idle" THEN Refuse("InvalidEventSequence")
     ELSE /\ state' = "InSegment"
          /\ WriteTag(tagIsValid)
          /\ UNCHANGED emittedCount

Element ==
  /\ EmitterRoom
  /\ IF state = "Idle" THEN Refuse("InvalidEventSequence")
     ELSE /\ state' = "InElement"
          /\ WritePiece(Value(0))
          /\ UNCHANGED emittedCount

(* Fault: a component is taken wherever an element is. *)
ComponentAnywhere ==
  /\ EmitterRoom
  /\ IF state = "Idle" THEN Refuse("InvalidEventSequence")
     ELSE WritePiece(Part) /\ UNCHANGED <<emittedCount, state>>

ComponentElement ==
  /\ EmitterRoom
  /\ IF state # "InElement" THEN Refuse("InvalidEventSequence")
     ELSE WritePiece(Part) /\ UNCHANGED <<emittedCount, state>>

RepeatElement ==
  /\ EmitterRoom
  /\ IF state # "InElement" THEN Refuse("InvalidEventSequence")
     ELSE IF ~repetitionActive THEN Refuse("RepetitionSeparatorNotDeclared")
     ELSE WritePiece(Part) /\ UNCHANGED <<emittedCount, state>>

EndSegment ==
  /\ EmitterRoom
  /\ IF state = "Idle" THEN Refuse("InvalidEventSequence")
     ELSE /\ state' = "Idle"
          /\ WritePiece(Term)
          /\ emittedCount' =
               IF result' = "Ok" THEN emittedCount + 1 ELSE emittedCount

EmitterNext ==
  \/ \E tagIsValid \in BOOLEAN : StartSegment(tagIsValid)
  \/ Element \/ ComponentElement \/ RepeatElement \/ EndSegment

EmitterSpec == EmitterInit /\ [][EmitterNext]_emitterVars

-----------------------------------------------------------------------------
(* The sink holds segments, of which the last may lack its terminator.     *)
Before(i) == IF i = 1 THEN "term" ELSE emitted[i-1].is

MayFollow(piece, ending) ==
  /\ piece.is = "tag" => ending = "term"
  /\ piece.is \in {"value", "term"} => ending # "term"
  /\ piece.is = "part" => ending \in {"value", "part"}

Reparses == \A i \in 1..Len(emitted) : MayFollow(emitted[i], Before(i))

(***************************************************************************)
(* Whatever order the events come in, the protocol lets only segments      *)
(* through, and the emitter knows which part of one comes next.  A tag     *)
(* refused or a write failed is the end of that; the count goes on being   *)
(* the number of terminators written.                                      *)
(***************************************************************************)
ProtocolKeepsSegments ==
  /\ emittedCount = Cardinality(TermsAt(emitted))
  /\ ~rejected /\ ~failed =>
       /\ Reparses
       /\ state = CASE Before(Len(emitted) + 1) = "term" -> "Idle"
                    [] Before(Len(emitted) + 1) = "tag"  -> "InSegment"
                    [] OTHER                          -> "InElement"
=============================================================================
