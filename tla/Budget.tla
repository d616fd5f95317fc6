------------------------------- MODULE Budget -------------------------------
(***************************************************************************)
(* The resource limits of a ReaderConfig and the counters they are checked *)
(* against: `Budget` in parser.rs.  One budget is owned by each segment    *)
(* iterator (FromBytesIter, OwnedSegmentStream) and by the recovering      *)
(* scan; it is passed here as a record so that every owner uses the same   *)
(* operators.                                                              *)
(*                                                                         *)
(* Tags are data: only "UNH" and "UNT" are told apart from the others.     *)
(* The counters are Nat where the code has usize: a counter is compared    *)
(* with its limit before it is increased, and the input would need 2^64    *)
(* segments to wrap it.                                                    *)
(***************************************************************************)
EXTENDS Integers

CONSTANTS
  None,                  \* "no limit": Option::None
  MaxSegments,           \* ReaderConfig::max_segments
  MaxMessages,           \* ReaderConfig::max_messages
  MaxSegmentsPerMessage, \* ReaderConfig::max_segments_per_message
  MaxInputBytes,         \* ReaderConfig::max_input_bytes
  Tags                   \* the segment tags an input may carry

ASSUME NoneAssumption == None \notin Nat

ASSUME LimitsAssumption ==
  /\ MaxSegments           \in Nat \cup {None}
  /\ MaxMessages           \in Nat \cup {None}
  /\ MaxSegmentsPerMessage \in Nat \cup {None}
  /\ MaxInputBytes         \in Nat \cup {None}

ASSUME TagsAssumption == {"UNH", "UNT"} \subseteq Tags

Budgets ==
  [segments: Nat, messages: Nat, inMessage: BOOLEAN, messageSegments: Nat]

(* Budget::new *)
NewBudget ==
  [segments |-> 0, messages |-> 0, inMessage |-> FALSE, messageSegments |-> 0]

(* A limit set to None never trips. *)
Exceeds(n, limit) == limit # None /\ n > limit

(***************************************************************************)
(* admit_segment.  The position a segment would take in its message: a UNH *)
(* restarts the count even inside an unclosed message, a segment outside a *)
(* message has no position.                                                *)
(***************************************************************************)
PositionInMessage(b, tag) ==
  IF tag = "UNH" THEN 1
  ELSE IF b.inMessage THEN b.messageSegments + 1
  ELSE 0

(* The three count checks, each of them one way to refuse a segment. *)
OverSegments(b)      == Exceeds(b.segments + 1, MaxSegments)
OverMessages(b, tag) == tag = "UNH" /\ Exceeds(b.messages + 1, MaxMessages)
OverMessageSize(b, tag) ==
  Exceeds(PositionInMessage(b, tag), MaxSegmentsPerMessage)

AdmitsSegment(b, tag) ==
  /\ ~OverSegments(b)
  /\ ~OverMessages(b, tag)
  /\ ~OverMessageSize(b, tag)

(* The limit a refusal names: the first one exceeded, in the code's order. *)
RefusedLimit(b, tag) ==
  IF OverSegments(b) THEN "max_segments"
  ELSE IF OverMessages(b, tag) THEN "max_messages"
  ELSE "max_segments_per_message"

(***************************************************************************)
(* account, one counter at a time.  Only a UNT that closes a UNH advances  *)
(* the message counter; the message's own count covers UNH through UNT.    *)
(***************************************************************************)
MessagesAfter(b, tag) ==
  IF b.inMessage /\ tag = "UNT" THEN b.messages + 1 ELSE b.messages

SizeWithoutUnh(b, tag) ==                  \* fault: the UNH is not counted
  IF b.inMessage /\ tag \notin {"UNH", "UNT"} THEN b.messageSegments + 1 ELSE 0

MessageSegmentsAfter(b, tag) ==
  IF tag = "UNH" THEN 1
  ELSE IF ~b.inMessage THEN b.messageSegments
  ELSE IF tag = "UNT" THEN 0
  ELSE b.messageSegments + 1

Account(b, tag) ==
  [ segments        |-> b.segments + 1,
    messages        |-> MessagesAfter(b, tag),
    inMessage       |-> tag = "UNH" \/ (b.inMessage /\ tag # "UNT"),
    messageSegments |-> MessageSegmentsAfter(b, tag) ]

(***************************************************************************)
(* The byte budget.  A unit that ends at the absolute byte unitEnd is      *)
(* admitted when it ends inside the budget; E020 is seen before E036 when  *)
(* the byte that proves a segment oversized lies inside it.                *)
(***************************************************************************)
AdmitsOneMore(unitEnd) == ~Exceeds(unitEnd - 1, MaxInputBytes)    \* fault

AdmitsBytes(unitEnd) == ~Exceeds(unitEnd, MaxInputBytes)

SeesByte(detectedAt)  == ~Exceeds(detectedAt, MaxInputBytes)
=============================================================================
