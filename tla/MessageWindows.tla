--------------------------- MODULE MessageWindows ---------------------------
(***************************************************************************)
(* MessageWindows (de.rs) pulling segments from a segment iterator that    *)
(* enforces the count limits of a ReaderConfig (parser.rs).                *)
(*                                                                         *)
(* One step is one turn of the loop in MessageWindows::next: the inner     *)
(* iterator answers with a segment it admitted, with an error, or with the *)
(* end of its input, and the adapter buffers, skips, returns a window or   *)
(* ends.  The segments are chosen freely, so every interleaving of UNH,    *)
(* UNT and other tags is an input.  A segment is identified by its         *)
(* position in the stream; its elements play no part here.                 *)
(***************************************************************************)
EXTENDS Budget, Sequences

CONSTANT MaxPulls   \* bound on the length of the segment stream

ASSUME MaxPullsAssumption == MaxPulls \in Nat

VARIABLES
  handed,      \* tags of the segments the inner iterator has handed out
  budget,      \* the inner iterator's Budget
  buf,         \* MessageWindows::buf, as positions in handed
  inMessage,   \* MessageWindows::in_message
  done,        \* MessageWindows::done
  windows,     \* the windows returned so far, each a sequence of positions
  outcome      \* how the iteration ended: "open" while it has not

vars == <<handed, budget, buf, inMessage, done, windows, outcome>>

Outcomes == {"open", "end", "UnexpectedEof", "InvalidSegmentForMessage",
             "LimitExceeded", "InnerError"}

Init ==
  /\ handed = <<>>
  /\ budget = NewBudget
  /\ buf = <<>>
  /\ inMessage = FALSE
  /\ done = FALSE
  /\ windows = <<>>
  /\ outcome = "open"

-----------------------------------------------------------------------------
(* The position the next segment of the stream has. *)
At == Len(handed) + 1

(* The inner iterator admits, accounts and hands out a segment (hand_out). *)
Pull(tag) ==
  /\ ~done
  /\ Len(handed) < MaxPulls
  /\ AdmitsSegment(budget, tag)
  /\ budget' = Account(budget, tag)
  /\ handed' = Append(handed, tag)

(* An envelope segment outside a window is skipped, a bare UNT included. *)
SkipOutside(tag) ==
  /\ ~inMessage
  /\ tag # "UNH"
  /\ Pull(tag)
  /\ UNCHANGED <<buf, inMessage, done, windows, outcome>>

OpenWindow ==
  /\ ~inMessage
  /\ Pull("UNH")
  /\ buf' = <<At>>
  /\ inMessage' = TRUE
  /\ UNCHANGED <<done, windows, outcome>>

BufferSegment(tag) ==
  /\ inMessage
  /\ tag \notin {"UNH", "UNT"}
  /\ Pull(tag)
  /\ buf' = Append(buf, At)
  /\ UNCHANGED <<inMessage, done, windows, outcome>>

(* Fault: the window is returned without the UNT that closed it. *)
CloseWithoutUnt ==
  /\ inMessage
  /\ Pull("UNT")
  /\ windows' = Append(windows, buf)
  /\ buf' = <<>>
  /\ inMessage' = FALSE
  /\ UNCHANGED <<done, outcome>>

CloseWindow ==
  /\ inMessage
  /\ Pull("UNT")
  /\ windows' = Append(windows, Append(buf, At))
  /\ buf' = <<>>
  /\ inMessage' = FALSE
  /\ UNCHANGED <<done, outcome>>

(* Fault: a UNH inside an open window silently starts the window over. *)
RestartOnNestedUnh ==
  /\ inMessage
  /\ Pull("UNH")
  /\ buf' = <<At>>
  /\ UNCHANGED <<inMessage, done, windows, outcome>>

(* A UNH inside an open window: the unfinished message is an error. *)
RejectNestedUnh ==
  /\ inMessage
  /\ Pull("UNH")
  /\ buf' = <<>>
  /\ inMessage' = FALSE
  /\ done' = TRUE
  /\ outcome' = "InvalidSegmentForMessage"
  /\ UNCHANGED windows

(* The inner iterator refuses a segment over a count limit, or fails on    *)
(* malformed bytes or I/O: its error is forwarded and the iteration stops. *)
InnerRefuses(tag) ==
  /\ ~done
  /\ ~AdmitsSegment(budget, tag)
  /\ done' = TRUE
  /\ outcome' = "LimitExceeded"
  /\ UNCHANGED <<handed, budget, buf, inMessage, windows>>

InnerFails ==
  /\ ~done
  /\ done' = TRUE
  /\ outcome' = "InnerError"
  /\ UNCHANGED <<handed, budget, buf, inMessage, windows>>

(* The input ended: an open window means it was truncated. *)
EndOfInput ==
  /\ ~done
  /\ done' = TRUE
  /\ outcome' = IF inMessage /\ buf # <<>> THEN "UnexpectedEof" ELSE "end"
  /\ inMessage' = IF buf # <<>> THEN FALSE ELSE inMessage
  /\ UNCHANGED <<handed, budget, buf, windows>>

Next ==
  \/ \E tag \in Tags : SkipOutside(tag)
  \/ OpenWindow
  \/ \E tag \in Tags : BufferSegment(tag)
  \/ CloseWindow
  \/ RejectNestedUnh
  \/ \E tag \in Tags : InnerRefuses(tag)
  \/ InnerFails
  \/ EndOfInput

Spec == Init /\ [][Next]_vars

-----------------------------------------------------------------------------
TypeOK ==
  /\ handed \in Seq(Tags)
  /\ budget \in Budgets
  /\ buf \in Seq(Nat)
  /\ inMessage \in BOOLEAN
  /\ done \in BOOLEAN
  /\ windows \in Seq(Seq(Nat))
  /\ outcome \in Outcomes

(***************************************************************************)
(* The memory bound of a window: with max_segments_per_message set, the    *)
(* adapter never holds more segments than that.  Adapter and budget keep   *)
(* separate message states, so the bound rests on the two agreeing.        *)
(***************************************************************************)
BufferBounded ==
  MaxSegmentsPerMessage # None => Len(buf) <= MaxSegmentsPerMessage

(* Positions i..j of the stream are one message: UNH, then UNT, and neither *)
(* of the two tags between them.                                           *)
IsMessage(i, j) ==
  /\ i \in 1..Len(handed)
  /\ j \in i+1..Len(handed)
  /\ handed[i] = "UNH"
  /\ handed[j] = "UNT"
  /\ \A k \in i+1..j-1 : handed[k] \notin {"UNH", "UNT"}

(* A window is a run of consecutive positions that is one message. *)
IsWindow(w) ==
  /\ w # <<>>
  /\ \A k \in 1..Len(w) : w[k] = w[1] + k - 1
  /\ IsMessage(w[1], w[Len(w)])

EveryMessageReturned ==
  \A i, j \in 1..Len(handed) :
    IsMessage(i, j) => \E w \in 1..Len(windows) : windows[w][1] = i

(***************************************************************************)
(* The windows returned are exactly the messages of the stream handed out, *)
(* whole and in order: none is lost, split, merged or returned twice.      *)
(***************************************************************************)
WindowsAreTheMessages ==
  /\ \A w \in 1..Len(windows) : IsWindow(windows[w])
  /\ \A v, w \in 1..Len(windows) : v < w => windows[v][1] < windows[w][1]
  /\ EveryMessageReturned

(* The message begun at i has been closed by a UNT of its own. *)
Closed(i) == \E j \in 1..Len(handed) : IsMessage(i, j)

(***************************************************************************)
(* A stream that ends cleanly carried only whole messages: a truncated or  *)
(* interleaved message can never pass for a complete interchange.          *)
(***************************************************************************)
CleanEndIsComplete ==
  outcome = "end" => \A i \in 1..Len(handed) : handed[i] = "UNH" => Closed(i)

(* The message budget bounds the windows a caller can receive. *)
MessagesWithinLimit ==
  MaxMessages # None => Len(windows) <= MaxMessages

(* max_segments_per_message bounds the buffer, max_messages the windows,    *)
(* although the inner iterator counts, and the windows only open and close. *)
WithinLimits == BufferBounded /\ MessagesWithinLimit
=============================================================================
