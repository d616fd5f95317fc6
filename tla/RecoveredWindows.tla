-------------------------- MODULE RecoveredWindows --------------------------
(***************************************************************************)
(* The message and group windows of RecoveredInterchange (recover.rs): a   *)
(* run over the tags of the scanned items, whether or not they make an     *)
(* interchange.  Items are counted from 1 here, from 0 in the code.        *)
(***************************************************************************)
EXTENDS Naturals, SequencesExt

NoOrdinal == 0   \* None, of an ordinal or a window index
NoTag == "no tag"

(* The windows so far, after n items; message and group are the open ones. *)
NoWindows ==
  [n |-> 0, messages |-> <<>>, groups |-> <<>>,
   message |-> NoOrdinal, group |-> NoOrdinal]

(* An open window has its end, or its last item, here. *)
EndAt(windows, k, i) == IF k = NoOrdinal THEN windows ELSE [windows EXCEPT ![k].end = i]
LastAt(windows, k, i) == IF k = NoOrdinal THEN windows ELSE [windows EXCEPT ![k].last = i]

(* Every item inside an open window extends it. *)
Extend(w) ==
  [w EXCEPT
     !.n = @ + 1,
     !.messages = EndAt(@, w.message, w.n + 1),
     !.groups = EndAt(@, w.group, w.n + 1)]

(* Fault: the message ends with the item that cut it short.                *)
CutLate(w) ==
  [w EXCEPT !.messages = EndAt(@, w.message, w.n), !.message = NoOrdinal]

(* What the current item cuts short ends before it. *)
CutMessage(w) ==
  [w EXCEPT !.messages = EndAt(@, w.message, w.n - 1), !.message = NoOrdinal]

CutGroup(w) ==
  [w EXCEPT !.groups = EndAt(@, w.group, w.n - 1), !.group = NoOrdinal]

(* Fault: a trailer ends its message before itself. *)
CloseBefore(w) ==
  [w EXCEPT !.messages = EndAt(@, w.message, w.n - 1), !.message = NoOrdinal]

(* What the current item closes ends with it. *)
CloseMessage(w) ==
  [w EXCEPT !.messages = LastAt(@, w.message, w.n), !.message = NoOrdinal]

CloseGroup(w) ==
  [w EXCEPT !.groups = LastAt(@, w.group, w.n), !.group = NoOrdinal]

OpenMessage(w) ==
  [w EXCEPT
     !.messages = Append(@, [first |-> w.n, last |-> NoOrdinal, end |-> w.n, group |-> w.group]),
     !.message = Len(w.messages) + 1]

OpenGroup(w) ==
  [w EXCEPT
     !.groups = Append(@, [first |-> w.n, last |-> NoOrdinal, end |-> w.n]),
     !.group = Len(w.groups) + 1]

Scan(w, tag) ==
  LET x == Extend(w)
  IN  CASE tag = "UNH" -> OpenMessage(CutMessage(x))
        [] tag = "UNT" -> CloseMessage(x)
        [] tag = "UNG" -> OpenGroup(CutGroup(CutMessage(x)))
        [] tag = "UNE" -> CloseGroup(CutMessage(x))
        [] tag = "UNZ" -> CutGroup(CutMessage(x))
        [] OTHER -> x

(* The windows after each item, and after none. *)
WindowsAfter(tags) ==
  LET after[i \in 0..Len(tags)] ==
        IF i = 0 THEN NoWindows ELSE Scan(after[i-1], tags[i])
  IN  after

(* build_windows *)
Windows(tags) == WindowsAfter(tags)[Len(tags)]

-----------------------------------------------------------------------------
Within(window, i) == i \in window.first .. window.end

(* The first window that holds item i. *)
FirstWithin(windows, i) ==
  LET holding == {k \in 1..Len(windows) : Within(windows[k], i)}
  IN  IF holding = {} THEN NoOrdinal ELSE CHOOSE k \in holding : \A j \in holding : k <= j

(* A target is what an anchor resolves to: item, message, group, position. *)
Target(tag, message, position, group, element, exact) ==
  [tag |-> tag, message |-> message, position |-> position, group |-> group,
   element |-> element, exact |-> exact]

NoElement == 0

InterchangeTarget(exact) ==
  Target(NoTag, NoOrdinal, NoOrdinal, NoOrdinal, NoElement, exact)

(* item_target: item i of the scan, in its message if it has one. *)
ItemTarget(w, tags, i) ==
  LET m == FirstWithin(w.messages, i)
  IN  IF m # NoOrdinal
      THEN Target(tags[i], m, i - w.messages[m].first + 1, w.messages[m].group, NoElement, TRUE)
      ELSE Target(tags[i], NoOrdinal, NoOrdinal, FirstWithin(w.groups, i), NoElement, TRUE)
=============================================================================
