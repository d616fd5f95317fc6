------------------------ MODULE MessageWindowsProofs ------------------------
(***************************************************************************)
(* What is proved of MessageWindows for every tag set, every setting of    *)
(* the limits and streams of any length.                                   *)
(***************************************************************************)
EXTENDS MessageWindows, TLAPS

-----------------------------------------------------------------------------
(* Handing a segment out keeps the budget a record of counters. *)
LEMMA AccountType ==
  ASSUME NEW b \in Budgets, NEW tag \in Tags
  PROVE  Account(b, tag) \in Budgets
BY DEF Budgets, Account, MessagesAfter, MessageSegmentsAfter

(* What every step that takes a segment from the inner iterator does. *)
LEMMA PullType ==
  ASSUME TypeOK, NEW tag \in Tags, Pull(tag)
  PROVE  /\ budget' \in Budgets
         /\ handed' \in Seq(Tags)
         /\ At \in Nat
BY AccountType DEF TypeOK, Pull, At

LEMMA TypeInit == Init => TypeOK
<1> SUFFICES ASSUME Init
             PROVE  TypeOK
  OBVIOUS
<1>1. NewBudget \in Budgets
  BY DEF NewBudget, Budgets
<1>2. windows \in Seq(Seq(Nat)) /\ buf \in Seq(Nat) /\ handed \in Seq(Tags)
  BY DEF Init
<1> QED
  BY <1>1, <1>2 DEF Init, TypeOK, Outcomes

LEMMA TypeStep == TypeOK /\ [Next]_vars => TypeOK'
<1> SUFFICES ASSUME TypeOK, [Next]_vars
             PROVE  TypeOK'
  OBVIOUS
<1> USE DEF TypeOK
<1>u. "UNH" \in Tags /\ "UNT" \in Tags
  BY TagsAssumption
<1>1. ASSUME NEW tag \in Tags, SkipOutside(tag)
      PROVE  TypeOK'
  BY <1>1, PullType DEF SkipOutside
<1>2. CASE OpenWindow
  BY <1>2, <1>u, PullType DEF OpenWindow
<1>3. ASSUME NEW tag \in Tags, BufferSegment(tag)
      PROVE  TypeOK'
  BY <1>3, PullType DEF BufferSegment
<1>4. CASE CloseWindow
  <2>1. budget' \in Budgets /\ handed' \in Seq(Tags) /\ At \in Nat
    BY <1>4, <1>u, PullType DEF CloseWindow
  <2>2. Append(buf, At) \in Seq(Nat)
    BY <2>1
  <2>3. windows' \in Seq(Seq(Nat))
    BY <1>4, <2>2 DEF CloseWindow
  <2>4. buf' \in Seq(Nat)
    BY <1>4 DEF CloseWindow
  <2>5. inMessage' \in BOOLEAN
    BY <1>4, Zenon DEF CloseWindow
  <2> QED
    BY <1>4, <2>1, <2>3, <2>4, <2>5 DEF CloseWindow
<1>5. CASE RejectNestedUnh
  <2>1. budget' \in Budgets /\ handed' \in Seq(Tags)
    BY <1>5, <1>u, PullType DEF RejectNestedUnh
  <2>2. buf' \in Seq(Nat)
    BY <1>5 DEF RejectNestedUnh
  <2>3. inMessage' \in BOOLEAN /\ done' \in BOOLEAN
    BY <1>5, Zenon DEF RejectNestedUnh
  <2> QED
    BY <1>5, <2>1, <2>2, <2>3 DEF RejectNestedUnh, Outcomes
<1>6. ASSUME NEW tag \in Tags, InnerRefuses(tag)
      PROVE  TypeOK'
  BY <1>6 DEF InnerRefuses, Outcomes
<1>7. CASE InnerFails
  BY <1>7, Zenon DEF InnerFails, Outcomes
<1>8. CASE EndOfInput
  <2>1. inMessage' \in BOOLEAN
    BY <1>8, Zenon DEF EndOfInput
  <2>2. outcome' \in Outcomes
    BY <1>8 DEF EndOfInput, Outcomes
  <2> QED
    BY <1>8, <2>1, <2>2 DEF EndOfInput
<1>9. CASE UNCHANGED vars
  BY <1>9 DEF vars
<1> QED
  BY <1>1, <1>2, <1>3, <1>4, <1>5, <1>6, <1>7, <1>8, <1>9 DEF Next

(***************************************************************************)
(* Every variable keeps its type: counters stay natural numbers, buffered  *)
(* and returned positions stay positions.                                  *)
(***************************************************************************)
THEOREM TypeCorrect == Spec => []TypeOK
BY TypeInit, TypeStep, PTL DEF Spec

-----------------------------------------------------------------------------
(***************************************************************************)
(* The adapter and the budget each keep a message state of their own.      *)
(* While the iteration runs the two agree, which is what makes the budget  *)
(* bound the buffer.                                                       *)
(***************************************************************************)
Agreement ==
  ~done => /\ budget.inMessage = inMessage
           /\ inMessage => Len(buf) = budget.messageSegments /\ buf # <<>>
           /\ ~inMessage => buf = <<>>

MemoryInv == TypeOK /\ Agreement /\ BufferBounded

(* A step that leaves the adapter running is one of the four that buffer,  *)
(* skip or close.                                                          *)
LEMMA MemoryStep == MemoryInv /\ [Next]_vars => MemoryInv'
<1> SUFFICES ASSUME MemoryInv, [Next]_vars
             PROVE  MemoryInv'
  OBVIOUS
<1>t. TypeOK /\ TypeOK'
  BY TypeStep DEF MemoryInv
<1> USE DEF MemoryInv, Agreement, BufferBounded
<1>u. "UNH" \in Tags /\ "UNT" \in Tags
  BY TagsAssumption
<1>b. /\ budget \in Budgets /\ buf \in Seq(Nat) /\ inMessage \in BOOLEAN
      /\ At \in Nat
  BY <1>t DEF TypeOK, At
<1>1. ASSUME NEW tag \in Tags, SkipOutside(tag)
      PROVE  MemoryInv'
  BY <1>1, <1>t, <1>b DEF SkipOutside, Pull, Account, MessagesAfter,
                          MessageSegmentsAfter
<1>2. CASE OpenWindow
  <2>1. MaxSegmentsPerMessage # None => 1 <= MaxSegmentsPerMessage
    BY <1>2, LimitsAssumption DEF OpenWindow, Pull, AdmitsSegment,
       OverMessageSize, Exceeds, PositionInMessage
  <2>2. Len(buf') = 1 /\ buf' # <<>>
    BY <1>2, <1>b DEF OpenWindow
  <2> QED
    BY <1>2, <1>t, <2>1, <2>2 DEF OpenWindow, Pull, Account, MessagesAfter,
       MessageSegmentsAfter
<1>3. ASSUME NEW tag \in Tags, BufferSegment(tag)
      PROVE  MemoryInv'
  <2>1. budget.inMessage /\ Len(buf) = budget.messageSegments
    BY <1>3 DEF BufferSegment, Pull
  <2>2. /\ Len(buf') = budget.messageSegments + 1
        /\ buf' # <<>>
    BY <1>3, <1>b, <2>1 DEF BufferSegment
  <2>3. MaxSegmentsPerMessage # None =>
          budget.messageSegments + 1 <= MaxSegmentsPerMessage
    BY <1>3, <1>b, <2>1, LimitsAssumption DEF BufferSegment, Pull,
       AdmitsSegment, OverMessageSize, Exceeds, PositionInMessage, Budgets
  <2> QED
    BY <1>3, <1>t, <2>1, <2>2, <2>3 DEF BufferSegment, Pull, Account,
       MessagesAfter, MessageSegmentsAfter
<1>4. CASE CloseWindow
  <2>1. budget'.inMessage = FALSE /\ inMessage' = FALSE
    BY <1>4 DEF CloseWindow, Pull, Account
  <2>2. buf' = <<>> /\ Len(buf') = 0
    BY <1>4 DEF CloseWindow
  <2>3. BufferBounded'
    BY <2>2, LimitsAssumption
  <2>4. Agreement'
    BY <2>1, <2>2
  <2> QED
    BY <1>t, <2>3, <2>4
<1>5. CASE RejectNestedUnh
  BY <1>5, <1>t, LimitsAssumption DEF RejectNestedUnh
<1>6. ASSUME NEW tag \in Tags, InnerRefuses(tag)
      PROVE  MemoryInv'
  BY <1>6, <1>t DEF InnerRefuses
<1>7. CASE InnerFails
  BY <1>7, <1>t DEF InnerFails
<1>8. CASE EndOfInput
  <2>1. done' /\ buf' = buf
    BY <1>8 DEF EndOfInput
  <2> QED
    BY <2>1, <1>t
<1>9. CASE UNCHANGED vars
  BY <1>9, <1>t DEF vars
<1> QED
  BY <1>1, <1>2, <1>3, <1>4, <1>5, <1>6, <1>7, <1>8, <1>9 DEF Next

LEMMA MemoryInvariant == Spec => []MemoryInv
<1>1. Init => MemoryInv
  <2> SUFFICES ASSUME Init
               PROVE  Agreement /\ BufferBounded
    BY TypeInit DEF MemoryInv
  <2>1. Len(buf) = 0
    BY DEF Init
  <2>2. BufferBounded
    BY <2>1, LimitsAssumption DEF BufferBounded
  <2>3. Agreement
    BY DEF Agreement, Init, NewBudget
  <2> QED
    BY <2>2, <2>3
<1> QED
  BY <1>1, MemoryStep, PTL DEF Spec

(***************************************************************************)
(* The memory bound documented for MessageWindows: with                    *)
(* max_segments_per_message set, no more segments than that are buffered.  *)
(***************************************************************************)
THEOREM BufferIsBounded == Spec => []BufferBounded
BY MemoryInvariant, PTL DEF MemoryInv

-----------------------------------------------------------------------------
(* One window was returned for every message the budget counted, and a     *)
(* message that is open was admitted, so it still fits the limit.          *)
CountInv ==
  /\ Len(windows) = budget.messages
  /\ MaxMessages # None =>
       budget.messages + (IF budget.inMessage THEN 1 ELSE 0) <= MaxMessages

LEMMA CountStep ==
  MemoryInv /\ CountInv /\ [Next]_vars => CountInv'
<1> SUFFICES ASSUME MemoryInv, CountInv, [Next]_vars
             PROVE  CountInv'
  OBVIOUS
<1> USE DEF CountInv
<1>b. /\ budget \in Budgets /\ windows \in Seq(Seq(Nat))
      /\ inMessage \in BOOLEAN
      /\ ~done => budget.inMessage = inMessage
  BY DEF MemoryInv, TypeOK, Agreement
<1>1. ASSUME NEW tag \in Tags, SkipOutside(tag)
      PROVE  CountInv'
  BY <1>1, <1>b, LimitsAssumption DEF SkipOutside, Pull, Account, MessagesAfter,
     Budgets
<1>2. CASE OpenWindow
  <2>1. MaxMessages # None => budget.messages + 1 <= MaxMessages
    BY <1>2, <1>b, LimitsAssumption DEF OpenWindow, Pull, AdmitsSegment,
       OverMessages, Exceeds, Budgets
  <2> QED
    BY <1>2, <1>b, <2>1 DEF OpenWindow, Pull, Account, MessagesAfter, Budgets
<1>3. ASSUME NEW tag \in Tags, BufferSegment(tag)
      PROVE  CountInv'
  BY <1>3, <1>b DEF BufferSegment, Pull, Account, MessagesAfter, Budgets
<1>4. CASE CloseWindow
  <2>1. Len(windows') = Len(windows) + 1
    BY <1>4, <1>b DEF CloseWindow
  <2>2. budget.inMessage
    BY <1>4, <1>b DEF CloseWindow, Pull
  <2>3. budget'.messages = budget.messages + 1 /\ ~budget'.inMessage
    BY <1>4, <2>2 DEF CloseWindow, Pull, Account, MessagesAfter
  <2> QED
    BY <1>b, <2>1, <2>2, <2>3, LimitsAssumption DEF Budgets
<1>5. CASE RejectNestedUnh
  <2>1. MaxMessages # None => budget.messages + 1 <= MaxMessages
    BY <1>5, <1>b, LimitsAssumption DEF RejectNestedUnh, Pull, AdmitsSegment,
       OverMessages, Exceeds, Budgets
  <2> QED
    BY <1>5, <1>b, <2>1 DEF RejectNestedUnh, Pull, Account, MessagesAfter,
       Budgets
<1>6. ASSUME NEW tag \in Tags, InnerRefuses(tag)
      PROVE  CountInv'
  BY <1>6 DEF InnerRefuses
<1>7. CASE InnerFails
  BY <1>7 DEF InnerFails
<1>8. CASE EndOfInput
  BY <1>8 DEF EndOfInput
<1>9. CASE UNCHANGED vars
  BY <1>9 DEF vars
<1> QED
  BY <1>1, <1>2, <1>3, <1>4, <1>5, <1>6, <1>7, <1>8, <1>9 DEF Next

(***************************************************************************)
(* max_messages bounds the windows a caller receives, although the limit   *)
(* is enforced by the inner iterator and the windows are built outside it. *)
(***************************************************************************)
THEOREM MessagesAreLimited == Spec => []MessagesWithinLimit
<1>1. Init => CountInv
  BY LimitsAssumption DEF Init, CountInv, NewBudget
<1>2. MemoryInv /\ CountInv => MessagesWithinLimit
  BY LimitsAssumption DEF MemoryInv, TypeOK, Budgets, CountInv,
     MessagesWithinLimit
<1>3. Spec => []CountInv
  BY <1>1, CountStep, MemoryInvariant, PTL DEF Spec
<1> QED
  BY <1>2, <1>3, MemoryInvariant, PTL

-----------------------------------------------------------------------------
(***************************************************************************)
(* Where the segments went.  While a window is open, buf holds the         *)
(* positions from its UNH to the end of the stream so far, none of them    *)
(* but the first a UNH or a UNT; every other message begun is closed.      *)
(***************************************************************************)
OpenWindowInv ==
  ~done /\ inMessage =>
    /\ buf[1] \in 1..Len(handed)
    /\ Len(handed) = buf[1] + Len(buf) - 1
    /\ \A k \in 1..Len(buf) : buf[k] = buf[1] + k - 1
    /\ handed[buf[1]] = "UNH"
    /\ \A k \in buf[1]+1..Len(handed) : handed[k] \notin {"UNH", "UNT"}
    /\ \A w \in 1..Len(windows) : windows[w][1] < buf[1]

ClosedInv ==
  ~done => \A i \in 1..Len(handed) :
             handed[i] = "UNH" /\ ~(inMessage /\ i = buf[1]) => Closed(i)

PositionInv ==
  /\ WindowsAreTheMessages
  /\ OpenWindowInv
  /\ ClosedInv
  /\ CleanEndIsComplete
  /\ ~done => outcome = "open"

(* A segment handed out leaves every message and window of the stream as   *)
(* it was.                                                                 *)
LEMMA StreamGrows ==
  ASSUME TypeOK, NEW tag \in Tags, handed' = Append(handed, tag)
  PROVE  /\ Len(handed') = Len(handed) + 1
         /\ handed'[Len(handed) + 1] = tag
         /\ \A i \in 1..Len(handed) : handed'[i] = handed[i]
         /\ \A i : \A j \in 1..Len(handed) : IsMessage(i, j)' <=> IsMessage(i, j)
         /\ \A i \in 1..Len(handed) : Closed(i) => Closed(i)'
         /\ \A w : IsWindow(w) => IsWindow(w)'
<1>1. /\ Len(handed') = Len(handed) + 1
      /\ handed'[Len(handed) + 1] = tag
      /\ \A i \in 1..Len(handed) : handed'[i] = handed[i]
      /\ Len(handed) \in Nat
  BY DEF TypeOK
<1>2. ASSUME NEW i, NEW j \in 1..Len(handed)
      PROVE  IsMessage(i, j)' <=> IsMessage(i, j)
  <2>1. CASE i \in 1..Len(handed) /\ i < j
    <3>1. /\ handed'[i] = handed[i] /\ handed'[j] = handed[j]
          /\ \A k \in i+1..j-1 : handed'[k] = handed[k]
      BY <1>1, <2>1
    <3> QED
      BY <1>1, <2>1, <3>1 DEF IsMessage
  <2>2. CASE ~(i \in 1..Len(handed) /\ i < j)
    <3>1. ~IsMessage(i, j)
      BY <1>1, <2>2 DEF IsMessage
    <3>2. ~IsMessage(i, j)'
      BY <1>1, <2>2 DEF IsMessage
    <3> QED
      BY <3>1, <3>2
  <2> QED
    BY <2>1, <2>2
<1>3. ASSUME NEW i \in 1..Len(handed), Closed(i)
      PROVE  Closed(i)'
  BY <1>1, <1>2, <1>3 DEF Closed
<1>4. ASSUME NEW w, IsWindow(w)
      PROVE  IsWindow(w)'
  <2>1. w[Len(w)] \in 1..Len(handed)
    BY <1>1, <1>4 DEF IsWindow, IsMessage
  <2> QED
    BY <1>2, <1>4, <2>1 DEF IsWindow
<1> QED
  BY <1>1, <1>2, <1>3, <1>4

(* No message ends at the new position unless the new segment is a UNT and *)
(* the message is the one that is open.                                    *)
LEMMA NewMessage ==
  ASSUME TypeOK, ClosedInv, NEW tag \in Tags, ~done,
         handed' = Append(handed, tag),
         NEW i \in 1..Len(handed'), NEW j, j = Len(handed) + 1, IsMessage(i, j)'
  PROVE  tag = "UNT" /\ inMessage /\ i = buf[1]
<1>1. /\ tag = "UNT"
      /\ i \in 1..Len(handed)
      /\ handed[i] = "UNH"
      /\ \A k \in i+1..Len(handed) : handed[k] \notin {"UNH", "UNT"}
  BY StreamGrows DEF IsMessage, TypeOK
<1>2. ~Closed(i)
  BY <1>1 DEF Closed, IsMessage, TypeOK
<1> QED
  BY <1>1, <1>2 DEF ClosedInv

(* Every message of the longer stream is one of the stream before, or ends *)
(* at the new segment.                                                     *)
LEMMA MessagesKept ==
  ASSUME TypeOK, WindowsAreTheMessages, ClosedInv, ~done, NEW tag \in Tags,
         handed' = Append(handed, tag), windows' = windows,
         ~(tag = "UNT" /\ inMessage)
  PROVE  WindowsAreTheMessages'
<1>1. \A w \in 1..Len(windows') : IsWindow(windows[w])'
  BY StreamGrows DEF WindowsAreTheMessages
<1>2. EveryMessageReturned'
  <2> SUFFICES ASSUME NEW i \in 1..Len(handed'), NEW j \in 1..Len(handed'),
                      IsMessage(i, j)'
               PROVE  \E w \in 1..Len(windows) : windows[w][1] = i
    BY DEF EveryMessageReturned
  <2>1. Len(handed') = Len(handed) + 1 /\ Len(handed) \in Nat
    BY StreamGrows DEF TypeOK
  <2>2. j # Len(handed) + 1
    BY NewMessage
  <2>3. j \in 1..Len(handed) /\ i \in 1..Len(handed)
    BY <2>1, <2>2 DEF IsMessage
  <2>4. IsMessage(i, j)
    BY <2>3, StreamGrows
  <2> QED
    BY <2>3, <2>4 DEF WindowsAreTheMessages, EveryMessageReturned
<1> QED
  BY <1>1, <1>2 DEF WindowsAreTheMessages

LEMMA PositionStep ==
  MemoryInv /\ PositionInv /\ [Next]_vars => PositionInv'
<1> SUFFICES ASSUME MemoryInv, PositionInv, [Next]_vars
             PROVE  PositionInv'
  OBVIOUS
<1>t. TypeOK /\ TypeOK'
  BY TypeStep DEF MemoryInv
<1>u. "UNH" \in Tags /\ "UNT" \in Tags
  BY TagsAssumption
<1>b. /\ buf \in Seq(Nat) /\ Len(handed) \in Nat /\ handed \in Seq(Tags)
      /\ windows \in Seq(Seq(Nat))
  BY <1>t DEF TypeOK
<1>w. \A w \in 1..Len(windows) : windows[w][1] \in 1..Len(handed)
  BY DEF PositionInv, WindowsAreTheMessages, IsWindow, IsMessage
<1>1. ASSUME NEW tag \in Tags, SkipOutside(tag)
      PROVE  PositionInv'
  <2>1. /\ ~done /\ ~inMessage /\ tag # "UNH"
        /\ handed' = Append(handed, tag)
        /\ UNCHANGED <<buf, inMessage, done, windows, outcome>>
    BY <1>1 DEF SkipOutside, Pull
  <2>2. WindowsAreTheMessages'
    BY <1>t, <2>1, MessagesKept DEF PositionInv
  <2>3. ClosedInv'
    BY <1>t, <1>b, <2>1, StreamGrows DEF PositionInv, ClosedInv
  <2> QED
    BY <2>1, <2>2, <2>3 DEF PositionInv, OpenWindowInv, CleanEndIsComplete
<1>2. CASE OpenWindow
  <2>1. /\ ~done /\ ~inMessage
        /\ handed' = Append(handed, "UNH")
        /\ buf' = <<Len(handed) + 1>> /\ inMessage'
        /\ UNCHANGED <<done, windows, outcome>>
    BY <1>2 DEF OpenWindow, Pull, At
  <2>2. WindowsAreTheMessages'
    BY <1>t, <1>u, <2>1, MessagesKept DEF PositionInv
  <2>3. buf'[1] = Len(handed) + 1 /\ Len(buf') = 1
    BY <2>1
  <2>4. ClosedInv'
    BY <1>t, <1>u, <1>b, <2>1, <2>3, StreamGrows DEF PositionInv, ClosedInv
  <2>5. OpenWindowInv'
    BY <1>t, <1>u, <1>b, <1>w, <2>1, <2>3, StreamGrows DEF OpenWindowInv
  <2> QED
    BY <2>1, <2>2, <2>4, <2>5 DEF PositionInv, CleanEndIsComplete
<1>3. ASSUME NEW tag \in Tags, BufferSegment(tag)
      PROVE  PositionInv'
  <2>1. /\ ~done /\ inMessage /\ tag \notin {"UNH", "UNT"}
        /\ handed' = Append(handed, tag)
        /\ buf' = Append(buf, Len(handed) + 1)
        /\ UNCHANGED <<inMessage, done, windows, outcome>>
    BY <1>3 DEF BufferSegment, Pull, At
  <2>2. WindowsAreTheMessages'
    BY <1>t, <2>1, MessagesKept DEF PositionInv
  <2>3. /\ Len(buf) >= 1
        /\ Len(buf') = Len(buf) + 1
        /\ \A k \in 1..Len(buf) : buf'[k] = buf[k]
        /\ buf'[Len(buf) + 1] = Len(handed) + 1
    BY <1>b, <2>1 DEF MemoryInv, Agreement
  <2>g. /\ Len(handed') = Len(handed) + 1
        /\ handed'[Len(handed) + 1] = tag
        /\ \A i \in 1..Len(handed) : handed'[i] = handed[i]
        /\ \A i \in 1..Len(handed) : Closed(i) => Closed(i)'
    BY <1>t, <2>1, StreamGrows
  <2>p. PICK first, n : first = buf[1] /\ n = Len(buf)
    OBVIOUS
  <2>o. /\ first \in 1..Len(handed) /\ n \in Nat /\ n >= 1
        /\ Len(handed) = first + n - 1
        /\ \A k \in 1..n : buf[k] = first + k - 1
        /\ handed[first] = "UNH"
        /\ \A k \in first+1..Len(handed) : handed[k] \notin {"UNH", "UNT"}
        /\ \A w \in 1..Len(windows) : windows[w][1] < first
    BY <1>b, <2>1, <2>3, <2>p DEF PositionInv, OpenWindowInv
  <2>n. buf'[1] = first /\ Len(buf') = n + 1 /\ buf'[n + 1] = first + n
    <3>1. Len(handed) + 1 = first + n
      BY <1>b, <2>o
    <3>2. 1 \in 1..Len(buf)
      BY <2>p, <2>o
    <3> QED
      BY <2>3, <2>p, <3>1, <3>2
  <2>4. OpenWindowInv'
    <3>1. ASSUME NEW k \in 1..n+1
          PROVE  buf'[k] = first + k - 1
      <4>1. CASE k = n + 1
        BY <2>n, <2>o, <4>1
      <4>2. CASE k \in 1..n
        BY <2>3, <2>p, <2>o, <4>2
      <4> QED
        BY <2>o, <4>1, <4>2
    <3>2. handed'[first] = "UNH"
      BY <2>g, <2>o
    <3>3. ASSUME NEW k \in first+1..Len(handed) + 1
          PROVE  handed'[k] \notin {"UNH", "UNT"}
      <4>1. CASE k = Len(handed) + 1
        BY <2>1, <2>g, <4>1
      <4>2. CASE k # Len(handed) + 1
        <5>1. first \in Nat /\ first >= 1
          BY <2>o
        <5>2. Len(handed) \in Nat
          BY <1>b
        <5>3. k \in 1..Len(handed) /\ k \in first+1..Len(handed)
          BY <4>2, <5>1, <5>2
        <5> QED
          BY <2>g, <2>o, <5>3
      <4> QED
        BY <4>1, <4>2
    <3>4. Len(handed') = first + (n + 1) - 1 /\ first \in 1..Len(handed')
      BY <1>b, <2>g, <2>o
    <3> QED
      BY <2>1, <2>g, <2>n, <2>o, <3>1, <3>2, <3>3, <3>4 DEF OpenWindowInv
  <2>5. ClosedInv'
    <3> SUFFICES ASSUME NEW i \in 1..Len(handed'),
                        handed'[i] = "UNH", i # buf[1]
                 PROVE  Closed(i)'
      BY <2>1, <2>n, <2>p DEF ClosedInv
    <3>1. i \in 1..Len(handed) /\ handed[i] = "UNH"
      BY <1>b, <2>1, <2>g
    <3> QED
      BY <2>1, <2>g, <3>1 DEF PositionInv, ClosedInv
  <2> QED
    BY <2>1, <2>2, <2>4, <2>5 DEF PositionInv, CleanEndIsComplete
<1>4. CASE CloseWindow
  <2>1. /\ ~done /\ inMessage
        /\ handed' = Append(handed, "UNT")
        /\ windows' = Append(windows, Append(buf, Len(handed) + 1))
        /\ buf' = <<>> /\ inMessage' = FALSE
        /\ UNCHANGED <<done, outcome>>
    BY <1>4 DEF CloseWindow, Pull, At
  <2>p. PICK new, first, last : /\ new = Append(buf, Len(handed) + 1)
                                /\ first = buf[1]
                                /\ last = Len(handed) + 1
    OBVIOUS
  <2>g. /\ Len(handed') = last /\ handed'[last] = "UNT"
        /\ \A i \in 1..Len(handed) : handed'[i] = handed[i]
        /\ \A i : \A j \in 1..Len(handed) : IsMessage(i, j)' <=> IsMessage(i, j)
        /\ \A i \in 1..Len(handed) : Closed(i) => Closed(i)'
        /\ \A w : IsWindow(w) => IsWindow(w)'
    BY <1>t, <1>u, <2>1, <2>p, StreamGrows
  <2>2. /\ Len(buf) \in Nat /\ Len(buf) >= 1
        /\ Len(new) = Len(buf) + 1
        /\ \A k \in 1..Len(buf) : new[k] = buf[k]
        /\ new[Len(buf) + 1] = last
    BY <1>b, <2>1, <2>p DEF MemoryInv, Agreement
  <2>3. /\ first \in 1..Len(handed)
        /\ Len(handed) = first + Len(buf) - 1
        /\ \A k \in 1..Len(buf) : buf[k] = first + k - 1
        /\ handed[first] = "UNH"
        /\ \A k \in first+1..Len(handed) : handed[k] \notin {"UNH", "UNT"}
        /\ \A w \in 1..Len(windows) : windows[w][1] < first
    BY <2>1, <2>p DEF PositionInv, OpenWindowInv
  <2>4. IsMessage(first, last)'
    <3>1. first \in 1..Len(handed') /\ last \in first+1..Len(handed')
      <4>1. Len(handed) \in Nat
        BY <1>b
      <4>2. last = Len(handed) + 1 /\ Len(handed') = Len(handed) + 1
        BY <2>g, <2>p
      <4>3. first \in 1..Len(handed)
        BY <2>3
      <4> QED
        BY <4>1, <4>2, <4>3
    <3>2. ASSUME NEW k \in first+1..last-1
          PROVE  handed'[k] \notin {"UNH", "UNT"}
      <4>1. k \in 1..Len(handed) /\ k \in first+1..Len(handed)
        BY <1>b, <2>p, <2>3
      <4> QED
        BY <2>g, <2>3, <4>1
    <3> QED
      BY <2>g, <2>3, <3>1, <3>2 DEF IsMessage
  <2>5. new # <<>> /\ new[1] = first /\ new[Len(new)] = last
    <3>1. new \in Seq(Nat) /\ Len(new) # 0
      BY <1>b, <2>p, <2>2
    <3>2. 1 \in 1..Len(buf)
      BY <2>2
    <3> QED
      BY <3>1, <3>2, <2>2, <2>p
  <2>6. IsWindow(new)'
    <3>1. \A k \in 1..Len(new) : new[k] = first + k - 1
      <4> SUFFICES ASSUME NEW k \in 1..Len(new)
                   PROVE  new[k] = first + k - 1
        OBVIOUS
      <4>1. CASE k \in 1..Len(buf)
        BY <2>2, <2>3, <4>1
      <4>2. CASE k = Len(buf) + 1
        BY <1>b, <2>2, <2>3, <2>p, <4>2
      <4> QED
        BY <2>2, <4>1, <4>2
    <3> QED
      BY <2>4, <2>5, <3>1 DEF IsWindow
  <2>7. /\ Len(windows') = Len(windows) + 1 /\ Len(windows) \in Nat
        /\ windows'[Len(windows) + 1] = new
        /\ \A w \in 1..Len(windows) : windows'[w] = windows[w]
    BY <1>b, <2>1, <2>p
  <2>8. \A w \in 1..Len(windows') : IsWindow(windows[w])'
    <3> SUFFICES ASSUME NEW w \in 1..Len(windows')
                 PROVE  IsWindow(windows[w])'
      OBVIOUS
    <3>1. CASE w = Len(windows) + 1
      <4>1. windows'[w] = new
        BY <2>7, <3>1
      <4> QED
        BY <2>6, <4>1 DEF IsWindow
    <3>2. CASE w \in 1..Len(windows)
      <4>1. PICK old : old = windows[w]
        OBVIOUS
      <4>2. IsWindow(old)'
        BY <2>g, <3>2, <4>1 DEF PositionInv, WindowsAreTheMessages
      <4>3. windows'[w] = old
        BY <2>7, <3>2, <4>1
      <4> QED
        BY <4>2, <4>3 DEF IsWindow
    <3> QED
      BY <2>7, <3>1, <3>2
  <2>9. \A v, w \in 1..Len(windows') : v < w => windows'[v][1] < windows'[w][1]
    <3> SUFFICES ASSUME NEW v \in 1..Len(windows'), NEW w \in 1..Len(windows'),
                        v < w
                 PROVE  windows'[v][1] < windows'[w][1]
      OBVIOUS
    <3>1. v \in 1..Len(windows) /\ windows'[v] = windows[v]
      BY <2>7
    <3>2. CASE w = Len(windows) + 1
      BY <2>3, <2>5, <2>7, <3>1, <3>2
    <3>3. CASE w \in 1..Len(windows)
      BY <2>7, <3>1, <3>3 DEF PositionInv, WindowsAreTheMessages
    <3> QED
      BY <2>7, <3>2, <3>3
  <2>10. EveryMessageReturned'
    <3> SUFFICES ASSUME NEW i \in 1..Len(handed'), NEW j \in 1..Len(handed'),
                        IsMessage(i, j)'
                 PROVE  \E w \in 1..Len(windows') : windows'[w][1] = i
      BY DEF EveryMessageReturned
    <3>1. CASE j = last
      <4>1. i = first
        BY <1>t, <1>u, <2>1, <2>p, <3>1, NewMessage DEF PositionInv
      <4> QED
        BY <2>5, <2>7, <4>1
    <3>2. CASE j # last
      <4>1. j \in 1..Len(handed) /\ i \in 1..Len(handed)
        BY <1>b, <2>g, <2>p, <3>2 DEF IsMessage
      <4>2. IsMessage(i, j)
        BY <2>g, <4>1
      <4>3. \E w \in 1..Len(windows) : windows[w][1] = i
        BY <4>1, <4>2 DEF PositionInv, WindowsAreTheMessages,
                          EveryMessageReturned
      <4> QED
        BY <2>7, <4>3
    <3> QED
      BY <3>1, <3>2
  <2>11. ClosedInv'
    <3> SUFFICES ASSUME NEW i \in 1..Len(handed'), handed'[i] = "UNH"
                 PROVE  Closed(i)'
      BY <2>1 DEF ClosedInv
    <3>1. i \in 1..Len(handed) /\ handed[i] = "UNH"
      BY <1>b, <2>g, <2>p
    <3>2. CASE i = first
      BY <1>b, <2>g, <2>p, <2>4, <3>2 DEF Closed
    <3>3. CASE i # first
      BY <2>1, <2>g, <2>p, <3>1, <3>3 DEF PositionInv, ClosedInv
    <3> QED
      BY <3>2, <3>3
  <2>12. WindowsAreTheMessages'
    BY <2>8, <2>9, <2>10 DEF WindowsAreTheMessages
  <2> QED
    BY <2>1, <2>11, <2>12 DEF PositionInv, OpenWindowInv, CleanEndIsComplete
<1>5. CASE RejectNestedUnh
  <2>1. /\ ~done /\ done' /\ handed' = Append(handed, "UNH")
        /\ windows' = windows
        /\ outcome' = "InvalidSegmentForMessage"
    BY <1>5 DEF RejectNestedUnh, Pull
  <2>2. WindowsAreTheMessages'
    BY <1>t, <1>u, <2>1, MessagesKept DEF PositionInv
  <2> QED
    BY <2>1, <2>2 DEF PositionInv, OpenWindowInv, ClosedInv, CleanEndIsComplete
<1>6. ASSUME NEW tag \in Tags, InnerRefuses(tag)
      PROVE  PositionInv'
  BY <1>6 DEF InnerRefuses, PositionInv, WindowsAreTheMessages, IsWindow,
     IsMessage, EveryMessageReturned, OpenWindowInv, ClosedInv,
     CleanEndIsComplete
<1>7. CASE InnerFails
  BY <1>7 DEF InnerFails, PositionInv, WindowsAreTheMessages, IsWindow,
     IsMessage, EveryMessageReturned, OpenWindowInv, ClosedInv,
     CleanEndIsComplete
<1>8. CASE EndOfInput
  <2>1. /\ ~done /\ done' /\ UNCHANGED <<handed, buf, windows>>
        /\ outcome' = "end" => ~(inMessage /\ buf # <<>>)
    BY <1>8 DEF EndOfInput
  <2>2. outcome' = "end" => ~inMessage
    BY <2>1 DEF MemoryInv, Agreement
  <2>3. CleanEndIsComplete'
    BY <2>1, <2>2 DEF PositionInv, ClosedInv, CleanEndIsComplete, Closed,
       IsMessage
  <2>4. WindowsAreTheMessages'
    BY <2>1 DEF PositionInv, WindowsAreTheMessages, IsWindow, IsMessage,
       EveryMessageReturned
  <2> QED
    BY <2>1, <2>3, <2>4 DEF PositionInv, OpenWindowInv, ClosedInv
<1>9. CASE UNCHANGED vars
  BY <1>9 DEF vars, PositionInv, WindowsAreTheMessages, IsWindow, IsMessage,
     EveryMessageReturned, OpenWindowInv, ClosedInv, CleanEndIsComplete, Closed
<1> QED
  BY <1>1, <1>2, <1>3, <1>4, <1>5, <1>6, <1>7, <1>8, <1>9 DEF Next

LEMMA PositionInvariant == Spec => []PositionInv
<1>1. Init => PositionInv
  <2> SUFFICES ASSUME Init
               PROVE  PositionInv
    OBVIOUS
  <2>1. /\ handed = <<>> /\ Len(handed) = 0 /\ windows = <<>> /\ Len(windows) = 0
        /\ ~inMessage /\ outcome = "open"
    BY DEF Init
  <2> QED
    BY <2>1 DEF PositionInv, WindowsAreTheMessages, EveryMessageReturned,
       OpenWindowInv, ClosedInv, CleanEndIsComplete
<1> QED
  BY <1>1, PositionStep, MemoryInvariant, PTL DEF Spec

(***************************************************************************)
(* The windows a caller receives are the messages of the stream, each      *)
(* whole, each once and in order, whatever the tags and the limits.        *)
(***************************************************************************)
THEOREM WindowsAreWhole == Spec => []WindowsAreTheMessages
BY PositionInvariant, PTL DEF PositionInv

(***************************************************************************)
(* Both limits at once: what is buffered and what is returned stay within  *)
(* max_segments_per_message and max_messages.                              *)
(***************************************************************************)
THEOREM LimitsAreKept == Spec => []WithinLimits
BY BufferIsBounded, MessagesAreLimited, PTL DEF WithinLimits

(***************************************************************************)
(* An iteration that ends without an error saw no unfinished message.      *)
(***************************************************************************)
THEOREM CleanEndIsSound == Spec => []CleanEndIsComplete
BY PositionInvariant, PTL DEF PositionInv
=============================================================================
