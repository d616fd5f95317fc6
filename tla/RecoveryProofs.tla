---------------------------- MODULE RecoveryProofs ----------------------------
(***************************************************************************)
(* What the recovering scan promises, for every input and every limit: its *)
(* items tile the input, its memory stays within the limits, it ends, and  *)
(* up to its first fault it yields what the strict parser yields.          *)
(***************************************************************************)
EXTENDS RecoveryPaths, SyntaxLemmas, FiniteSetTheorems

LastItem == items[Len(items)]

(* How far the items reach. *)
End == IF items = <<>> THEN PrologueEnd(input) ELSE LastItem.to

-----------------------------------------------------------------------------
(* The parts of the inductive invariant. *)

ScanTypes ==
  /\ input \in Seq(Bytes)
  /\ \E S : items \in Seq(S)
  /\ \A i \in 1..Len(items) :
       /\ items[i].is \in {"segment", "fault"}
       /\ items[i].from \in Nat /\ items[i].to \in Nat
       /\ items[i].terminal \in BOOLEAN
  /\ budget \in Budgets /\ cursor \in Nat /\ faults \in Nat /\ done \in BOOLEAN

(* The counters count the items, and a scan that goes on has exceeded no   *)
(* limit.                                                                  *)
ScanCounts ==
  /\ budget.segments = Len(items)
  /\ faults = Cardinality(FaultsAt)
  /\ ~done => (MaxSegments # None => Len(items) <= MaxSegments)
  /\ ~done => faults <= MaxFaults

(* The parser stands where the items end. *)
ScanPlace ==
  ~done /\ pending = <<>> =>
    /\ End \in 0..Len(input) /\ cursor <= End
    /\ parser = End
    /\ items # <<>> =>
         cursor = End /\ LastItem.from < LastItem.to /\ ~LastItem.terminal

(* The fault that is pending: the UNA's, before any item, or that of the   *)
(* segment whose end the last fault did not find.                          *)
UnaPending ==
  \E from \in 0..PrologueEnd(input) :
    pending = <<FaultItem(from, PrologueEnd(input), "UNA",
                          Error("InvalidUna", NoOffset), TRUE)>>

OverlongPending ==
  /\ LastItem.is = "fault" /\ ~LastItem.terminal
  /\ LastItem.to = Lesser(LastItem.from + MaxSegmentBytes + 1, Len(input))
  /\ pending = <<FaultItem(LastItem.from, Len(input), pending[1].tag,
                           Error("SegmentTooLong", LastItem.from), TRUE)>>

ScanPending ==
  /\ pending # <<>> => ~done
  /\ pending # <<>> /\ items = <<>> => UnaPending
  /\ pending # <<>> /\ items # <<>> => OverlongPending

ScanInv ==
  /\ ScanTypes /\ ScanCounts /\ ScanPlace /\ ScanPending
  /\ ItemsTileInput /\ ScanBounded

-----------------------------------------------------------------------------
(* The prologue is part of the input. *)
LEMMA PrologueWithin ==
  ASSUME NEW s \in Seq(Bytes)
  PROVE  /\ PrologueLen(s) \in Nat /\ PrologueEnd(s) \in Nat
         /\ PrologueLen(s) <= PrologueEnd(s)
         /\ PrologueEnd(s) <= Len(s)
<1> DEFINE first == IF StartsWithBom(s, 0, Len(s)) THEN BomLen ELSE 0
<1>1. first \in Nat /\ first <= Len(s) /\ Len(s) \in Nat
  BY SyntaxAssumption DEF StartsWithBom
<1>2. PrologueLen(s) \in first .. Len(s)
  <2>1. SkipWs(s, first, Len(s)) \in first .. Len(s)
    <3> HIDE DEF first
    <3> QED BY <1>1, SkipWsBetween
  <2> QED BY <2>1 DEF PrologueLen
<1> HIDE DEF first
<1>3. PrologueLen(s) \in Nat /\ PrologueLen(s) <= Len(s)
  BY <1>1, <1>2
<1> QED BY <1>1, <1>3, SyntaxAssumption DEF PrologueEnd, HasUna

(* The counters of a budget stay counters, whatever tag is counted. *)
LEMMA AccountTypes ==
  ASSUME NEW b \in Budgets, NEW tag
  PROVE  Account(b, tag) \in Budgets /\ Account(b, tag).segments = b.segments + 1
BY DEF Budgets, Account, MessagesAfter, MessageSegmentsAfter

(* An item that exceeds no limit leaves room for itself. *)
LEMMA ExceedsNothing ==
  ASSUME NEW tag, NEW start, NEW end \in Nat, NEW fault,
         budget \in Budgets, faults \in Nat,
         Exceeded(tag, start, end, fault) = NoError
  PROVE  /\ MaxInputBytes # None => end <= MaxInputBytes
         /\ MaxSegments # None => budget.segments + 1 <= MaxSegments
         /\ fault => faults < MaxFaults
<1>1. \A at : Error("max_faults", at) # NoError /\ BytesLimit # NoError
  BY DEF Error, NoError, BytesLimit
<1>2. \A at : Error(RefusedLimit(budget, tag), at) # NoError
  BY DEF Error, NoError, RefusedLimit
<1>3. /\ AdmitsBytes(end) /\ AdmitsSegment(budget, tag)
      /\ ~(fault /\ faults >= MaxFaults)
  BY <1>1, <1>2 DEF Exceeded
<1> QED
  BY <1>3, LimitsAssumption, MaxFaultsAssumption
  DEF AdmitsBytes, AdmitsSegment, OverSegments, Exceeds, Budgets

(* The limit an item exceeds is a limit. *)
LEMMA ExceedsALimit ==
  ASSUME NEW tag, NEW start, NEW end, NEW fault,
         Exceeded(tag, start, end, fault) # NoError
  PROVE  Exceeded(tag, start, end, fault).kind \in LimitExceeded
BY DEF Exceeded, BytesLimit, Error, RefusedLimit, LimitExceeded

(* What a yielded item is, and what of the limits it has passed. *)
IsItem(item) ==
  /\ item.is \in {"segment", "fault"}
  /\ item.from \in Nat /\ item.to \in Nat
  /\ item.terminal \in BOOLEAN

WithinLimits(item) ==
  /\ MaxInputBytes # None =>
       item.to <= MaxInputBytes \/ item.error.kind \in LimitExceeded
  /\ ~item.terminal =>
       /\ MaxSegments # None => budget.segments + 1 <= MaxSegments
       /\ item.is = "fault" => faults < MaxFaults

(* An overlong segment's item reaches the byte that proves it overlong. *)
ReachesProof(item, error) ==
  /\ error.kind = "SegmentTooLong"
  /\ error.at + MaxSegmentBytes + 1 <= item.to

(* What emit_fault yields of a fault: it lies at the same place and is no  *)
(* less terminal; it is cut short to the byte that proves it too long, and *)
(* no further; and it goes on only if it exceeds no limit.                 *)
SettledAs(item, from, to, error, terminal) ==
  /\ IsItem(item) /\ WithinLimits(item)
  /\ item.is = "fault" /\ item.from = from
  /\ terminal => item.terminal
  /\ item.to = to \/ ReachesProof(item, error)

LEMMA SettledFault ==
  ASSUME NEW from \in Nat, NEW to \in Nat, NEW tag, NEW error,
         NEW terminal \in BOOLEAN,
         error.kind = "SegmentTooLong" => error.at \in Nat,
         budget \in Budgets, faults \in Nat,
         error.kind \in LimitExceeded => terminal
  PROVE  SettledAs(Settled(FaultItem(from, to, tag, error, terminal)),
                   from, to, error, terminal)
<1> DEFINE fault == FaultItem(from, to, tag, error, terminal)
           read  == ReadEnd(fault)
           item  == Settled(fault)
           limit == IF error.kind \in LimitExceeded THEN NoError
                    ELSE Exceeded(tag, from, read, TRUE)
           cut   == Lesser(to, MaxInputBytes)
<1> SUFFICES
      /\ item.is = "fault" /\ item.from = from
      /\ item.to \in Nat
      /\ item.terminal \in BOOLEAN /\ (terminal => item.terminal)
      /\ item.to = to \/ (error.kind = "SegmentTooLong"
                           /\ error.at + MaxSegmentBytes + 1 <= item.to)
      /\ MaxInputBytes # None =>
           item.to <= MaxInputBytes \/ item.error.kind \in LimitExceeded
      /\ ~item.terminal =>
           /\ MaxSegments # None => budget.segments + 1 <= MaxSegments
           /\ faults < MaxFaults
  BY DEF SettledAs, IsItem, WithinLimits, ReachesProof
<1>1. fault = [is |-> "fault", from |-> from, to |-> to, tag |-> tag,
               error |-> error, terminal |-> terminal]
  BY DEF FaultItem
<1>2. /\ read \in Int /\ read <= to
      /\ error.kind # "SegmentTooLong" => read = to
      /\ error.kind = "SegmentTooLong" =>
           read = Lesser(to, error.at + MaxSegmentBytes + 1)
  BY <1>1, SyntaxAssumption DEF ReadEnd, Lesser
<1>3. item = IF limit # NoError
             THEN [fault EXCEPT !.error = limit, !.terminal = TRUE]
             ELSE IF read < to /\ MaxInputBytes # None
             THEN [fault EXCEPT !.to = cut]
             ELSE fault
  <2>1. /\ fault.error = error /\ fault.tag = tag /\ fault.from = from
        /\ fault.to = to
    BY <1>1
  <2> HIDE DEF fault
  <2> QED BY <2>1 DEF Settled
<1> HIDE DEF read
<1>4. limit = NoError /\ error.kind \notin LimitExceeded =>
        /\ MaxInputBytes # None => read <= MaxInputBytes
        /\ MaxSegments # None => budget.segments + 1 <= MaxSegments
        /\ faults < MaxFaults
  <2>1. read \in Nat
    BY <1>2, SyntaxAssumption DEF Lesser
  <2> SUFFICES ASSUME Exceeded(tag, from, read, TRUE) = NoError
               PROVE  /\ MaxInputBytes # None => read <= MaxInputBytes
                      /\ MaxSegments # None => budget.segments + 1 <= MaxSegments
                      /\ faults < MaxFaults
    BY Zenon
  <2> QED BY <2>1, ExceedsNothing, Zenon
<1>5. limit # NoError => limit.kind \in LimitExceeded
  BY ExceedsALimit
<1> HIDE DEF limit, item
<1>6. CASE limit # NoError
  <2>1. item.error = limit /\ item.is = "fault" /\ item.from = from
        /\ item.to = to /\ item.terminal = TRUE
    <3>1. item = [fault EXCEPT !.error = limit, !.terminal = TRUE]
      BY <1>3, <1>6
    <3> QED BY <1>1, <3>1
  <2> QED BY <1>5, <1>6, <2>1
<1>7. CASE limit = NoError /\ read < to /\ MaxInputBytes # None
  <2>1. item.error = error /\ item.is = "fault" /\ item.from = from
        /\ item.to = cut /\ item.terminal = terminal
    <3>1. item = [fault EXCEPT !.to = cut]
      BY <1>3, <1>7
    <3> QED BY <1>1, <3>1
  <2>2. error.kind = "SegmentTooLong" /\ read = error.at + MaxSegmentBytes + 1
    BY <1>2, <1>7, SyntaxAssumption DEF Lesser
  <2>3. error.kind \notin LimitExceeded
    BY <2>2 DEF LimitExceeded
  <2>4. read <= MaxInputBytes /\ MaxInputBytes \in Nat
    BY <1>4, <1>7, <2>3, LimitsAssumption
  <2>5. cut \in Nat /\ cut <= MaxInputBytes /\ read <= cut
    BY <1>2, <1>7, <2>4 DEF Lesser
  <2> HIDE DEF cut
  <2> QED BY <1>4, <1>7, <2>1, <2>2, <2>3, <2>5
<1>8. CASE limit = NoError /\ ~(read < to /\ MaxInputBytes # None)
  <2>1. item.error = error /\ item.is = "fault" /\ item.from = from
        /\ item.to = to /\ item.terminal = terminal
    BY <1>1, <1>3, <1>8
  <2>2. MaxInputBytes # None => read = to
    BY <1>2, <1>8
  <2> QED BY <1>4, <1>8, <2>1, <2>2
<1>9. limit # NoError \/ limit = NoError
  OBVIOUS
<1> QED BY <1>6, <1>7, <1>8

-----------------------------------------------------------------------------
(***************************************************************************)
(* One more item.  It follows on from the items before it, or is the fault *)
(* of the overlong segment that the last of them is the first fault of.    *)
(***************************************************************************)
FollowsOn(item) ==
  /\ pending # <<>> => items = <<>>
  /\ items = <<>> => IsBlank(PrologueEnd(input), item.from)
  /\ items # <<>> =>
       /\ LastItem.from < LastItem.to /\ LastItem.to <= item.from
       /\ IsBlank(LastItem.to, item.from)

ReportsAgain(item) ==
  /\ items # <<>> /\ item.is = "fault" /\ item.from = LastItem.from
  /\ LastItem.is = "fault" /\ ~LastItem.terminal /\ LastItem.to <= item.to

(* The items after one more: those before it are as they were. *)
LEMMA OneMore ==
  ASSUME ScanInv, NEW item, IsItem(item), items' = Append(items, item)
  PROVE  /\ \E S : items' \in Seq(S)
         /\ Len(items) \in Nat /\ Len(items') = Len(items) + 1
         /\ items'[Len(items)+1] = item
         /\ \A i \in 1..Len(items) : items'[i] = items[i]
         /\ items' # <<>>
<1>1. PICK S : items \in Seq(S)
  BY DEF ScanInv, ScanTypes
<1>2. items \in Seq(S \cup {item}) /\ item \in S \cup {item}
  BY <1>1, SeqMonotonic
<1>3. items' \in Seq(S \cup {item})
  BY <1>2, AppendProperties
<1>4. /\ Len(items) \in Nat /\ Len(items') = Len(items) + 1
      /\ items'[Len(items)+1] = item
      /\ \A i \in 1..Len(items) : items'[i] = items[i]
  BY <1>2, AppendProperties, LenProperties
<1>5. items' # <<>>
  BY <1>4
<1> QED BY <1>3, <1>4, <1>5

LEMMA YieldCounts ==
  ASSUME ScanInv, ~done, NEW item, NEW next, NEW rest, Yield(item, next, rest),
         IsItem(item), WithinLimits(item)
  PROVE  ScanTypes' /\ ScanCounts' /\ ScanBounded'
<1> DEFINE n == Len(items)
<1>1. /\ \E S : items' \in Seq(S)
      /\ n \in Nat /\ Len(items') = n + 1 /\ items'[n+1] = item
      /\ \A i \in 1..n : items'[i] = items[i]
  BY OneMore DEF Yield
<1>2. /\ ScanTypes /\ ScanCounts /\ ScanBounded
      /\ input' = input /\ done' = item.terminal
      /\ budget' = Account(budget, item.tag)
      /\ cursor' = IF item.to > cursor THEN item.to ELSE cursor
      /\ faults' = faults + (IF item.is = "fault" THEN 1 ELSE 0)
  BY DEF ScanInv, Yield
<1>3. budget' \in Budgets /\ budget'.segments = budget.segments + 1
  BY <1>2, AccountTypes DEF ScanTypes
<1>4. \A i \in 1..n+1 : i \in 1..n \/ i = n+1
  BY <1>1
<1>5. ScanTypes'
  <2>1. \A i \in 1..n+1 : IsItem(items'[i])
    BY <1>1, <1>2, <1>4 DEF ScanTypes, IsItem
  <2>2. \A i \in 1..Len(items') :
          /\ items'[i].is \in {"segment", "fault"}
          /\ items'[i].from \in Nat /\ items'[i].to \in Nat
          /\ items'[i].terminal \in BOOLEAN
    BY <1>1, <2>1 DEF IsItem
  <2>3. cursor' \in Nat /\ faults' \in Nat /\ done' \in BOOLEAN
    BY <1>2 DEF ScanTypes, IsItem
  <2> QED BY <1>1, <1>2, <1>3, <2>2, <2>3 DEF ScanTypes
<1>6. IsFiniteSet(FaultsAt) /\ FaultsAt \subseteq 1..n
  <2>1. IsFiniteSet(1..n)
    BY <1>1, FS_Interval
  <2> QED BY <2>1, FS_Subset DEF FaultsAt
<1>7. faults' = Cardinality(FaultsAt')
  <2>1. faults = Cardinality(FaultsAt) /\ faults \in Nat
    BY <1>2 DEF ScanCounts, ScanTypes
  <2>2. FaultsAt' = {i \in 1..n+1 : items'[i].is = "fault"}
    BY <1>1 DEF FaultsAt
  <2>3. CASE item.is = "fault"
    <3>1. FaultsAt' = FaultsAt \cup {n+1} /\ n+1 \notin FaultsAt
      BY <1>1, <1>4, <1>6, <2>2, <2>3 DEF FaultsAt
    <3>2. Cardinality(FaultsAt \cup {n+1}) = Cardinality(FaultsAt) + 1
      BY <1>6, <3>1, FS_AddElement
    <3> QED BY <1>2, <2>1, <2>3, <3>1, <3>2
  <2>4. CASE item.is # "fault"
    <3>1. FaultsAt' = FaultsAt
      BY <1>1, <1>4, <1>6, <2>2, <2>4 DEF FaultsAt
    <3> QED BY <1>2, <2>1, <2>4, <3>1
  <2> QED BY <2>3, <2>4
<1>8. ScanCounts'
  <2>1. budget.segments = n
    BY <1>2 DEF ScanCounts
  <2>2. budget'.segments = Len(items')
    BY <1>1, <1>3, <2>1
  <2>3. ~done' => (MaxSegments # None => Len(items') <= MaxSegments)
    BY <1>1, <1>2, <2>1 DEF WithinLimits
  <2>4. ~done' => faults' <= MaxFaults
    <3>1. ~item.terminal => (item.is = "fault" => faults < MaxFaults)
      BY DEF WithinLimits
    <3>2. faults \in Nat /\ faults <= MaxFaults
      BY <1>2 DEF ScanTypes, ScanCounts
    <3> QED BY <1>2, <3>1, <3>2, MaxFaultsAssumption
  <2> QED BY <1>7, <2>2, <2>3, <2>4 DEF ScanCounts
<1>9. ScanBounded'
  <2>1. MaxSegments # None => Len(items') <= MaxSegments + 1
    BY <1>1, <1>2, LimitsAssumption DEF ScanCounts
  <2>2. Cardinality(FaultsAt') <= MaxFaults + 1
    <3>1. faults \in Nat /\ faults <= MaxFaults
      BY <1>2 DEF ScanTypes, ScanCounts
    <3>2. faults' <= MaxFaults + 1
      BY <1>2, <3>1, MaxFaultsAssumption
    <3> QED BY <1>7, <3>2
  <2>3. ASSUME MaxInputBytes # None, NEW i \in 1..Len(items')
        PROVE  \/ items'[i].to <= MaxInputBytes
               \/ items'[i].error.kind \in LimitExceeded
    BY <1>1, <1>2, <1>4, <2>3 DEF ScanBounded, WithinLimits
  <2> QED BY <2>1, <2>2, <2>3 DEF ScanBounded
<1> QED BY <1>5, <1>8, <1>9

(* An item that follows on, or reports again, extends the tiling. *)
LEMMA YieldTiles ==
  ASSUME ScanInv, ~done, NEW item, NEW next, NEW rest, Yield(item, next, rest),
         IsItem(item), FollowsOn(item) \/ ReportsAgain(item),
         \/ item.terminal
         \/ rest # <<>>
         \/ UnescapedTerms(input, item.from, item.to, TermOf(input)) = {item.to - 1}
  PROVE  ItemsTileInput'
<1>1. PICK n \in Nat : n = Len(items)
  BY OneMore DEF Yield
<1>2. /\ Len(items') = n + 1 /\ items'[n+1] = item
      /\ \A i \in 1..n : items'[i] = items[i]
      /\ items' # <<>>
  BY <1>1, OneMore DEF Yield
<1>3. /\ ScanTypes /\ ItemsTileInput
      /\ input' = input /\ done' = item.terminal
      /\ pending' = IF item.terminal THEN <<>> ELSE rest
  BY DEF ScanInv, Yield
<1>4. \A i \in 1..n+1 : i \in 1..n \/ i = n+1
  OBVIOUS
<1>5. items # <<>> <=> n # 0
  BY <1>1, <1>3, EmptySeq DEF ScanTypes
<1>6. items # <<>> => n \in 1..n /\ LastItem = items'[n] /\ LastItem = items[n]
  BY <1>1, <1>2, <1>5 DEF LastItem
<1>7. ASSUME NEW i \in 1..n
      PROVE  IsFollowUp(i)' <=> IsFollowUp(i)
  <2>1. items'[i] = items[i]
    BY <1>2
  <2>2. i > 1 => items'[i-1] = items[i-1]
    BY <1>2
  <2> QED BY <2>1, <2>2 DEF IsFollowUp
<1>8. ReportsAgain(item) => IsFollowUp(n+1)'
  <2>1. SUFFICES ASSUME ReportsAgain(item)
                 PROVE  IsFollowUp(n+1)'
    OBVIOUS
  <2>2. n + 1 > 1 /\ n + 1 - 1 = n
    BY <1>5, <2>1 DEF ReportsAgain
  <2> QED BY <1>2, <1>6, <2>1, <2>2 DEF IsFollowUp, ReportsAgain
<1>9. FollowsOn(item) => ~IsFollowUp(n+1)'
  <2>1. SUFFICES ASSUME FollowsOn(item), IsFollowUp(n+1)'
                 PROVE  FALSE
    OBVIOUS
  <2>2. n + 1 > 1 /\ n + 1 - 1 = n /\ n # 0
    BY <2>1 DEF IsFollowUp
  <2>3. item.from = LastItem.from
    BY <1>2, <1>5, <1>6, <2>1, <2>2 DEF IsFollowUp
  <2>4. LastItem.from \in Nat /\ LastItem.to \in Nat
    BY <1>1, <1>3, <1>5, <1>6, <2>2 DEF ScanTypes
  <2> QED BY <1>5, <2>1, <2>2, <2>3, <2>4 DEF FollowsOn, IsItem
<1>10. ItemsEndAtTerminators'
  <2> SUFFICES ASSUME NEW i \in 1..n+1
               PROVE  \/ items'[i].terminal
                      \/ UnescapedTerms(input, items'[i].from, items'[i].to,
                                        TermOf(input)) = {items'[i].to - 1}
                      \/ IF i < n+1 THEN IsFollowUp(i+1)' ELSE pending' # <<>>
    BY <1>2, <1>3 DEF ItemsEndAtTerminators
  <2>1. CASE i = n+1
    BY <1>2, <1>3, <2>1
  <2>2. CASE i \in 1..n
    <3>1. \/ items[i].terminal
          \/ UnescapedTerms(input, items[i].from, items[i].to, TermOf(input))
               = {items[i].to - 1}
          \/ IF i < n THEN IsFollowUp(i+1) ELSE pending # <<>>
      BY <1>1, <1>3, <2>2 DEF ItemsTileInput, ItemsEndAtTerminators
    <3>2. CASE i < n
      <4>1. i+1 \in 1..n
        BY <2>2, <3>2
      <4>2. IsFollowUp(i+1)' <=> IsFollowUp(i+1)
        BY <1>7, <4>1
      <4> QED BY <1>2, <2>2, <3>1, <3>2, <4>2
    <3>3. CASE i = n
      <4>1. pending # <<>> => IsFollowUp(n+1)'
        BY <1>5, <1>8, <2>2, <3>3 DEF FollowsOn
      <4> QED BY <1>2, <2>2, <3>1, <3>3, <4>1
    <3> QED BY <2>2, <3>2, <3>3
  <2> QED BY <1>4, <2>1, <2>2
<1>11. ASSUME NEW i \in 1..n
       PROVE  IF IsFollowUp(i+1)' THEN items'[i].to <= items'[i+1].to
              ELSE /\ items'[i].to <= items'[i+1].from
                   /\ IsBlank(items'[i].to, items'[i+1].from)
  <2>1. CASE i < n
    <3>1. i+1 \in 1..n /\ i \in 1..n-1
      BY <2>1
    <3>2. IF IsFollowUp(i+1) THEN items[i].to <= items[i+1].to
          ELSE /\ items[i].to <= items[i+1].from
               /\ IsBlank(items[i].to, items[i+1].from)
      BY <1>1, <1>3, <3>1 DEF ItemsTileInput
    <3>3. IsFollowUp(i+1)' <=> IsFollowUp(i+1)
      BY <1>7, <3>1
    <3> QED BY <1>2, <3>1, <3>2, <3>3
  <2>2. CASE i = n
    <3>1. items # <<>> /\ items'[i] = LastItem /\ items'[i+1] = item
      BY <1>2, <1>5, <1>6, <2>2
    <3>2. CASE FollowsOn(item)
      BY <1>9, <2>2, <3>1, <3>2 DEF FollowsOn
    <3>3. CASE ReportsAgain(item)
      BY <1>8, <2>2, <3>1, <3>3 DEF ReportsAgain
    <3> QED BY <3>2, <3>3
  <2> QED BY <2>1, <2>2
<1>12. IsBlank(PrologueEnd(input), items'[1].from)
  <2>1. CASE items = <<>>
    <3>1. n = 0 /\ FollowsOn(item)
      BY <1>5, <2>1 DEF ReportsAgain
    <3> QED BY <1>2, <2>1, <3>1 DEF FollowsOn
  <2>2. CASE items # <<>>
    <3>1. 1 \in 1..n
      BY <1>5, <2>2
    <3> QED BY <1>2, <1>3, <2>2, <3>1 DEF ItemsTileInput
  <2> QED BY <2>1, <2>2
<1>13. ~(done' /\ (items' = <<>> \/ ~items'[Len(items')].terminal))
  BY <1>2, <1>3
<1>14. Len(items') - 1 = n
  BY <1>2
<1> QED
  BY <1>3, <1>10, <1>11, <1>12, <1>13, <1>14 DEF ItemsTileInput, IsBlank

(* emit_fault yields one item, which lies where the fault does. *)
LEMMA Emitted ==
  ASSUME ScanInv, NEW from \in Nat, NEW to \in Nat, NEW tag, NEW error,
         NEW terminal \in BOOLEAN, NEW next, NEW rest,
         error.kind = "SegmentTooLong" => error.at \in Nat,
         error.kind \in LimitExceeded => terminal,
         EmitFault(FaultItem(from, to, tag, error, terminal), next, rest)
  PROVE  \E item : Yield(item, next, rest)
                     /\ SettledAs(item, from, to, error, terminal)
<1>1. budget \in Budgets /\ faults \in Nat
  BY DEF ScanInv, ScanTypes
<1> DEFINE fault == FaultItem(from, to, tag, error, terminal)
<1>2. SettledAs(Settled(fault), from, to, error, terminal)
  BY <1>1, SettledFault
<1>3. Yield(Settled(fault), next, rest)
  BY DEF EmitFault
<1> HIDE DEF fault
<1> QED BY <1>2, <1>3

(* After an item that the scan does not end with, the parser stands where  *)
(* the item ends.                                                          *)
LEMMA YieldGoesOn ==
  ASSUME ScanInv, ~done, pending = <<>>, NEW item, IsItem(item), NEW next,
         Yield(item, next, <<>>),
         ~item.terminal => /\ next = item.to
                           /\ End <= item.from /\ item.from < item.to
                           /\ item.to <= Len(input)
  PROVE  ScanPlace' /\ ScanPending'
<1>1. /\ input' = input /\ done' = item.terminal /\ pending' = <<>>
      /\ cursor' = IF item.to > cursor THEN item.to ELSE cursor
      /\ parser' = IF item.terminal THEN NoParser ELSE next
  BY DEF Yield
<1>2. End \in 0..Len(input) /\ cursor <= End /\ cursor \in Nat
  BY DEF ScanInv, ScanPlace, ScanTypes
<1>3. /\ Len(items') = Len(items) + 1 /\ items'[Len(items)+1] = item
      /\ items' # <<>>
  BY OneMore DEF Yield
<1>4. LastItem' = item /\ End' = item.to
  BY <1>3 DEF LastItem, End
<1>5. ScanPending'
  BY <1>1 DEF ScanPending
<1>6. ScanPlace'
  <2> SUFFICES ASSUME ~item.terminal
               PROVE  /\ item.to \in 0..Len(input') /\ cursor' <= item.to
                      /\ parser' = item.to
                      /\ cursor' = item.to /\ item.from < item.to
    BY <1>1, <1>4 DEF ScanPlace
  <2>1. item.from < item.to /\ End <= item.from /\ item.to <= Len(input)
        /\ item.to \in Nat /\ item.from \in Nat
    BY DEF IsItem
  <2>2. cursor < item.to
    BY <1>2, <2>1
  <2>3. Len(input) \in Nat
    BY DEF ScanInv, ScanTypes
  <2> QED BY <1>1, <1>2, <2>1, <2>2, <2>3
<1> QED BY <1>5, <1>6

(* A scan that an item ends has no parser and nothing pending. *)
LEMMA YieldEnds ==
  ASSUME NEW item, NEW next, NEW rest, Yield(item, next, rest), item.terminal
  PROVE  ScanPlace' /\ ScanPending'
BY DEF Yield, ScanPlace, ScanPending

(* Where the parser stands, and where the next segment begins. *)
LEMMA ParsingStart ==
  ASSUME ScanInv, Parsing
  PROVE  /\ parser = End /\ parser \in 0..Len(input) /\ Len(input) \in Nat
         /\ Start \in Nat /\ Start \in parser..Len(input)
         /\ IsBlank(End, Start)
         /\ items # <<>> => LastItem.from < LastItem.to /\ LastItem.to = End
                            /\ cursor = End
         /\ cursor \in Nat /\ cursor <= End
<1>1. /\ parser = End /\ End \in 0..Len(input) /\ cursor <= End
      /\ items # <<>> => LastItem.from < LastItem.to /\ cursor = End
      /\ Len(input) \in Nat /\ cursor \in Nat
  BY DEF ScanInv, ScanPlace, ScanTypes, Parsing
<1>2. /\ Start \in parser..Len(input)
      /\ \A p \in parser .. Start-1 : At(input, p) = "ws"
  BY <1>1, SkipWsBetween DEF Start
<1>3. items # <<>> => LastItem.to = End
  BY DEF End
<1> QED BY <1>1, <1>2, <1>3 DEF IsBlank

(* An item of the segment at Start follows on from those before it. *)
LEMMA StartFollows ==
  ASSUME ScanInv, Parsing, NEW item, item.from = Start
  PROVE  FollowsOn(item)
<1>1. /\ parser = End /\ parser \in 0..Len(input)
      /\ Start \in parser..Len(input)
      /\ IsBlank(End, Start)
      /\ items # <<>> => LastItem.from < LastItem.to /\ LastItem.to = End
  BY ParsingStart
<1>2. pending = <<>>
  BY DEF Parsing
<1>3. items = <<>> => End = PrologueEnd(input)
  BY DEF End
<1> HIDE DEF Start
<1> QED BY <1>1, <1>2, <1>3 DEF FollowsOn

-----------------------------------------------------------------------------
(* Each call of next() keeps the invariant. *)

LEMMA PendingStep ==
  ASSUME ScanInv, YieldPending
  PROVE  ScanInv' /\ done'
<1>1. ~done /\ pending # <<>>
  BY DEF YieldPending
<1> DEFINE rest == Tail(pending)
<1>2. CASE items = <<>>
  <2>1. PICK from \in 0..PrologueEnd(input) :
          pending = <<FaultItem(from, PrologueEnd(input), "UNA",
                                Error("InvalidUna", NoOffset), TRUE)>>
    BY <1>1, <1>2 DEF ScanInv, ScanPending, UnaPending
  <2>2. PrologueEnd(input) \in Nat /\ from \in Nat
    BY PrologueWithin DEF ScanInv, ScanTypes
  <2> DEFINE error == Error("InvalidUna", NoOffset)
             fault == FaultItem(from, PrologueEnd(input), "UNA", error, TRUE)
  <2>3. error.kind = "InvalidUna"
    BY DEF Error
  <2>4. EmitFault(fault, parser, rest)
    <3>1. pending = <<fault>>
      BY <2>1
    <3> HIDE DEF fault
    <3> QED BY <3>1 DEF YieldPending
  <2> HIDE DEF error, rest
  <2>5. PICK item : /\ Yield(item, parser, rest)
                    /\ IsItem(item) /\ WithinLimits(item)
                    /\ item.from = from /\ item.terminal
    <3>1. \E item : Yield(item, parser, rest)
                      /\ SettledAs(item, from, PrologueEnd(input), error, TRUE)
      BY <2>2, <2>3, <2>4, Emitted
    <3> QED BY <3>1 DEF SettledAs
  <2>6. FollowsOn(item)
    BY <1>2, <2>2, <2>5 DEF FollowsOn, IsBlank
  <2>7. ScanTypes' /\ ScanCounts' /\ ScanBounded'
    BY <1>1, <2>5, YieldCounts
  <2>8. ItemsTileInput'
    BY <1>1, <2>5, <2>6, YieldTiles
  <2>9. ScanPlace' /\ ScanPending' /\ done'
    BY <2>5, YieldEnds DEF Yield
  <2> QED BY <2>7, <2>8, <2>9 DEF ScanInv
<1>3. CASE items # <<>>
  <2> DEFINE error == Error("SegmentTooLong", LastItem.from)
             fault == FaultItem(LastItem.from, Len(input), pending[1].tag, error, TRUE)
  <2>1. /\ LastItem.is = "fault" /\ ~LastItem.terminal
        /\ LastItem.to = Lesser(LastItem.from + MaxSegmentBytes + 1, Len(input))
        /\ pending = <<fault>>
    BY <1>1, <1>3 DEF ScanInv, ScanPending, OverlongPending
  <2>2. Len(input) \in Nat /\ LastItem.from \in Nat
    <3>1. Len(items) \in 1..Len(items)
      BY <1>3, EmptySeq DEF ScanInv, ScanTypes
    <3> QED BY <3>1 DEF ScanInv, ScanTypes, LastItem
  <2>3. error.kind = "SegmentTooLong" /\ error.at = LastItem.from
    BY DEF Error
  <2>4. EmitFault(fault, parser, rest)
    <3> HIDE DEF fault
    <3> QED BY <2>1 DEF YieldPending
  <2> HIDE DEF error, rest
  <2>5. PICK item : /\ Yield(item, parser, rest)
                    /\ SettledAs(item, LastItem.from, Len(input), error, TRUE)
    <3>1. error.kind = "SegmentTooLong" => error.at \in Nat
      BY <2>2, <2>3
    <3> HIDE DEF LastItem
    <3> QED BY <2>2, <2>4, <3>1, Emitted
  <2>6. /\ IsItem(item) /\ WithinLimits(item) /\ item.is = "fault"
        /\ item.from = LastItem.from /\ item.terminal
        /\ \/ item.to = Len(input)
           \/ LastItem.from + MaxSegmentBytes + 1 <= item.to
    BY <2>3, <2>5 DEF SettledAs, ReachesProof
  <2>7. ReportsAgain(item)
    <3>1. LastItem.to <= item.to
      BY <2>1, <2>2, <2>6, SyntaxAssumption DEF Lesser, IsItem
    <3> QED BY <1>3, <2>1, <2>6, <3>1 DEF ReportsAgain
  <2>8. ScanTypes' /\ ScanCounts' /\ ScanBounded'
    BY <1>1, <2>5, <2>6, YieldCounts
  <2>9. ItemsTileInput'
    BY <1>1, <2>5, <2>6, <2>7, YieldTiles
  <2>10. ScanPlace' /\ ScanPending' /\ done'
    BY <2>5, <2>6, YieldEnds DEF Yield
  <2> QED BY <2>8, <2>9, <2>10 DEF ScanInv
<1> QED BY <1>2, <1>3

(* A fault of the segment at Start that ends the scan. *)
LEMMA FinalFault ==
  ASSUME ScanInv, Parsing, NEW to \in Nat, NEW tag,
         NEW error, error.kind = "SegmentTooLong" => error.at \in Nat,
         NEW next, NEW rest,
         EmitFault(FaultItem(Start, to, tag, error, TRUE), next, rest)
  PROVE  ScanInv' /\ done'
<1>1. ~done
  BY DEF Parsing
<1>2. Start \in Nat
  BY ParsingStart
<1>3. PICK item : /\ Yield(item, next, rest)
                  /\ IsItem(item) /\ WithinLimits(item)
                  /\ item.from = Start /\ item.terminal
  <2>1. \E item : Yield(item, next, rest)
                    /\ SettledAs(item, Start, to, error, TRUE)
    <3> HIDE DEF Start
    <3> QED BY <1>2, Emitted
  <2> QED BY <2>1 DEF SettledAs
<1>4. FollowsOn(item)
  BY <1>3, StartFollows
<1>5. ScanTypes' /\ ScanCounts' /\ ScanBounded'
  BY <1>1, <1>3, YieldCounts
<1>6. ItemsTileInput'
  BY <1>1, <1>3, <1>4, YieldTiles
<1>7. ScanPlace' /\ ScanPending' /\ done'
  BY <1>3, YieldEnds DEF Yield
<1> QED BY <1>5, <1>6, <1>7 DEF ScanInv

LEMMA EndStep ==
  ASSUME ScanInv, ReachEnd
  PROVE  ScanInv' /\ done'
<1>1. Parsing /\ Parsed.is = "end"
  BY DEF ReachEnd
<1>2. /\ parser = End /\ parser \in 0..Len(input) /\ Len(input) \in Nat
      /\ IsBlank(End, Start)
      /\ cursor \in Nat /\ cursor <= End
  BY <1>1, ParsingStart
<1>3. Start = Len(input)
  BY <1>1, ParsedOtherwise DEF Start, Parsed
<1>4. CASE AdmitsBytes(Len(input))
  <2>1. done' = TRUE /\ parser' = NoParser
        /\ UNCHANGED <<input, pending, items, faults, budget, cursor>>
    BY <1>4 DEF ReachEnd
  <2>2. /\ ScanTypes /\ ScanCounts /\ ScanPending /\ pending = <<>>
        /\ ItemsTileInput /\ ScanBounded
    BY <1>1 DEF ScanInv, Parsing
  <2>3. ScanTypes' /\ ScanCounts' /\ ScanPending' /\ ScanBounded'
    BY <2>1, <2>2
    DEF ScanTypes, ScanCounts, ScanPending, ScanBounded, FaultsAt
  <2>4. ScanPlace'
    BY <2>1 DEF ScanPlace
  <2>5. ItemsEndAtTerminators' /\ (\A i \in Int : IsFollowUp(i)' <=> IsFollowUp(i))
    <3>1. \A i \in Int : IsFollowUp(i)' <=> IsFollowUp(i)
      BY <2>1 DEF IsFollowUp
    <3> QED
      BY <2>1, <2>2, <3>1 DEF ItemsTileInput, ItemsEndAtTerminators, IsFollowUp
  <2>6. IsBlank(IF items = <<>> THEN PrologueEnd(input) ELSE items[Len(items)].to,
                Len(input))
    BY <1>2, <1>3 DEF End, LastItem
  <2>7. ItemsTileInput'
    BY <2>1, <2>2, <2>5, <2>6 DEF ItemsTileInput, IsBlank, IsFollowUp
  <2> QED BY <2>1, <2>3, <2>4, <2>7 DEF ScanInv
<1>5. CASE ~AdmitsBytes(Len(input))
  <2> DEFINE from == Lesser(cursor, Len(input))
  <2>1. EmitFault(FaultItem(from, Len(input), NoTag, BytesLimit, TRUE),
                  NoParser, <<>>)
    BY <1>5 DEF ReachEnd
  <2>2. from = cursor /\ cursor \in Nat
    BY <1>2 DEF Lesser
  <2>3. BytesLimit.kind = "max_input_bytes"
    BY DEF BytesLimit, Error
  <2> HIDE DEF from
  <2>4. PICK item : /\ Yield(item, NoParser, <<>>)
                    /\ IsItem(item) /\ WithinLimits(item)
                    /\ item.from = cursor /\ item.terminal
    <3>1. \E item : Yield(item, NoParser, <<>>)
                      /\ SettledAs(item, cursor, Len(input), BytesLimit, TRUE)
      BY <1>2, <2>1, <2>2, <2>3, Emitted
    <3> QED BY <3>1 DEF SettledAs
  <2>5. FollowsOn(item)
    <3>1. pending = <<>>
      BY <1>1 DEF Parsing
    <3>2. items = <<>> => End = PrologueEnd(input)
      BY DEF End
    <3>3. items # <<>> => /\ LastItem.from < LastItem.to /\ LastItem.to = End
                          /\ cursor = End
      BY <1>1, ParsingStart
    <3>4. IsBlank(End, cursor)
      BY <1>2 DEF IsBlank
    <3>5. End <= End
      BY <1>2
    <3> HIDE DEF End
    <3> QED BY <2>4, <3>1, <3>2, <3>3, <3>4, <3>5 DEF FollowsOn
  <2>6. ~done
    BY <1>1 DEF Parsing
  <2>7. ScanTypes' /\ ScanCounts' /\ ScanBounded'
    BY <2>4, <2>6, YieldCounts
  <2>8. ItemsTileInput'
    BY <2>4, <2>5, <2>6, YieldTiles
  <2>9. ScanPlace' /\ ScanPending' /\ done'
    BY <2>4, YieldEnds DEF Yield
  <2> QED BY <2>7, <2>8, <2>9 DEF ScanInv
<1> QED BY <1>4, <1>5

(* An item the scan goes on after with the parser at its end. *)
LEMMA PassingItem ==
  ASSUME ScanInv, Parsing, NEW item, NEW next, Yield(item, next, <<>>),
         IsItem(item), WithinLimits(item),
         item.from = Start, item.to \in Start+1 .. Len(input), next = item.to,
         UnescapedTerms(input, item.from, item.to, TermOf(input)) = {item.to - 1}
  PROVE  ScanInv' /\ (done' \/ parser' > parser)
<1>1. ~done /\ pending = <<>>
  BY DEF Parsing
<1>2. /\ parser = End /\ Len(input) \in Nat
      /\ parser \in Nat /\ Start \in Nat /\ parser <= Start
  <2>1. /\ parser = End /\ parser \in 0..Len(input) /\ Len(input) \in Nat
        /\ Start \in Nat /\ Start \in parser..Len(input)
    BY ParsingStart
  <2> HIDE DEF Start, End
  <2> QED BY <2>1
<1>3. FollowsOn(item)
  BY StartFollows
<1>4. ScanTypes' /\ ScanCounts' /\ ScanBounded'
  BY <1>1, YieldCounts
<1>5. ItemsTileInput'
  BY <1>1, <1>3, YieldTiles
<1>6. End <= item.from /\ item.from < item.to /\ item.to <= Len(input)
  BY <1>2
<1>7. ScanPlace' /\ ScanPending'
  BY <1>1, <1>6, YieldGoesOn
<1>8. done' \/ parser' > parser
  <2>1. done' = item.terminal /\ (~item.terminal => parser' = next)
    BY DEF Yield
  <2>2. next > parser
    BY <1>2, <1>6
  <2> QED BY <2>1, <2>2
<1> QED BY <1>4, <1>5, <1>7, <1>8 DEF ScanInv

LEMMA SegmentStep ==
  ASSUME ScanInv, YieldSegment
  PROVE  ScanInv' /\ (done' \/ parser' > parser)
<1> DEFINE from == Parsed.from
           to   == Parsed.to
           tag  == TagAt(input, from)
           limit == Exceeded(tag, from, to, FALSE)
           item == SegmentItem(from, to)
<1>1. Parsing /\ Parsed.is = "segment"
  BY DEF YieldSegment
<1>2. parser \in 0..Len(input) /\ Len(input) \in Nat /\ Start \in Nat
  BY <1>1, ParsingStart
<1>3. /\ from = Start /\ to \in Start+1 .. Len(input)
      /\ UnescapedTerms(input, from, to, TermOf(input)) = {to - 1}
  <2>1. ParseSegment(input, Len(input), TermOf(input), parser).is = "segment"
    BY <1>1 DEF Parsed
  <2>2. LiesAt(ParseSegment(input, Len(input), TermOf(input), parser), input,
               TermOf(input), SkipWs(input, parser, Len(input)), Len(input))
    BY <1>2, <2>1, SegmentLies
  <2> QED BY <2>2 DEF LiesAt, Parsed, Start
<1>4. /\ item.is = "segment" /\ item.from = from /\ item.to = to
      /\ item.tag = tag /\ item.terminal = FALSE
  BY DEF SegmentItem
<1>5. to \in Nat /\ from \in Nat
  <2> HIDE DEF from, to
  <2> QED BY <1>2, <1>3
<1>6. IF limit = NoError
      THEN Yield(item, to, <<>>)
      ELSE EmitFault(FaultItem(from, Len(input), tag, limit, TRUE), NoParser, <<>>)
  <2>1. /\ item.from = from /\ item.to = to /\ item.tag = tag
    BY <1>4
  <2> HIDE DEF item
  <2> QED BY <2>1 DEF YieldSegment, item
<1> HIDE DEF from, to, tag, item
<1>7. CASE limit = NoError
  <2>1. /\ MaxInputBytes # None => to <= MaxInputBytes
        /\ MaxSegments # None => budget.segments + 1 <= MaxSegments
    BY <1>5, <1>7, ExceedsNothing DEF ScanInv, ScanTypes
  <2>2. IsItem(item) /\ WithinLimits(item)
    BY <1>4, <1>5, <2>1 DEF IsItem, WithinLimits
  <2> HIDE DEF limit
  <2> QED BY <1>1, <1>3, <1>4, <1>6, <1>7, <2>2, PassingItem
<1>8. CASE limit # NoError
  <2>1. limit.kind # "SegmentTooLong"
    <3>1. limit.kind \in LimitExceeded
      BY <1>8, ExceedsALimit
    <3> HIDE DEF limit
    <3> QED BY <3>1 DEF LimitExceeded
  <2> HIDE DEF limit
  <2>2. EmitFault(FaultItem(Start, Len(input), tag, limit, TRUE), NoParser, <<>>)
    BY <1>3, <1>6, <1>8
  <2> QED BY <1>1, <1>2, <2>1, <2>2, FinalFault
<1> QED BY <1>7, <1>8

(* The resumable faults are not those that end the scan. *)
LEMMA ResumableError ==
  ASSUME Resumable
  PROVE  /\ Parsed.error.kind # "SegmentTooLong"
         /\ Parsed.error.kind \notin LimitExceeded
BY DEF Resumable, TerminalKinds

LEMMA RefusalEnds ==
  ASSUME ScanInv, Refused, NEW next, NEW rest,
         EmitFault(RefusedAt(Len(input), TRUE), next, rest)
  PROVE  ScanInv' /\ done'
<1> DEFINE error == Parsed.error
<1>1. Parsing /\ Len(input) \in Nat /\ Start \in Nat
  BY ParsingStart DEF Refused
<1>2. error.kind = "SegmentTooLong" => error.at \in Nat
  <2>1. error.kind = "SegmentTooLong" => error.at = Start
    BY ParsedOtherwise DEF Parsed, Start
  <2> QED BY <1>1, <2>1
<1>3. EmitFault(FaultItem(Start, Len(input), RawTag(Start), error, TRUE), next, rest)
  BY DEF RefusedAt
<1> HIDE DEF error
<1> QED BY <1>1, <1>2, <1>3, FinalFault

(* Where the scan resumes: after the first terminator not escaped. *)
LEMMA ResumesAfterTerminator ==
  ASSUME ScanInv, Parsing, Stops # {}
  PROVE  /\ ResumeAt \in Start+1 .. Len(input)
         /\ UnescapedTerms(input, Start, ResumeAt, TermOf(input)) = {ResumeAt - 1}
<1> DEFINE least == LeastOr(Stops, 0)
<1>1. Start \in Nat /\ Start <= Len(input) /\ Len(input) \in Nat
  BY ParsingStart
<1>2. WindowEnd \in Nat /\ WindowEnd <= Len(input)
  <2> HIDE DEF Start
  <2> QED BY <1>1, SyntaxAssumption DEF WindowEnd, Lesser
<1>3. Stops = {p \in Start .. WindowEnd-1 :
                 At(input, p) = TermOf(input) /\ ~Escaped(input, Start, p)}
  BY DEF Stops, UnescapedTerms
<1> HIDE DEF Start, WindowEnd, Stops
<1>4. Stops \subseteq Nat
  BY <1>1, <1>3
<1>5. least \in Stops /\ \A q \in Stops : least <= q
  BY <1>4, LeastIn
<1>6. ResumeAt = least + 1
  BY DEF ResumeAt
<1> HIDE DEF least
<1>7. least \in Start .. WindowEnd-1
  BY <1>3, <1>5
<1>8. ResumeAt \in Start+1 .. Len(input) /\ ResumeAt - 1 = least
  BY <1>1, <1>2, <1>6, <1>7
<1>9. UnescapedTerms(input, Start, ResumeAt, TermOf(input)) = {least}
  <2>1. UnescapedTerms(input, Start, ResumeAt, TermOf(input))
          = {p \in Start .. least :
               At(input, p) = TermOf(input) /\ ~Escaped(input, Start, p)}
    BY <1>8 DEF UnescapedTerms
  <2>2. ASSUME NEW p \in Start .. least,
               At(input, p) = TermOf(input) /\ ~Escaped(input, Start, p)
        PROVE  p = least
    <3>1. p \in Stops
      BY <1>1, <1>2, <1>3, <1>7, <2>2
    <3> QED BY <1>5, <1>7, <3>1, <1>1
  <2>3. least \in Start .. least
        /\ At(input, least) = TermOf(input) /\ ~Escaped(input, Start, least)
    BY <1>1, <1>3, <1>5, <1>7
  <2> QED BY <2>1, <2>2, <2>3
<1> QED BY <1>8, <1>9

LEMMA ResumeStep ==
  ASSUME ScanInv, FaultAndResume
  PROVE  ScanInv' /\ (done' \/ parser' > parser)
<1>1. /\ Parsing /\ Resumable /\ Stops # {}
      /\ EmitFault(FaultItem(Start, ResumeAt, RawTag(Start), Parsed.error, FALSE),
                   ResumeAt, <<>>)
  BY DEF FaultAndResume, Refused, RefusedAt
<1>2. /\ ResumeAt \in Start+1 .. Len(input)
      /\ UnescapedTerms(input, Start, ResumeAt, TermOf(input)) = {ResumeAt - 1}
  BY <1>1, ResumesAfterTerminator
<1>3. Start \in Nat /\ Len(input) \in Nat
  BY <1>1, ParsingStart
<1>4. /\ Parsed.error.kind # "SegmentTooLong"
      /\ Parsed.error.kind \notin LimitExceeded
  BY <1>1, ResumableError
<1> HIDE DEF Start, ResumeAt
<1>5. ResumeAt \in Nat
  BY <1>2, <1>3
<1>6. PICK item : /\ Yield(item, ResumeAt, <<>>)
                  /\ IsItem(item) /\ WithinLimits(item)
                  /\ item.from = Start /\ item.to = ResumeAt
  <2>1. \E item : Yield(item, ResumeAt, <<>>)
                    /\ SettledAs(item, Start, ResumeAt, Parsed.error, FALSE)
    BY <1>1, <1>3, <1>4, <1>5, Emitted
  <2> QED BY <1>4, <2>1 DEF SettledAs, ReachesProof
<1> QED BY <1>1, <1>2, <1>6, PassingItem

LEMMA OverlongStep ==
  ASSUME ScanInv, FaultThenOverlong
  PROVE  ScanInv' /\ (done' \/ (pending # pending' /\ pending'[1].terminal))
<1> DEFINE tag  == RawTag(Start)
           next == FaultItem(Start, Len(input), tag, Error("SegmentTooLong", Start),
                             TRUE)
<1>1. /\ Parsing /\ Resumable /\ ~done /\ pending = <<>>
      /\ EmitFault(FaultItem(Start, WindowEnd, tag, Parsed.error, FALSE),
                   NoParser, <<next>>)
  BY DEF FaultThenOverlong, Refused, RefusedAt, Parsing
<1>2. Start \in Nat /\ Len(input) \in Nat
  BY <1>1, ParsingStart
<1>3. WindowEnd \in Nat
  <2> HIDE DEF Start
  <2> QED BY <1>2, SyntaxAssumption DEF WindowEnd, Lesser
<1>4. /\ Parsed.error.kind # "SegmentTooLong"
      /\ Parsed.error.kind \notin LimitExceeded
  BY <1>1, ResumableError
<1>5. next.terminal = TRUE
  BY DEF FaultItem
<1>6. PICK item : /\ Yield(item, NoParser, <<next>>)
                  /\ IsItem(item) /\ WithinLimits(item) /\ item.is = "fault"
                  /\ item.from = Start /\ item.to = WindowEnd
  <2>1. \E item : Yield(item, NoParser, <<next>>)
                    /\ SettledAs(item, Start, WindowEnd, Parsed.error, FALSE)
    <3> HIDE DEF Start, WindowEnd, next, tag
    <3> QED BY <1>1, <1>2, <1>3, <1>4, Emitted
  <2> QED BY <1>4, <2>1 DEF SettledAs, ReachesProof
<1>7. FollowsOn(item)
  BY <1>1, <1>6, StartFollows
<1>8. ScanTypes' /\ ScanCounts' /\ ScanBounded'
  BY <1>1, <1>6, YieldCounts
<1>9. ItemsTileInput'
  <2>1. <<next>> # <<>>
    OBVIOUS
  <2> HIDE DEF next
  <2> QED BY <1>1, <1>6, <1>7, <2>1, YieldTiles
<1>10. CASE item.terminal
  BY <1>6, <1>8, <1>9, <1>10, YieldEnds DEF ScanInv, Yield
<1>11. CASE ~item.terminal
  <2>1. /\ input' = input /\ ~done' /\ pending' = <<next>>
    BY <1>6, <1>11 DEF Yield
  <2>2. LastItem' = item /\ items' # <<>>
    <3>1. Len(items') = Len(items) + 1 /\ items'[Len(items)+1] = item
          /\ items' # <<>>
      BY <1>6, OneMore DEF Yield
    <3> QED BY <3>1 DEF LastItem
  <2>3. pending' # <<>> /\ pending'[1] = next
    BY <2>1
  <2>4. OverlongPending'
    <3>1. next.tag = tag
      BY DEF FaultItem
    <3>2. next = FaultItem(Start, Len(input), next.tag,
                           Error("SegmentTooLong", Start), TRUE)
      BY <3>1
    <3>3. WindowEnd = Lesser(Start + MaxSegmentBytes + 1, Len(input))
      BY DEF WindowEnd
    <3> HIDE DEF next, Start, WindowEnd
    <3> QED BY <1>6, <1>11, <2>1, <2>2, <2>3, <3>2, <3>3
            DEF OverlongPending, FaultItem, Error
  <2>5. ScanPlace' /\ ScanPending'
    BY <2>1, <2>2, <2>3, <2>4 DEF ScanPlace, ScanPending
  <2>6. pending # pending' /\ pending'[1].terminal
    <3> HIDE DEF next
    <3> QED BY <1>1, <1>5, <2>3
  <2> QED BY <1>8, <1>9, <2>5, <2>6 DEF ScanInv
<1> QED BY <1>10, <1>11

-----------------------------------------------------------------------------
LEMMA InitHolds == Init => ScanInv
<1> SUFFICES ASSUME Init PROVE ScanInv
  OBVIOUS
<1>1. /\ input \in Seq(Bytes) /\ items = <<>> /\ Len(items) = 0
      /\ faults = 0 /\ budget = NewBudget
      /\ cursor = PrologueLen(input) /\ done = FALSE
  BY ScanInputsAssumption DEF Init
<1>2. /\ PrologueLen(input) \in Nat /\ PrologueEnd(input) \in Nat
      /\ PrologueLen(input) <= PrologueEnd(input)
      /\ PrologueEnd(input) <= Len(input) /\ Len(input) \in Nat
  BY <1>1, PrologueWithin
<1>3. ScanTypes
  <2>1. \E S : items \in Seq(S)
    <3>1. items \in Seq({})
      BY <1>1
    <3> QED BY <3>1
  <2>2. budget \in Budgets
    BY <1>1 DEF NewBudget, Budgets
  <2>3. \A i \in 1..Len(items) : FALSE
    BY <1>1
  <2>4. cursor \in Nat /\ faults \in Nat /\ done \in BOOLEAN
    BY <1>1, <1>2
  <2> QED BY <1>1, <2>1, <2>2, <2>3, <2>4 DEF ScanTypes
<1>4. FaultsAt = {} /\ Cardinality(FaultsAt) = 0
  <2>1. FaultsAt = {}
    BY <1>1 DEF FaultsAt
  <2> QED BY <2>1, FS_EmptySet
<1>5. ScanCounts
  <2>1. budget.segments = 0
    BY <1>1 DEF NewBudget
  <2> QED BY <1>1, <1>4, <2>1, LimitsAssumption, MaxFaultsAssumption DEF ScanCounts
<1>6. ScanPlace
  <2>1. pending = <<>> => parser = PrologueEnd(input)
    BY DEF Init
  <2>2. End = PrologueEnd(input)
    BY <1>1 DEF End
  <2> QED BY <1>1, <1>2, <2>1, <2>2 DEF ScanPlace
<1>7. ScanPending
  <2>1. SUFFICES ASSUME pending # <<>>
                 PROVE  UnaPending
    BY <1>1 DEF ScanPending
  <2>2. pending = <<FaultItem(PrologueLen(input), PrologueEnd(input), "UNA",
                              Error("InvalidUna", NoOffset), TRUE)>>
    BY <2>1 DEF Init
  <2>3. PrologueLen(input) \in 0..PrologueEnd(input)
    BY <1>2
  <2> QED BY <2>2, <2>3 DEF UnaPending
<1>8. ItemsTileInput
  <2>1. 1..0 = {} /\ 1..-1 = {} /\ 0 - 1 = -1
    OBVIOUS
  <2> QED BY <1>1, <2>1 DEF ItemsTileInput, ItemsEndAtTerminators
<1>9. ScanBounded
  BY <1>1, <1>4, LimitsAssumption, MaxFaultsAssumption DEF ScanBounded
<1> QED BY <1>3, <1>5, <1>6, <1>7, <1>8, <1>9 DEF ScanInv

(* A call that does not end the scan makes headway. *)
Headway ==
  done' \/ parser' > parser \/ (pending # pending' /\ pending'[1].terminal)

LEMMA StepKeeps ==
  ASSUME ScanInv, [Next]_vars
  PROVE  ScanInv' /\ (Headway \/ UNCHANGED vars)
<1>1. CASE YieldPending
  BY <1>1, PendingStep DEF Headway
<1>2. CASE ReachEnd
  BY <1>2, EndStep DEF Headway
<1>3. CASE YieldSegment
  BY <1>3, SegmentStep DEF Headway
<1>4. CASE FaultIsTerminal
  BY <1>4, RefusalEnds DEF FaultIsTerminal, Headway
<1>5. CASE FaultAndResume
  BY <1>5, ResumeStep DEF Headway
<1>6. CASE FaultAtEnd
  BY <1>6, RefusalEnds DEF FaultAtEnd, Headway
<1>7. CASE FaultThenOverlong
  BY <1>7, OverlongStep DEF Headway
<1>8. CASE UNCHANGED vars
  <2>1. /\ input' = input /\ items' = items /\ pending' = pending
        /\ parser' = parser /\ faults' = faults /\ budget' = budget
        /\ cursor' = cursor /\ done' = done
    BY <1>8 DEF vars
  <2>2. ScanTypes' /\ ScanCounts' /\ ScanPlace' /\ ScanBounded'
    BY <2>1 DEF ScanInv, ScanTypes, ScanCounts, ScanPlace, ScanBounded, FaultsAt,
                End, LastItem
  <2>3. ScanPending'
    BY <2>1 DEF ScanInv, ScanPending, UnaPending, OverlongPending, LastItem,
                FaultItem
  <2>4. ItemsTileInput'
    <3>1. ItemsEndAtTerminators'
      BY <2>1 DEF ScanInv, ItemsTileInput, ItemsEndAtTerminators, IsFollowUp
    <3> QED BY <2>1, <3>1 DEF ScanInv, ItemsTileInput, IsFollowUp, IsBlank
  <2> QED BY <1>8, <2>2, <2>3, <2>4 DEF ScanInv
<1> QED
  BY <1>1, <1>2, <1>3, <1>4, <1>5, <1>6, <1>7, <1>8 DEF Next, FaultAt, Exhausted

(* The invariant holds of every reachable state. *)
LEMMA ScanInvHolds == Spec => []ScanInv
<1>1. Init => ScanInv
  BY InitHolds
<1>2. ScanInv /\ [Next]_vars => ScanInv'
  BY StepKeeps
<1> QED BY <1>1, <1>2, PTL DEF Spec

(***************************************************************************)
(* For every input and all limits, the items the scan yields are the input *)
(* in wire order, each one up to its segment's terminator: recovery loses  *)
(* no byte, and reads none twice but in the fault that is told twice.      *)
(***************************************************************************)
THEOREM RecoveryTilesInput == Spec => []ItemsTileInput
<1>1. ScanInv => ItemsTileInput
  BY DEF ScanInv
<1> QED BY <1>1, ScanInvHolds, PTL

(***************************************************************************)
(* For every input, the scan holds no more items and faults than one more  *)
(* than its limits admit, and no item past max_input_bytes but the fault   *)
(* that says so.                                                           *)
(***************************************************************************)
THEOREM RecoveryIsBounded == Spec => []ScanBounded
<1>1. ScanInv => ScanBounded
  BY DEF ScanInv
<1> QED BY <1>1, ScanInvHolds, PTL

(***************************************************************************)
(* On every input, a call of next() either ends the scan, or moves the     *)
(* parser on, or leaves pending the fault that will end it: no input makes *)
(* the scan run for ever.                                                  *)
(***************************************************************************)
THEOREM RecoveryAdvances == Spec => ScanAdvances
<1>1. ScanInv /\ [Next]_vars
        => [done' \/ parser' > parser
            \/ (pending # pending' /\ pending'[1].terminal)]_vars
  BY StepKeeps DEF Headway
<1> QED BY <1>1, ScanInvHolds, PTL DEF Spec, ScanAdvances
-----------------------------------------------------------------------------
(***************************************************************************)
(* The strict parser beside the scan, at the same byte of the same input.  *)
(* It is given the bytes within max_input_bytes only.                      *)
(***************************************************************************)
Scanned == ScannedLen(input)
Read    == ParseSegment(input, Scanned, TermOf(input), parser)

(* How far the fault of a refused segment is read. *)
Reach ==
  IF Parsed.error.kind = "SegmentTooLong"
  THEN Lesser(Len(input), Start + MaxSegmentBytes + 1)
  ELSE IF ~Resumable THEN Len(input)
  ELSE IF Stops # {} THEN ResumeAt ELSE WindowEnd

(* Either the two agree on what lies here, and it lies within the budget ... *)
Agree ==
  /\ Parsed.is = "end" => Read.is = "end" /\ ~Truncated(input)
  /\ Parsed.is = "segment" => Read = Parsed /\ Parsed.to <= Scanned
  /\ Parsed.is = "error" => /\ Read.is = "error" /\ Reach <= Scanned
                            /\ OverBudget(input, Read.error, parser) = Parsed.error

(* ... or both find that it does not. *)
OutOfBudget ==
  /\ Truncated(input)
  /\ \/ Read.is = "end"
     \/ /\ Read.is = "error"
        /\ OverBudget(input, Read.error, parser) = BytesBudgetExceeded
  /\ Parsed.is = "segment" => Parsed.to > Scanned
  /\ Parsed.is = "error" => Reach > Scanned

LEMMA ScannedIs ==
  ASSUME input \in Seq(Bytes)
  PROVE  /\ Scanned \in Nat /\ Scanned <= Len(input) /\ Len(input) \in Nat
         /\ Truncated(input) => Scanned = MaxInputBytes /\ Scanned < Len(input)
                                /\ MaxInputBytes # None /\ MaxInputBytes \in Nat
         /\ ~Truncated(input) => Scanned = Len(input)
         /\ \A end \in Nat : end <= Len(input) => (AdmitsBytes(end) <=> end <= Scanned)
         /\ BytesLimit = BytesBudgetExceeded
BY LimitsAssumption DEF Scanned, ScannedLen, Truncated, AdmitsBytes, Exceeds, BytesLimit,
   BytesBudgetExceeded

(* over_budget, case by case. *)
LEMMA OverBudgetIs ==
  ASSUME NEW s, NEW e, NEW pos \in Nat, Truncated(s), MaxInputBytes \in Nat,
         pos <= MaxInputBytes, NEW start \in Nat, start = SkipWs(s, pos, MaxInputBytes),
         NEW terms, terms = UnescapedTerms(s, pos, MaxInputBytes, TermOf(s))
  PROVE  /\ e.kind = "SegmentTooLong" => OverBudget(s, e, pos) = e
         /\ terms # {} => OverBudget(s, e, pos) = e
         /\ e.kind # "SegmentTooLong" /\ terms = {} /\ start + MaxSegmentBytes + 1 > MaxInputBytes
              => OverBudget(s, e, pos) = BytesBudgetExceeded
         /\ e.kind # "SegmentTooLong" /\ terms = {} /\ ~(start + MaxSegmentBytes + 1 > MaxInputBytes)
              => OverBudget(s, e, pos)
                   = IF e = Error("InvalidReleaseSequence", MaxInputBytes - 1)
                     THEN Error("SegmentTooLong", start) ELSE e
<1>1. Lesser(pos, MaxInputBytes) = pos
  BY DEF Lesser
<1> QED BY <1>1 DEF OverBudget

(* What is known where the parser stands. *)
LEMMA Standing ==
  ASSUME ScanInv, Parsing, parser <= Scanned
  PROVE  /\ parser \in Nat /\ Start \in Nat /\ Len(input) \in Nat /\ Scanned \in Nat
         /\ parser <= Start /\ Start <= Len(input) /\ parser <= Scanned
         /\ Scanned <= Len(input)
         /\ \A p \in parser .. Start-1 : At(input, p) = "ws"
         /\ Start = SkipWs(input, parser, Len(input))
         /\ SkipWs(input, parser, Scanned) = IF Start < Scanned THEN Start ELSE Scanned
         /\ WindowEnd = Window(Start, Len(input))
         /\ Stops = UnescapedTerms(input, Start, WindowEnd, TermOf(input))
         /\ ReturnsFor(Parsed, input, TermOf(input), Start, Len(input))
         /\ ReturnsFor(Read, input, TermOf(input),
                       IF Start < Scanned THEN Start ELSE Scanned, Scanned)
<1>1. input \in Seq(Bytes)
  BY DEF ScanInv, ScanTypes
<1>2. /\ Scanned \in Nat /\ Scanned <= Len(input) /\ Len(input) \in Nat
  BY <1>1, ScannedIs
<1>3. parser \in 0..Len(input) /\ Start \in Nat /\ Start \in parser..Len(input)
  BY ParsingStart
<1>4. parser \in Nat /\ parser \in 0..Scanned /\ parser <= Start /\ Start <= Len(input)
  <2> HIDE DEF Start, Scanned
  <2> QED BY <1>2, <1>3
<1>5. Start = SkipWs(input, parser, Len(input))
  BY DEF Start
<1>6. \A p \in parser .. Start-1 : At(input, p) = "ws"
  <2> HIDE DEF At
  <2> QED BY <1>3, <1>5, SkipWsBetween
<1>7. SkipWs(input, parser, Scanned) = IF Start < Scanned THEN Start ELSE Scanned
  <2> HIDE DEF Scanned
  <2> QED BY <1>2, <1>4, <1>5, SkipPrefix DEF Start
<1>8. ReturnsFor(Parsed, input, TermOf(input), Start, Len(input))
  BY <1>2, <1>3, Returns DEF Parsed, Start
<1>9. ReturnsFor(Read, input, TermOf(input),
                 IF Start < Scanned THEN Start ELSE Scanned, Scanned)
  <2>1. ReturnsFor(Read, input, TermOf(input), SkipWs(input, parser, Scanned), Scanned)
    <3> HIDE DEF Scanned
    <3> QED BY <1>2, <1>4, Returns DEF Read
  <2> QED BY <1>7, <2>1
<1>10. WindowEnd = Window(Start, Len(input))
  BY DEF WindowEnd, Window
<1>11. Stops = UnescapedTerms(input, Start, WindowEnd, TermOf(input))
  BY DEF Stops
<1>12. /\ parser \in Nat /\ Start \in Nat /\ Len(input) \in Nat /\ Scanned \in Nat
       /\ parser <= Start /\ Start <= Len(input) /\ parser <= Scanned
       /\ Scanned <= Len(input)
  BY <1>2, <1>3, <1>4
<1> QED BY <1>12, <1>5, <1>6, <1>7, <1>8, <1>9, <1>10, <1>11, Zenon

(* How far a fault reaches. *)
LEMMA ReachIs ==
  ASSUME ScanInv, Parsing, Start < Len(input)
  PROVE  /\ WindowEnd \in Start+1 .. Len(input)
         /\ Reach \in Start+1 .. Len(input)
         /\ Parsed.error.kind = "SegmentTooLong" =>
              Reach = Lesser(Len(input), Start + MaxSegmentBytes + 1)
         /\ Parsed.error.kind # "SegmentTooLong" /\ ~Resumable => Reach = Len(input)
         /\ Parsed.error.kind # "SegmentTooLong" /\ Resumable /\ Stops # {} =>
              /\ Reach = ResumeAt
              /\ UnescapedTerms(input, Start, Reach, TermOf(input)) = {Reach - 1}
         /\ Parsed.error.kind # "SegmentTooLong" /\ Resumable /\ Stops = {} =>
              Reach = WindowEnd
<1>1. Start \in Nat /\ Len(input) \in Nat
  BY ParsingStart
<1>2. WindowEnd \in Start+1 .. Len(input)
  <2> HIDE DEF Start
  <2> QED BY <1>1, SyntaxAssumption DEF WindowEnd, Lesser
<1>3. Lesser(Len(input), Start + MaxSegmentBytes + 1) \in Start+1 .. Len(input)
  <2> HIDE DEF Start
  <2> QED BY <1>1, SyntaxAssumption DEF Lesser
<1>4. Stops # {} =>
        /\ ResumeAt \in Start+1 .. Len(input)
        /\ UnescapedTerms(input, Start, ResumeAt, TermOf(input)) = {ResumeAt - 1}
  BY ResumesAfterTerminator
<1>5. Len(input) \in Start+1 .. Len(input)
  BY <1>1
<1> HIDE DEF Start, WindowEnd, Stops, ResumeAt, Resumable, Parsed
<1> QED BY <1>2, <1>3, <1>4, <1>5 DEF Reach

(* Without a byte limit the two read the same. *)
LEMMA WholeAgree ==
  ASSUME ScanInv, Parsing, parser <= Scanned, ~Truncated(input)
  PROVE  Agree
<1>1. input \in Seq(Bytes)
  BY DEF ScanInv, ScanTypes
<1>2. Scanned = Len(input) /\ Len(input) \in Nat
  BY <1>1, ScannedIs
<1>3. Read = Parsed
  BY <1>2 DEF Read, Parsed
<1>4. OverBudget(input, Read.error, parser) = Parsed.error
  BY <1>3 DEF OverBudget
<1>5. ReturnsFor(Parsed, input, TermOf(input), Start, Len(input)) /\ Start \in Nat
      /\ Start <= Len(input)
  BY Standing
<1>6. Parsed.is = "segment" => Parsed.to <= Len(input)
  <2> SUFFICES ASSUME Parsed.is = "segment" PROVE Parsed.to <= Len(input)
    OBVIOUS
  <2>1. Parsed.to \in Start+1 .. Len(input)
    <3>1. Start = SkipWs(input, parser, Len(input)) /\ parser \in 0 .. Len(input)
      BY ParsingStart DEF Start
    <3> QED BY <1>2, <3>1, SegmentTerm DEF Parsed
  <2> HIDE DEF Start
  <2> QED BY <2>1
<1>7. Parsed.is = "error" => Reach <= Len(input)
  <2> SUFFICES ASSUME Parsed.is = "error" PROVE Reach <= Len(input)
    OBVIOUS
  <2>1. Start # Len(input)
    BY <1>5 DEF ReturnsFor
  <2>2. Start < Len(input)
    <3> HIDE DEF Start
    <3> QED BY <1>2, <1>5, <2>1
  <2>3. Reach \in Start+1 .. Len(input)
    BY <2>2, ReachIs
  <2> HIDE DEF Start, Reach
  <2> QED BY <2>3
<1> HIDE DEF Read, Parsed, Reach, Scanned
<1> QED BY <1>2, <1>3, <1>4, <1>6, <1>7 DEF Agree

(* Past the budget there is whitespace only, as far as the strict parser   *)
(* is given bytes.                                                         *)
LEMMA BlankToBudget ==
  ASSUME ScanInv, Parsing, parser <= Scanned, Truncated(input), Start >= Scanned
  PROVE  OutOfBudget
<1>1. /\ Start \in Nat /\ Len(input) \in Nat /\ Scanned \in Nat /\ Start <= Len(input)
      /\ ReturnsFor(Parsed, input, TermOf(input), Start, Len(input))
      /\ ReturnsFor(Read, input, TermOf(input),
                    IF Start < Scanned THEN Start ELSE Scanned, Scanned)
  BY Standing
<1>2. Scanned < Len(input)
  BY ScannedIs DEF ScanInv, ScanTypes
<1>3. Read.is = "end"
  <2>1. ~(Start < Scanned)
    BY <1>1
  <2> QED BY <1>1, <2>1 DEF ReturnsFor
<1>4. Parsed.is = "segment" => Parsed.to > Scanned
  <2> SUFFICES ASSUME Parsed.is = "segment" PROVE Parsed.to > Scanned
    OBVIOUS
  <2>1. Parsed.to \in Start+1 .. Window(Start, Len(input))
    BY <1>1 DEF ReturnsFor
  <2> HIDE DEF Start, Scanned
  <2> QED BY <1>1, <2>1
<1>5. Parsed.is = "error" => Reach > Scanned
  <2> SUFFICES ASSUME Parsed.is = "error" PROVE Reach > Scanned
    OBVIOUS
  <2>1. Start # Len(input)
    BY <1>1 DEF ReturnsFor
  <2>2. Start < Len(input)
    <3> HIDE DEF Start
    <3> QED BY <1>1, <2>1
  <2>3. Reach \in Start+1 .. Len(input)
    BY <2>2, ReachIs
  <2> HIDE DEF Start, Reach, Scanned
  <2> QED BY <1>1, <2>3
<1> QED BY <1>3, <1>4, <1>5 DEF OutOfBudget

(* The terminators within the budget. *)
Within == UnescapedTerms(input, Start, Window(Start, Scanned), TermOf(input))

LEMMA TermWithinBudget ==
  ASSUME ScanInv, Parsing, parser <= Scanned, Truncated(input), Start < Scanned,
         Within # {}
  PROVE  Agree
<1> DEFINE t == TermOf(input)
           v == Window(Start, Scanned)
           terms == UnescapedTerms(input, parser, Scanned, t)
<1>1. /\ Start \in Nat /\ Len(input) \in Nat /\ Scanned \in Nat /\ Start < Len(input)
      /\ parser \in Nat /\ parser \in 0..Scanned /\ parser <= Start
      /\ Start = SkipWs(input, parser, Len(input))
      /\ SkipWs(input, parser, Scanned) = Start
      /\ \A p \in parser .. Start-1 : At(input, p) = "ws"
      /\ WindowEnd = Window(Start, Len(input))
      /\ Stops = UnescapedTerms(input, Start, WindowEnd, t)
      /\ ReturnsFor(Parsed, input, t, Start, Len(input))
      /\ ReturnsFor(Read, input, t, Start, Scanned)
      /\ Scanned <= Len(input)
  <2> HIDE DEF Start, Scanned, At
  <2> QED BY Standing
<1>2. v \in Start+1 .. Scanned /\ v \in Nat
  <2>1. v \in Start+1 .. Scanned
    <3> HIDE DEF Start, Scanned
    <3> QED BY <1>1, Bounds
  <2> HIDE DEF Start, Scanned, v
  <2> QED BY <1>1, <2>1
<1>3. Read = Parsed
  <2>1. UnescapedTerms(input, Start, Window(Start, Scanned), t) # {}
    BY DEF Within
  <2>2. Start = SkipWs(input, parser, Len(input))
    BY <1>1
  <2> HIDE DEF Start, Scanned, t
  <2>3. ParseSegment(input, Scanned, t, parser) = ParseSegment(input, Len(input), t, parser)
    BY <1>1, <2>1, <2>2, TermInside
  <2> QED BY <2>3 DEF Read, Parsed, t
<1>4. PICK q : q \in UnescapedTerms(input, Start, v, t)
  BY DEF Within
<1>5. q \in Start .. v-1 /\ At(input, q) = t /\ ~Escaped(input, Start, q)
  <2> HIDE DEF At, Start, v, t
  <2> QED BY <1>4 DEF UnescapedTerms
<1> HIDE DEF v
<1>6. q \in Nat /\ q < Scanned /\ Start <= q /\ q < v
  <2> HIDE DEF Start, Scanned
  <2> QED BY <1>1, <1>2, <1>5
<1>7. q \in terms
  <2>1. Start = parser \/ At(input, Start - 1) # "rel"
    <3>1. Start # parser => Start - 1 \in parser .. Start-1
      <4> HIDE DEF Start
      <4> QED BY <1>1
    <3> QED BY <1>1, <3>1
  <2>2. ~Escaped(input, parser, q)
    <3> HIDE DEF At, Start, t
    <3> QED BY <1>1, <1>5, <1>6, <2>1, EscapedFrom
  <2>3. q \in parser .. Scanned-1
    <3> HIDE DEF Start, Scanned
    <3> QED BY <1>1, <1>6
  <2> QED BY <1>5, <2>2, <2>3 DEF UnescapedTerms
<1>8. OverBudget(input, Read.error, parser) = Read.error
  <2>1. terms # {} /\ MaxInputBytes = Scanned
    BY <1>7, ScannedIs DEF ScanInv, ScanTypes
  <2> QED BY <1>1, <2>1, OverBudgetIs
<1>9. Parsed.is # "end"
  BY <1>1 DEF ReturnsFor
<1>10. Parsed.is = "segment" => Parsed.to <= Scanned
  <2> SUFFICES ASSUME Parsed.is = "segment" PROVE Parsed.to <= Scanned
    OBVIOUS
  <2>1. Parsed.to \in Start+1 .. v
    BY <1>1, <1>3 DEF ReturnsFor, v
  <2> HIDE DEF Start, Scanned
  <2> QED BY <1>1, <1>2, <2>1
<1>11. Parsed.is = "error" => Reach <= Scanned
  <2> SUFFICES ASSUME Parsed.is = "error" PROVE Reach <= Scanned
    OBVIOUS
  <2>1. Parsed.error.kind \in ParseErrors \ {"SegmentTooLong", "UnexpectedEof", "InvalidReleaseSequence"}
    <3>1. UnescapedTerms(input, Start, v, t) # {}
      BY <1>4
    <3> QED BY <1>1, <1>3, <3>1 DEF ReturnsFor, v
  <2>2. Resumable /\ Parsed.error.kind # "SegmentTooLong"
    BY <2>1 DEF Resumable, TerminalKinds, LimitExceeded, ParseErrors
  <2>3. WindowEnd \in Nat /\ q \in Start .. WindowEnd-1
    <3>1. v <= WindowEnd /\ WindowEnd \in Nat
      <4>1. WindowEnd \in Start+1 .. Len(input)
        BY <1>1, ReachIs
      <4>2. Window(Start, Scanned) <= Window(Start, Len(input))
        <5> HIDE DEF Start, Scanned
        <5> QED BY <1>1, SyntaxAssumption DEF Window, Lesser
      <4> HIDE DEF Start, WindowEnd, Scanned
      <4> QED BY <1>1, <4>1, <4>2 DEF v
    <3> HIDE DEF Start, WindowEnd
    <3> QED BY <1>1, <1>6, <1>2, <3>1
  <2>4. q \in Stops
    <3>1. q \in UnescapedTerms(input, Start, WindowEnd, t)
      <4> HIDE DEF Start, WindowEnd, t, At
      <4> QED BY <1>5, <2>3 DEF UnescapedTerms
    <3> QED BY <1>1, <3>1
  <2>5. /\ UnescapedTerms(input, Start, Reach, t) = {Reach - 1}
        /\ Reach \in Start+1 .. Len(input)
    BY <1>1, <2>2, <2>4, ReachIs
  <2>6. q < Reach => q = Reach - 1
    <3> SUFFICES ASSUME q < Reach PROVE q \in UnescapedTerms(input, Start, Reach, t)
      BY <2>5
    <3>1. q \in Start .. Reach-1
      <4> HIDE DEF Start, Reach
      <4> QED BY <1>1, <1>6, <2>5
    <3> HIDE DEF Start, Reach, t, At
    <3> QED BY <1>5, <3>1 DEF UnescapedTerms
  <2> HIDE DEF Start, Reach, Scanned
  <2> QED BY <1>1, <1>6, <2>5, <2>6
<1> QED BY <1>3, <1>8, <1>9, <1>10, <1>11 DEF Agree

(* With no terminator within the budget, an overlong segment is found out  *)
(* where it lies within.                                                   *)
LEMMA OverlongWithinBudget ==
  ASSUME ScanInv, Parsing, parser <= Scanned, Truncated(input), TermOf(input) # "ws",
         Start + MaxSegmentBytes + 1 <= Scanned, Within = {}
  PROVE  Agree
<1> DEFINE t == TermOf(input)
           w == Start + MaxSegmentBytes + 1
           terms == UnescapedTerms(input, parser, Scanned, t)
<1>1. /\ Start \in Nat /\ Len(input) \in Nat /\ Scanned \in Nat /\ Start <= Len(input)
      /\ parser \in Nat /\ parser <= Start
      /\ Start = SkipWs(input, parser, Len(input))
      /\ \A p \in parser .. Start-1 : At(input, p) = "ws"
      /\ WindowEnd = Window(Start, Len(input))
      /\ Stops = UnescapedTerms(input, Start, WindowEnd, t)
      /\ ReturnsFor(Parsed, input, t, Start, Len(input))
  BY Standing
<1>2. Scanned < Len(input) /\ MaxInputBytes = Scanned
  BY ScannedIs DEF ScanInv, ScanTypes
<1>3. Start < Scanned /\ Start < Len(input) /\ w \in Nat /\ parser \in 0..Scanned
      /\ parser \in 0..Len(input)
  <2> HIDE DEF Start, Scanned
  <2> QED BY <1>1, <1>2, SyntaxAssumption
<1>4. SkipWs(input, parser, Scanned) = Start
  <2>1. SkipWs(input, parser, Scanned) = IF Start < Scanned THEN Start ELSE Scanned
    BY Standing
  <2> QED BY <1>3, <2>1
<1>5. Window(Start, Scanned) = w /\ Window(Start, Len(input)) = w
  <2> HIDE DEF Start, Scanned
  <2> QED BY <1>1, <1>2, <1>3, SyntaxAssumption DEF Window, Lesser
<1>6. UnescapedTerms(input, Start, w, t) = {} /\ Stops = {}
  BY <1>1, <1>5 DEF Within
<1>7. Parsed.is # "segment"
  <2> SUFFICES ASSUME Parsed.is = "segment" PROVE FALSE
    OBVIOUS
  <2>1. Parsed.to \in Start+1 .. w
    BY <1>1, <1>5 DEF ReturnsFor
  <2>2. Parsed.to <= w
    <3> HIDE DEF Start, w
    <3> QED BY <1>1, <1>3, <2>1
  <2>3. Parsed.to - 1 \in UnescapedTerms(input, Start, w, t)
    <3> HIDE DEF Start, w
    <3> QED BY <1>1, <1>3, <2>2, SegmentTerm DEF Parsed
  <2> QED BY <1>6, <2>3
<1>8. Parsed.is = "error"
  <2>1. Start # Len(input)
    <3> HIDE DEF Start
    <3> QED BY <1>1, <1>3
  <2> QED BY <1>1, <1>7, <2>1 DEF ReturnsFor
<1>9. Parsed.error.kind \in ParseErrors \ {"UnexpectedEof", "InvalidReleaseSequence"}
  <2>1. w # Len(input)
    <3> HIDE DEF Start, Scanned
    <3> QED BY <1>1, <1>2
  <2> QED BY <1>1, <1>5, <1>8, <2>1 DEF ReturnsFor
<1>10. Reach <= Scanned
  <2>1. CASE Parsed.error.kind = "SegmentTooLong"
    <3>1. Reach = Lesser(Len(input), w)
      BY <1>1, <1>3, <2>1, ReachIs
    <3> HIDE DEF Start, Scanned, Reach
    <3> QED BY <1>1, <1>2, <1>3, <3>1 DEF Lesser
  <2>2. CASE Parsed.error.kind # "SegmentTooLong"
    <3>1. Resumable
      BY <1>9, <2>2 DEF Resumable, TerminalKinds, LimitExceeded, ParseErrors
    <3>2. Reach = w
      BY <1>1, <1>3, <1>5, <1>6, <2>2, <3>1, ReachIs
    <3> QED BY <3>2
  <2> QED BY <2>1, <2>2
<1>11. \/ Read = Parsed
       \/ /\ Read = Failure("InvalidReleaseSequence", Scanned - 1)
          /\ Parsed = Failure("SegmentTooLong", Start)
          /\ Window(Start, Scanned) = Scanned
  <2> HIDE DEF Start, Scanned
  <2> QED BY <1>1, <1>2, <1>3, ProofInside DEF Read, Parsed
<1>12. CASE Read = Parsed
  <2>1. OverBudget(input, Read.error, parser) = Read.error
    <3> DEFINE e == Read.error
    <3>1. e # Error("InvalidReleaseSequence", MaxInputBytes - 1)
      BY <1>9, <1>12 DEF Error
    <3>2. Start = SkipWs(input, parser, MaxInputBytes) /\ MaxInputBytes \in Nat
          /\ parser <= MaxInputBytes /\ ~(Start + MaxSegmentBytes + 1 > MaxInputBytes)
      <4>1. Start = SkipWs(input, parser, MaxInputBytes)
        BY <1>2, <1>4
      <4> HIDE DEF Start, Scanned
      <4> QED BY <1>1, <1>2, <1>3, <4>1
    <3> HIDE DEF e, Start, Scanned
    <3>3. \A terms_ : terms_ = UnescapedTerms(input, parser, MaxInputBytes, TermOf(input))
            => OverBudget(input, e, parser) = e
      BY <1>1, <3>1, <3>2, OverBudgetIs
    <3> QED BY <3>3 DEF e
  <2> QED BY <1>8, <1>10, <1>12, <2>1 DEF Agree
<1>13. CASE /\ Read = Failure("InvalidReleaseSequence", Scanned - 1)
            /\ Parsed = Failure("SegmentTooLong", Start)
            /\ Window(Start, Scanned) = Scanned
  <2>1. /\ Read.is = "error" /\ Read.error = Error("InvalidReleaseSequence", Scanned - 1)
        /\ Read.error.kind # "SegmentTooLong"
        /\ Parsed.error = Error("SegmentTooLong", Start)
    BY <1>13 DEF Failure, Error
  <2>2. terms = {}
    <3>1. w = Scanned
      BY <1>5, <1>13
    <3>2. UnescapedTerms(input, parser, Scanned, t) = UnescapedTerms(input, Start, Scanned, t)
      <4> HIDE DEF Start, Scanned, t, At
      <4>1. t # "ws"
        BY DEF t
      <4> QED BY <1>1, <4>1, TermsAfterBlanks
    <3> HIDE DEF w
    <3> QED BY <1>6, <3>1, <3>2
  <2>3. OverBudget(input, Read.error, parser) = Error("SegmentTooLong", Start)
    <3> DEFINE e == Read.error
    <3>1. Start = SkipWs(input, parser, MaxInputBytes) /\ MaxInputBytes \in Nat
          /\ parser <= MaxInputBytes /\ ~(Start + MaxSegmentBytes + 1 > MaxInputBytes)
      <4>1. Start = SkipWs(input, parser, MaxInputBytes)
        BY <1>2, <1>4
      <4> HIDE DEF Start, Scanned
      <4> QED BY <1>1, <1>2, <1>3, <4>1
    <3>2. UnescapedTerms(input, parser, MaxInputBytes, TermOf(input)) = {}
      BY <1>2, <2>2
    <3>3. e = Error("InvalidReleaseSequence", MaxInputBytes - 1)
          /\ e.kind # "SegmentTooLong"
      BY <1>2, <2>1
    <3> HIDE DEF e, Start, Scanned
    <3>4. \A terms_ : terms_ = UnescapedTerms(input, parser, MaxInputBytes, TermOf(input))
            => OverBudget(input, e, parser) = Error("SegmentTooLong", Start)
      BY <1>1, <3>1, <3>2, <3>3, OverBudgetIs
    <3> QED BY <3>4 DEF e
  <2> QED BY <1>8, <1>10, <2>1, <2>3 DEF Agree
<1> QED BY <1>11, <1>12, <1>13

(* ... and otherwise the budget is what ends. *)
LEMMA PastBudget ==
  ASSUME ScanInv, Parsing, parser <= Scanned, Truncated(input), TermOf(input) # "ws",
         Start < Scanned, Start + MaxSegmentBytes + 1 > Scanned, Within = {}
  PROVE  OutOfBudget
<1> DEFINE t == TermOf(input)
           w == Start + MaxSegmentBytes + 1
<1>1. /\ Start \in Nat /\ Len(input) \in Nat /\ Scanned \in Nat /\ Start <= Len(input)
      /\ parser \in Nat /\ parser <= Start
      /\ Start = SkipWs(input, parser, Len(input))
      /\ \A p \in parser .. Start-1 : At(input, p) = "ws"
      /\ WindowEnd = Window(Start, Len(input))
      /\ ReturnsFor(Parsed, input, t, Start, Len(input))
      /\ SkipWs(input, parser, Scanned) = Start
      /\ ReturnsFor(Read, input, t, Start, Scanned)
  BY Standing
<1>2. Scanned < Len(input) /\ MaxInputBytes = Scanned
      /\ BytesLimit = BytesBudgetExceeded
  BY ScannedIs DEF ScanInv, ScanTypes
<1>3. Start < Len(input) /\ w \in Nat /\ parser \in 0..Scanned
      /\ parser \in 0..Len(input)
  <2> HIDE DEF Start, Scanned
  <2> QED BY <1>1, <1>2, SyntaxAssumption
<1>4. Window(Start, Scanned) = Scanned /\ Window(Start, Len(input)) > Scanned
  <2> HIDE DEF Start, Scanned
  <2> QED BY <1>1, <1>2, <1>3, SyntaxAssumption DEF Window, Lesser
<1>5. UnescapedTerms(input, Start, Scanned, t) = {}
  BY <1>4 DEF Within
<1>6. ASSUME NEW p, NEW len \in Nat, p = ParseSegment(input, len, t, parser),
             parser \in 0..len, Start = SkipWs(input, parser, len),
             p.is = "segment"
      PROVE  p.to > Scanned
  <2>1. p.to \in Start+1 .. len
        /\ \A v \in Nat : p.to <= v => p.to - 1 \in UnescapedTerms(input, Start, v, t)
    <3> HIDE DEF Start
    <3> QED BY <1>6, SegmentTerm
  <2>2. ~(p.to <= Scanned)
    <3> HIDE DEF Start
    <3> QED BY <1>1, <1>5, <2>1
  <2> HIDE DEF Start, Scanned
  <2> QED BY <1>1, <1>6, <2>1, <2>2
<1>7. Read.is # "segment"
  <2> SUFFICES ASSUME Read.is = "segment" PROVE FALSE
    OBVIOUS
  <2>1. Read.to > Scanned
    <3> HIDE DEF Start, Scanned
    <3> QED BY <1>1, <1>3, <1>6 DEF Read
  <2>2. Read.to \in Start+1 .. Scanned
    BY <1>1, <1>4 DEF ReturnsFor
  <2> HIDE DEF Start, Scanned
  <2> QED BY <1>1, <2>1, <2>2
<1>8. Read.is = "error"
  <2>1. Start # Scanned
    <3> HIDE DEF Start, Scanned
    <3> QED BY <1>1
  <2> QED BY <1>1, <1>7, <2>1 DEF ReturnsFor
<1>9. Read.error.kind # "SegmentTooLong"
  <2>1. w # Scanned
    <3> HIDE DEF Start, Scanned
    <3> QED BY <1>1
  <2> QED BY <1>1, <1>4, <1>8, <2>1 DEF ReturnsFor
<1>10. OverBudget(input, Read.error, parser) = BytesBudgetExceeded
  <2> DEFINE e == Read.error
  <2>1. Start = SkipWs(input, parser, MaxInputBytes) /\ MaxInputBytes \in Nat
        /\ parser <= MaxInputBytes /\ Start + MaxSegmentBytes + 1 > MaxInputBytes
    <3>1. Start = SkipWs(input, parser, MaxInputBytes)
      BY <1>1, <1>2
    <3> HIDE DEF Start, Scanned
    <3> QED BY <1>1, <1>2, <1>3, <3>1
  <2>2. UnescapedTerms(input, parser, MaxInputBytes, TermOf(input)) = {}
    <3>1. UnescapedTerms(input, parser, Scanned, t) = UnescapedTerms(input, Start, Scanned, t)
      <4> HIDE DEF Start, Scanned, t, At
      <4>1. t # "ws"
        BY DEF t
      <4> QED BY <1>1, <4>1, TermsAfterBlanks
    <3> QED BY <1>2, <1>5, <3>1
  <2> HIDE DEF e, Start, Scanned
  <2>3. \A terms_ : terms_ = UnescapedTerms(input, parser, MaxInputBytes, TermOf(input))
          => OverBudget(input, e, parser) = BytesBudgetExceeded
    <3>1. e.kind # "SegmentTooLong"
      BY <1>9 DEF e
    <3> QED BY <1>1, <2>1, <2>2, <3>1, OverBudgetIs
  <2> QED BY <2>3 DEF e
<1>11. Parsed.is = "segment" => Parsed.to > Scanned
  <2> HIDE DEF Start, Scanned
  <2> QED BY <1>1, <1>3, <1>6 DEF Parsed
<1>12. Parsed.is = "error" => Reach > Scanned
  <2> SUFFICES Reach > Scanned
    OBVIOUS
  <2>1. CASE Parsed.error.kind = "SegmentTooLong"
    <3>1. Reach = Lesser(Len(input), w)
      BY <1>1, <1>3, <2>1, ReachIs
    <3> HIDE DEF Start, Scanned, Reach
    <3> QED BY <1>1, <1>2, <1>3, <3>1 DEF Lesser
  <2>2. CASE Parsed.error.kind # "SegmentTooLong" /\ ~Resumable
    <3>1. Reach = Len(input)
      BY <1>1, <1>3, <2>2, ReachIs
    <3> QED BY <1>2, <3>1
  <2>3. CASE Parsed.error.kind # "SegmentTooLong" /\ Resumable /\ Stops = {}
    <3>1. Reach = WindowEnd
      BY <1>1, <1>3, <2>3, ReachIs
    <3> QED BY <1>1, <1>4, <3>1
  <2>4. CASE Parsed.error.kind # "SegmentTooLong" /\ Resumable /\ Stops # {}
    <3>1. UnescapedTerms(input, Start, Reach, t) = {Reach - 1}
          /\ Reach \in Start+1 .. Len(input)
      BY <1>1, <1>3, <2>4, ReachIs
    <3>2. ~(Reach <= Scanned)
      <4> SUFFICES ASSUME Reach <= Scanned PROVE FALSE
        OBVIOUS
      <4>1. Start \in Int /\ Reach \in Int /\ Scanned \in Int
        <5> HIDE DEF Start, Scanned, Reach
        <5> QED BY <1>1, <3>1
      <4>2. Reach - 1 \in UnescapedTerms(input, Start, Scanned, t)
        <5> HIDE DEF Start, Scanned, Reach, t
        <5> QED BY <3>1, <4>1, TermsWiden
      <4> QED BY <1>5, <4>2
    <3> HIDE DEF Start, Scanned, Reach
    <3> QED BY <1>1, <3>1, <3>2
  <2> QED BY <2>1, <2>2, <2>3, <2>4
<1> QED BY <1>8, <1>10, <1>11, <1>12 DEF OutOfBudget

(* Wherever the parser stands within the budget, the two agree on what     *)
(* lies there, or both find that it is past the budget.                    *)
LEMMA Verdict ==
  ASSUME ScanInv, Parsing, parser <= Scanned, TermOf(input) # "ws"
  PROVE  Agree \/ OutOfBudget
<1>1. Start \in Nat /\ Scanned \in Nat
  BY Standing
<1>2. CASE ~Truncated(input)
  BY <1>2, WholeAgree
<1>3. CASE Truncated(input) /\ Start >= Scanned
  BY <1>3, BlankToBudget
<1>4. CASE Truncated(input) /\ Start < Scanned /\ Within # {}
  BY <1>4, TermWithinBudget
<1>5. CASE Truncated(input) /\ Start < Scanned /\ Within = {}
  <2>1. CASE Start + MaxSegmentBytes + 1 <= Scanned
    BY <1>5, <2>1, OverlongWithinBudget
  <2>2. CASE Start + MaxSegmentBytes + 1 > Scanned
    BY <1>5, <2>2, PastBudget
  <2> QED
    <3>1. Start + MaxSegmentBytes + 1 <= Scanned \/ Start + MaxSegmentBytes + 1 > Scanned
      <4> HIDE DEF Start, Scanned
      <4> QED BY <1>1, SyntaxAssumption
    <3> QED BY <2>1, <2>2, <3>1
<1>6. Start >= Scanned \/ Start < Scanned
  <2> HIDE DEF Start, Scanned
  <2> QED BY <1>1
<1> QED BY <1>2, <1>3, <1>4, <1>5, <1>6

-----------------------------------------------------------------------------
(* The iterator after every call, as the definition says.                  *)
LEMMA CallStep ==
  ASSUME NEW s, Len(s) \in Nat
  PROVE  /\ AfterCall(s)[0] = Opened(s)
         /\ \A k \in 1..Len(s)+1 : AfterCall(s)[k] = Called(s, AfterCall(s)[k-1])
<1> DEFINE last == Len(s) + 1
           Turn(v) == Called(s, v)
           Is(f, n) == f = [k \in 0..n |-> IF k = 0 THEN Opened(s) ELSE Turn(f[k-1])]
<1>l. last \in Nat
  OBVIOUS
<1>d. AfterCall(s) = CHOOSE f : Is(f, last)
  BY DEF AfterCall, Turn
<1> HIDE DEF Turn, last
<1>1. \E f : Is(f, 0)
  <2> DEFINE f == [k \in 0..0 |-> Opened(s)]
  <2>1. Is(f, 0)
    OBVIOUS
  <2> QED BY <2>1
<1>2. ASSUME NEW n \in Nat, n # 0, NEW f, Is(f, n-1)
      PROVE  \E g : Is(g, n)
  <2> DEFINE g == [k \in 0..n |-> IF k = n THEN Turn(f[n-1]) ELSE f[k]]
  <2>1. \A k \in 0..n-1 : g[k] = f[k]
    OBVIOUS
  <2>2. \A k \in 0..n : g[k] = IF k = 0 THEN Opened(s) ELSE Turn(g[k-1])
    BY <1>2, <2>1
  <2>3. Is(g, n)
    BY <2>2
  <2> QED BY <2>3
<1> DEFINE F == {n \in Nat : \E f : Is(f, n)}
<1>3. \A i \in 0+1..last : i-1 \in F => i \in F
  <2> HIDE DEF Is
  <2>1. SUFFICES ASSUME NEW i \in 0+1..last, i-1 \in F PROVE i \in F
    OBVIOUS
  <2>2. i \in Nat /\ i # 0
    BY <1>l
  <2>3. PICK f : Is(f, i-1)
    BY <2>1
  <2>4. \E g : Is(g, i)
    BY <1>2, <2>2, <2>3
  <2> QED BY <2>2, <2>4
<1>4. 0 \in F
  BY <1>1
<1>5. \A i \in 0..last : i \in F
  <2>1. last \in Int /\ 0 \in Int
    BY <1>l
  <2> HIDE DEF F
  <2> QED BY <1>3, <1>4, <2>1, ClimbsTo, Zenon
<1>6. \E f : Is(f, last)
  BY <1>5, <1>l
<1>8. Is(AfterCall(s), last)
  <2> HIDE DEF Is
  <2> QED BY <1>6, <1>d
<1>9. /\ AfterCall(s)[0] = Opened(s)
      /\ \A k \in 1..last : AfterCall(s)[k] = Turn(AfterCall(s)[k-1])
  <2> DEFINE f == AfterCall(s)
  <2> HIDE DEF f
  <2>1. f = [k \in 0..last |-> IF k = 0 THEN Opened(s) ELSE Turn(f[k-1])]
    BY <1>8 DEF f
  <2>2. f[0] = Opened(s) /\ \A k \in 1..last : f[k] = Turn(f[k-1])
    BY <2>1, <1>l
  <2> QED BY <2>2 DEF f
<1> QED BY <1>9 DEF Turn, last

(* An iterator that is exhausted goes on returning None: what it yields is *)
(* settled.                                                                *)
LEMMA DoneStays ==
  ASSUME NEW s, Len(s) \in Nat, NEW k \in 0..Len(s)+1, AfterCall(s)[k].done
  PROVE  /\ Yields(s).segs = AfterCall(s)[k].segs
         /\ Yields(s).error = AfterCall(s)[k].error
<1> DEFINE last == Len(s) + 1
           after == AfterCall(s)
           F == {j \in Int : after[j] = after[k]}
<1>1. \A j \in k+1..last : j-1 \in F => j \in F
  <2>1. SUFFICES ASSUME NEW j \in k+1..last, j-1 \in F PROVE after[j] = after[k]
    OBVIOUS
  <2>2. after[j] = Called(s, after[j-1])
    <3>1. j \in 1..Len(s)+1
      OBVIOUS
    <3> QED BY <3>1, CallStep
  <2>3. after[j-1] = after[k]
    BY <2>1
  <2>4. Called(s, after[k]) = after[k]
    BY DEF Called
  <2> QED BY <2>2, <2>3, <2>4
<1>2. k \in F /\ k \in Int /\ last \in Int /\ last \in k..last
  OBVIOUS
<1>3. \A j \in k..last : j \in F
  <2> HIDE DEF F, last
  <2> QED BY <1>1, <1>2, ClimbsTo, Zenon
<1>4. after[last] = after[k]
  BY <1>2, <1>3
<1> QED BY <1>4 DEF Yields

-----------------------------------------------------------------------------
(* The parts of the inductive invariant for the strict parser. *)
SpansOf(n) == [i \in 1..n |-> SpanOf(items[i])]

(* Before the first fault the strict parser is where the scan is, or has   *)
(* ended already, because the prologue crosses the budget.                 *)
Abreast ==
  /\ parser <= Scanned /\ Len(items) <= parser
  /\ AfterCall(input)[Len(items)] =
       Iterator(parser, budget, SpansOf(Len(items)), NoError, FALSE)

EndedWithBudget ==
  /\ AfterCall(input)[0].done /\ AfterCall(input)[0].segs = <<>>
  /\ AfterCall(input)[0].error = BytesBudgetExceeded

Precluded == items = <<>> /\ parser > Scanned /\ EndedWithBudget

InStep ==
  ~done /\ pending = <<>> /\ FaultsAt = {} =>
    ~BadUna(input) /\ (Abreast \/ Precluded)

UnaRefused ==
  ~done /\ pending # <<>> /\ items = <<>> =>
    \/ PrologueEnd(input) > Scanned /\ EndedWithBudget
    \/ /\ PrologueEnd(input) <= Scanned
       /\ AfterCall(input)[0].done /\ AfterCall(input)[0].segs = <<>>
       /\ AfterCall(input)[0].error = Error("InvalidUna", NoOffset)

(* What the strict parser yields, once the scan has met a fault or ended.  *)
FirstFaultIs(k) ==
  /\ k+1 \in FaultsAt /\ \A i \in FaultsAt : k+1 <= i
  /\ StrictYields.error # NoError
  /\ \/ items[k+1].error = StrictYields.error
     \/ items[k+1].error.kind \in CountLimits

YieldedUpTo(k) ==
  /\ StrictYields.segs = SpansOf(k)
  /\ FaultsAt = {} => k = Len(items) /\ StrictYields.error = NoError
  /\ FaultsAt # {} => FirstFaultIs(k)

Told == done \/ FaultsAt # {} => \E k \in 0..Len(items) : YieldedUpTo(k)

StrictInv == InStep /\ UnaRefused /\ Told

(* The spans of the items so far, and of one item more.                    *)
Spans == [from: Nat, to: Nat]

LEMMA SpansGrow ==
  ASSUME ScanInv, NEW item, IsItem(item), items' = Append(items, item),
         NEW n, n = Len(items)
  PROVE  /\ n \in Nat
         /\ \A k \in 0..n : SpansOf(k)' = SpansOf(k)
         /\ Append(SpansOf(n), SpanOf(item)) = SpansOf(n + 1)'
<1>1. /\ n \in Nat /\ Len(items') = n + 1 /\ items'[n+1] = item
      /\ \A i \in 1..n : items'[i] = items[i]
  BY OneMore
<1>2. ASSUME NEW k \in 0..n PROVE SpansOf(k)' = SpansOf(k)
  BY <1>1 DEF SpansOf, SpanOf
<1>3. \A i \in 1..n : SpanOf(items[i]) \in Spans
  BY DEF ScanInv, ScanTypes, SpanOf, Spans
<1>4. SpanOf(item) \in Spans
  BY DEF IsItem, SpanOf, Spans
<1> DEFINE f == SpansOf(n)
           g == SpansOf(n+1)'
<1>5. f \in Seq(Spans) /\ Len(f) = n /\ \A i \in 1..n : f[i] = SpanOf(items[i])
  <2>1. f = [i \in 1..n |-> SpanOf(items[i])]
    BY DEF SpansOf
  <2> HIDE DEF f
  <2> QED BY <1>1, <1>3, <2>1
<1>6. g \in Seq(Spans) /\ Len(g) = n+1 /\ g[n+1] = SpanOf(item)
      /\ \A i \in 1..n : g[i] = SpanOf(items[i])
  <2>1. g = [i \in 1..n+1 |-> SpanOf(items'[i])]
    BY DEF SpansOf, SpanOf
  <2> HIDE DEF g
  <2>2. \A i \in 1..n+1 : SpanOf(items'[i]) \in Spans
    BY <1>1, <1>3, <1>4
  <2> QED BY <1>1, <2>1, <2>2
<1>7. Append(f, SpanOf(item)) = g
  <2> DEFINE x == SpanOf(item)
             h == Append(f, x)
  <2>1. /\ h \in Seq(Spans) /\ Len(h) = n+1 /\ h[n+1] = x
        /\ \A i \in 1..n : h[i] = f[i]
    <3> HIDE DEF f, x
    <3>1. x \in Spans
      BY <1>4 DEF x
    <3>2. f \in Seq(Spans) /\ Len(f) = n
      BY <1>5
    <3>3. /\ h \in Seq(Spans) /\ Len(h) = Len(f)+1 /\ h[Len(f)+1] = x
          /\ \A i \in 1..Len(f) : h[i] = f[i]
      BY <3>1, <3>2, AppendProperties
    <3> QED BY <3>2, <3>3
  <2> HIDE DEF f, g, h, x
  <2>2. \A i \in 1..n+1 : h[i] = g[i]
    BY <1>1, <1>5, <1>6, <2>1 DEF x
  <2>3. h = g
    BY <1>1, <1>6, <2>1, <2>2, SeqEqual
  <2> QED BY <2>3 DEF h, x
<1> QED BY <1>1, <1>2, <1>7

(* Where the scan goes on from an item, the strict parser's verdict keeps. *)
LEMMA VerdictKeeps ==
  ASSUME ScanInv, StrictInv, NEW item, NEW next, NEW rest, Yield(item, next, rest),
         IsItem(item), item.is = "fault" \/ FaultsAt # {},
         FaultsAt = {} => /\ StrictYields.segs = SpansOf(Len(items))
                          /\ StrictYields.error # NoError
                          /\ \/ item.error = StrictYields.error
                             \/ item.error.kind \in CountLimits
  PROVE  StrictInv'
<1> PICK n : n = Len(items)
  OBVIOUS
<1>1. /\ n \in Nat /\ Len(items') = n + 1 /\ items'[n+1] = item
      /\ \A i \in 1..n : items'[i] = items[i]
      /\ items' # <<>>
  BY OneMore DEF Yield
<1>2. \A k \in 0..n : SpansOf(k)' = SpansOf(k)
  BY SpansGrow DEF Yield
<1>3. StrictYields' = StrictYields
  BY DEF Yield, StrictYields
<1>4. FaultsAt \subseteq FaultsAt' /\ FaultsAt' \subseteq FaultsAt \cup {n+1}
      /\ (item.is = "fault" => n+1 \in FaultsAt')
  <2>1. FaultsAt' = {i \in 1..n+1 : items'[i].is = "fault"}
    BY <1>1 DEF FaultsAt
  <2>2. \A i \in 1..n+1 : i \in 1..n \/ i = n+1
    BY <1>1
  <2>3. \A i \in 1..n : i \in 1..n+1
    BY <1>1
  <2>4. n+1 \in 1..n+1
    BY <1>1
  <2> QED BY <1>1, <2>1, <2>2, <2>3, <2>4 DEF FaultsAt
<1>5. FaultsAt' # {}
  BY <1>4
<1>6. FaultsAt \subseteq 1..n
  BY DEF FaultsAt
<1>7. ASSUME NEW k \in 0..n, StrictYields.segs = SpansOf(k), FirstFaultIs(k)'
      PROVE  Told'
  <2>1. YieldedUpTo(k)'
    <3>1. (StrictYields.segs = SpansOf(k))'
      BY <1>2, <1>3, <1>7
    <3> QED BY <1>5, <1>7, <3>1 DEF YieldedUpTo
  <2>2. k \in 0..Len(items')
    BY <1>1
  <2>3. \E j \in 0..Len(items') : YieldedUpTo(j)'
    BY <2>1, <2>2
  <2> QED BY <2>3 DEF Told
<1>8. CASE FaultsAt = {}
  <2>1. FaultsAt' = {n+1}
    BY <1>4, <1>8
  <2>2. FirstFaultIs(n)'
    BY <1>1, <1>3, <1>8, <2>1 DEF FirstFaultIs
  <2>3. n \in 0..n
    BY <1>1
  <2> QED BY <1>1, <1>5, <1>7, <1>8, <2>2, <2>3 DEF StrictInv, InStep, UnaRefused
<1>9. CASE FaultsAt # {}
  <2>1. PICK k \in 0..n : YieldedUpTo(k)
    BY <1>9 DEF StrictInv, Told
  <2>2. FirstFaultIs(k) /\ StrictYields.segs = SpansOf(k)
    BY <1>9, <2>1 DEF YieldedUpTo
  <2>3. k+1 \in 1..n
    BY <1>6, <2>2 DEF FirstFaultIs
  <2>4. FirstFaultIs(k)'
    <3>1. k+1 \in FaultsAt' /\ items'[k+1] = items[k+1]
      BY <1>1, <1>4, <2>2, <2>3 DEF FirstFaultIs
    <3>2. \A i \in FaultsAt' : k+1 <= i
      BY <1>1, <1>4, <2>2, <2>3 DEF FirstFaultIs
    <3> QED BY <1>3, <2>2, <3>1, <3>2 DEF FirstFaultIs
  <2> QED BY <1>1, <1>5, <1>7, <2>2, <2>4 DEF StrictInv, InStep, UnaRefused
<1> QED BY <1>8, <1>9

(* The error of an item that emit_fault yields: the fault's own, unless it *)
(* is past the byte budget, or one fault or segment too many.              *)
ErrorSettled(e, error, read) ==
  /\ error.kind \in LimitExceeded => e = error
  /\ error.kind \notin LimitExceeded /\ ~AdmitsBytes(read) => e = BytesLimit
  /\ error.kind \notin LimitExceeded /\ AdmitsBytes(read)
       => e = error \/ e.kind \in CountLimits

LEMMA SettledError ==
  ASSUME NEW from, NEW to, NEW tag, NEW error, NEW terminal, NEW read,
         read = IF error.kind = "SegmentTooLong"
                THEN Lesser(to, error.at + MaxSegmentBytes + 1) ELSE to
  PROVE  ErrorSettled(Settled(FaultItem(from, to, tag, error, terminal)).error, error, read)
<1> DEFINE fault == FaultItem(from, to, tag, error, terminal)
           item  == Settled(fault)
           limit == IF error.kind \in LimitExceeded THEN NoError
                    ELSE Exceeded(tag, from, read, TRUE)
           cut   == Lesser(to, MaxInputBytes)
<1>1. fault = [is |-> "fault", from |-> from, to |-> to, tag |-> tag,
               error |-> error, terminal |-> terminal]
  BY DEF FaultItem
<1>2. /\ fault.error = error /\ fault.tag = tag /\ fault.from = from
      /\ fault.to = to /\ ReadEnd(fault) = read
  BY <1>1 DEF ReadEnd
<1>3. item = IF limit # NoError
             THEN [fault EXCEPT !.error = limit, !.terminal = TRUE]
             ELSE IF read < to /\ MaxInputBytes # None
             THEN [fault EXCEPT !.to = cut]
             ELSE fault
  <2> HIDE DEF fault
  <2> QED BY <1>2 DEF Settled
<1> HIDE DEF item, limit, cut
<1>4. item.error = IF limit # NoError THEN limit ELSE error
  BY <1>1, <1>3
<1>5. \A at : Error("max_faults", at) # NoError /\ BytesLimit # NoError
  BY DEF Error, NoError, BytesLimit
<1>6. \A at : Error(RefusedLimit(budget, tag), at).kind \in CountLimits
  BY DEF Error, RefusedLimit, CountLimits, LimitExceeded
<1>7. \A at : Error("max_faults", at).kind \in CountLimits
  BY DEF Error, CountLimits, LimitExceeded
<1>8. CASE error.kind \in LimitExceeded
  BY <1>4, <1>8 DEF limit, ErrorSettled, item
<1>9. CASE error.kind \notin LimitExceeded /\ ~AdmitsBytes(read)
  <2>1. limit = BytesLimit
    BY <1>9 DEF limit, Exceeded
  <2> QED BY <1>4, <1>5, <1>9, <2>1 DEF ErrorSettled, item
<1>10. CASE error.kind \notin LimitExceeded /\ AdmitsBytes(read)
  <2>1. limit = NoError \/ limit.kind \in CountLimits
    BY <1>6, <1>7, <1>10 DEF limit, Exceeded
  <2> QED BY <1>4, <1>10, <2>1 DEF ErrorSettled, item
<1> QED BY <1>8, <1>9, <1>10

(* A fault is yielded whose error the strict parser ends with.             *)
LEMMA FaultTold ==
  ASSUME ScanInv, StrictInv,
         NEW from \in Nat, NEW to \in Nat, NEW tag, NEW error, NEW terminal \in BOOLEAN,
         error.kind = "SegmentTooLong" => error.at \in Nat,
         error.kind \in LimitExceeded => terminal,
         NEW next, NEW rest, EmitFault(FaultItem(from, to, tag, error, terminal), next, rest),
         NEW read,
         read = IF error.kind = "SegmentTooLong"
                THEN Lesser(to, error.at + MaxSegmentBytes + 1) ELSE to,
         FaultsAt = {} =>
           /\ StrictYields.segs = SpansOf(Len(items))
           /\ StrictYields.error # NoError
           /\ error.kind \in LimitExceeded \/ AdmitsBytes(read) => StrictYields.error = error
           /\ error.kind \notin LimitExceeded /\ ~AdmitsBytes(read) =>
                StrictYields.error = BytesLimit
  PROVE  StrictInv'
<1> DEFINE fault == FaultItem(from, to, tag, error, terminal)
<1>1. budget \in Budgets /\ faults \in Nat
  BY DEF ScanInv, ScanTypes
<1>2. Yield(Settled(fault), next, rest)
  <2> HIDE DEF fault
  <2>1. EmitFault(fault, next, rest)
    BY DEF fault
  <2> QED BY <2>1 DEF EmitFault
<1>3. SettledAs(Settled(fault), from, to, error, terminal)
  BY <1>1, SettledFault
<1>4. IsItem(Settled(fault)) /\ Settled(fault).is = "fault"
  BY <1>3 DEF SettledAs
<1>5. ErrorSettled(Settled(fault).error, error, read)
  BY SettledError
<1> HIDE DEF fault
<1> DEFINE item == Settled(fault)
<1> HIDE DEF item
<1>6. FaultsAt = {} => /\ StrictYields.segs = SpansOf(Len(items))
                       /\ StrictYields.error # NoError
                       /\ \/ item.error = StrictYields.error
                          \/ item.error.kind \in CountLimits
  <2>1. ErrorSettled(item.error, error, read)
    BY <1>5 DEF item
  <2> QED BY <2>1 DEF ErrorSettled
<1>7. Yield(item, next, rest) /\ IsItem(item) /\ item.is = "fault"
  BY <1>2, <1>4 DEF item
<1> QED BY <1>6, <1>7, VerdictKeeps

(* A call of next(), case by case.                                         *)
CalledAs(next, s, parsed, at, b, segs, tag) ==
  /\ parsed.is = "end" =>
       /\ next.done /\ next.segs = segs
       /\ next.error = IF Truncated(s) THEN BytesBudgetExceeded ELSE NoError
  /\ parsed.is = "error" =>
       /\ next.done /\ next.segs = segs
       /\ next.error = OverBudget(s, parsed.error, at)
  /\ parsed.is = "segment" /\ ~AdmitsSegment(b, tag) =>
       /\ next.done /\ next.segs = segs
       /\ next.error = Error(RefusedLimit(b, tag), parsed.from)
  /\ parsed.is = "segment" /\ AdmitsSegment(b, tag) =>
       next = Iterator(parsed.to, Account(b, tag), Append(segs, SpanOf(parsed)),
                       NoError, FALSE)

LEMMA CalledIs ==
  ASSUME NEW s, NEW at, NEW b, NEW segs, NEW parsed,
         parsed = ParseSegment(s, ScannedLen(s), TermOf(s), at),
         NEW tag, tag = TagAt(s, parsed.from),
         NEW next, next = Called(s, Iterator(at, b, segs, NoError, FALSE))
  PROVE  CalledAs(next, s, parsed, at, b, segs, tag)
<1> DEFINE iter == Iterator(at, b, segs, NoError, FALSE)
<1>1. iter.at = at /\ iter.budget = b /\ iter.segs = segs /\ iter.done = FALSE
  BY DEF Iterator
<1>2. \A e : /\ EndedWith(iter, e).done /\ EndedWith(iter, e).segs = segs
             /\ EndedWith(iter, e).error = e
  BY <1>1 DEF EndedWith, Iterator
<1>3. next = Called(s, iter)
  OBVIOUS
<1> HIDE DEF iter
<1>4. next = IF parsed.is = "end"
             THEN EndedWith(iter, IF Truncated(s) THEN BytesBudgetExceeded ELSE NoError)
             ELSE IF parsed.is = "error"
             THEN EndedWith(iter, OverBudget(s, parsed.error, at))
             ELSE IF ~AdmitsSegment(b, tag)
             THEN EndedWith(iter, Error(RefusedLimit(b, tag), parsed.from))
             ELSE Iterator(parsed.to, Account(b, tag),
                           Append(segs, [from |-> parsed.from, to |-> parsed.to]),
                           NoError, FALSE)
  BY <1>1, <1>3 DEF Called
<1> QED BY <1>2, <1>4 DEF SpanOf, CalledAs

(* What the strict parser does next where the two are abreast: it ends ... *)
LEMMA StrictNext ==
  ASSUME ScanInv, Parsing, Abreast, NEW n, n = Len(items), NEW tag,
         tag = TagAt(input, Read.from)
  PROVE  /\ Read.is = "end" =>
              /\ StrictYields.segs = SpansOf(n)
              /\ StrictYields.error = IF Truncated(input) THEN BytesBudgetExceeded ELSE NoError
         /\ Read.is = "error" =>
              /\ StrictYields.segs = SpansOf(n)
              /\ StrictYields.error = OverBudget(input, Read.error, parser)
         /\ Read.is = "segment" /\ ~AdmitsSegment(budget, tag) =>
              /\ StrictYields.segs = SpansOf(n)
              /\ StrictYields.error = Error(RefusedLimit(budget, tag), Read.from)
         /\ Read.is = "segment" /\ AdmitsSegment(budget, tag) =>
              AfterCall(input)[n+1] =
                Iterator(Read.to, Account(budget, tag), Append(SpansOf(n), SpanOf(Read)),
                         NoError, FALSE)
<1>1. n \in Nat /\ Len(input) \in Nat /\ n <= Len(input)
  <2>1. parser \in 0..Len(input) /\ Len(input) \in Nat
    BY ParsingStart
  <2>2. n \in Nat
    BY DEF ScanInv, ScanTypes
  <2> QED BY <2>1, <2>2 DEF Abreast
<1>2. n+1 \in 1..Len(input)+1 /\ n+1 \in 0..Len(input)+1 /\ (n+1)-1 = n
  BY <1>1
<1> DEFINE next == AfterCall(input)[n+1]
<1>3. next = Called(input, AfterCall(input)[n])
  BY <1>1, <1>2, CallStep
<1>4. next = Called(input, Iterator(parser, budget, SpansOf(n), NoError, FALSE))
  BY <1>3 DEF Abreast
<1>5. next.done => StrictYields.segs = next.segs /\ StrictYields.error = next.error
  BY <1>1, <1>2, DoneStays DEF StrictYields
<1>6. Read = ParseSegment(input, ScannedLen(input), TermOf(input), parser)
  BY DEF Read, Scanned
<1> HIDE DEF next, Read
<1>7. CalledAs(next, input, Read, parser, budget, SpansOf(n), tag)
  BY <1>4, <1>6, CalledIs
<1> QED BY <1>5, <1>7 DEF next, CalledAs

(* ... or everything the scan still finds lies past the budget, and the    *)
(* budget is what the strict parser ends with.                             *)
Beyond ==
  /\ StrictYields.segs = SpansOf(Len(items)) /\ StrictYields.error = BytesLimit
  /\ Scanned < Len(input)
  /\ Parsed.is = "segment" => Parsed.to > Scanned
  /\ Parsed.is = "error" => Reach > Scanned

LEMMA TermIsNoBlank ==
  ASSUME NEW s, ~BadUna(s), SliceAdvice # "ws"
  PROVE  TermOf(s) # "ws"
BY DEF TermOf, BadUna, ValidAdvice

LEMMA NotNoError ==
  /\ BytesLimit # NoError /\ BytesLimit.kind \in LimitExceeded
  /\ \A kind, at : kind \in LimitExceeded \cup ParseErrors => Error(kind, at) # NoError
  /\ \A e : e.kind \in LimitExceeded \cup ParseErrors => e # NoError
BY DEF BytesLimit, Error, NoError, LimitExceeded, ParseErrors

LEMMA AgreeOrBeyond ==
  ASSUME ScanInv, StrictInv, Parsing, FaultsAt = {}, SliceAdvice # "ws"
  PROVE  (Abreast /\ Agree) \/ Beyond
<1>1. ~BadUna(input) /\ (Abreast \/ Precluded)
  BY DEF StrictInv, InStep, Parsing
<1>2. TermOf(input) # "ws"
  BY <1>1, TermIsNoBlank
<1>3. /\ input \in Seq(Bytes)
      /\ Scanned \in Nat /\ Scanned <= Len(input) /\ Len(input) \in Nat
      /\ Truncated(input) => Scanned < Len(input)
      /\ BytesLimit = BytesBudgetExceeded
  BY ScannedIs DEF ScanInv, ScanTypes
<1>4. CASE Abreast
  <2>1. Agree \/ OutOfBudget
    BY <1>2, <1>4, Verdict DEF Abreast
  <2>2. CASE OutOfBudget
    <3>1. StrictYields.segs = SpansOf(Len(items)) /\ StrictYields.error = BytesLimit
      BY <1>3, <1>4, <2>2, StrictNext DEF OutOfBudget
    <3> QED BY <1>3, <2>2, <3>1 DEF OutOfBudget, Beyond
  <2> QED BY <1>4, <2>1, <2>2
<1>5. CASE Precluded
  <2>1. /\ parser \in 0..Len(input) /\ Start \in Nat /\ Start \in parser..Len(input)
        /\ parser > Scanned /\ items = <<>>
    BY <1>5, ParsingStart DEF Precluded
  <2>2. Scanned < Len(input) /\ Start > Scanned
    <3> HIDE DEF Start, Scanned
    <3> QED BY <1>3, <2>1
  <2>3. StrictYields.segs = SpansOf(Len(items)) /\ StrictYields.error = BytesLimit
    <3>1. Len(items) = 0 /\ SpansOf(0) = <<>>
      BY <2>1 DEF SpansOf
    <3>2. 0 \in 0..Len(input)+1
      BY <1>3
    <3>3. /\ StrictYields.segs = AfterCall(input)[0].segs
          /\ StrictYields.error = AfterCall(input)[0].error
      BY <1>3, <1>5, <3>2, DoneStays DEF StrictYields, Precluded, EndedWithBudget
    <3> QED BY <1>3, <1>5, <3>1, <3>3 DEF Precluded, EndedWithBudget
  <2>4. ReturnsFor(Parsed, input, TermOf(input), Start, Len(input))
    <3>1. parser \in 0..Len(input)
      BY <2>1
    <3> QED BY <1>3, <3>1, Returns DEF Parsed, Start
  <2>5. Parsed.is = "segment" => Parsed.to > Scanned
    <3> SUFFICES ASSUME Parsed.is = "segment" PROVE Parsed.to > Scanned
      OBVIOUS
    <3>1. Parsed.to \in Start+1 .. Window(Start, Len(input))
      BY <2>4 DEF ReturnsFor
    <3> HIDE DEF Start, Scanned
    <3> QED BY <1>3, <2>1, <2>2, <3>1
  <2>6. Parsed.is = "error" => Reach > Scanned
    <3> SUFFICES ASSUME Parsed.is = "error" PROVE Reach > Scanned
      OBVIOUS
    <3>1. Start # Len(input)
      BY <2>4 DEF ReturnsFor
    <3>2. Start < Len(input)
      <4> HIDE DEF Start
      <4> QED BY <1>3, <2>1, <3>1
    <3>3. Reach \in Start+1 .. Len(input)
      BY <3>2, ReachIs
    <3> HIDE DEF Start, Reach, Scanned
    <3> QED BY <1>3, <2>1, <2>2, <3>3
  <2> QED BY <2>2, <2>3, <2>5, <2>6 DEF Beyond
<1> QED BY <1>1, <1>4, <1>5

-----------------------------------------------------------------------------
LEMMA EndTold ==
  ASSUME ScanInv, StrictInv, ReachEnd, SliceAdvice # "ws"
  PROVE  StrictInv'
<1>1. Parsing /\ Parsed.is = "end"
  BY DEF ReachEnd
<1>2. /\ Scanned \in Nat /\ Scanned <= Len(input) /\ Len(input) \in Nat
      /\ Truncated(input) => Scanned < Len(input)
      /\ AdmitsBytes(Len(input)) <=> Len(input) <= Scanned
      /\ ~Truncated(input) => Scanned = Len(input)
  <2>1. Len(input) <= Len(input) /\ Len(input) \in Nat
    BY DEF ScanInv, ScanTypes
  <2> QED BY <2>1, ScannedIs DEF ScanInv, ScanTypes
<1>3. CASE AdmitsBytes(Len(input))
  <2>1. /\ done' = TRUE /\ input' = input /\ items' = items
    BY <1>3 DEF ReachEnd
  <2>2. InStep' /\ UnaRefused'
    BY <2>1 DEF InStep, UnaRefused
  <2>3. \E k \in 0..Len(items) : YieldedUpTo(k)
    <3>1. CASE FaultsAt # {}
      BY <3>1 DEF StrictInv, Told
    <3>2. CASE FaultsAt = {}
      <4>1. Abreast /\ Agree
        BY <1>1, <1>2, <1>3, <3>2, AgreeOrBeyond DEF Beyond
      <4>2. Read.is = "end" /\ ~Truncated(input)
        BY <1>1, <4>1 DEF Agree
      <4>3. StrictYields.segs = SpansOf(Len(items)) /\ StrictYields.error = NoError
        BY <1>1, <4>1, <4>2, StrictNext
      <4>4. Len(items) \in 0..Len(items)
        BY DEF ScanInv, ScanTypes
      <4>5. YieldedUpTo(Len(items))
        BY <3>2, <4>3 DEF YieldedUpTo
      <4> QED BY <4>4, <4>5
    <3> QED BY <3>1, <3>2
  <2>4. Told'
    <3>1. ASSUME NEW k, YieldedUpTo(k) PROVE YieldedUpTo(k)'
      <4>1. StrictYields' = StrictYields /\ FaultsAt' = FaultsAt /\ SpansOf(k)' = SpansOf(k)
        BY <2>1 DEF StrictYields, FaultsAt, SpansOf
      <4> QED BY <2>1, <3>1, <4>1 DEF YieldedUpTo, FirstFaultIs
    <3> QED BY <2>1, <2>3, <3>1 DEF Told
  <2> QED BY <2>2, <2>4 DEF StrictInv
<1>4. CASE ~AdmitsBytes(Len(input))
  <2> DEFINE from == Lesser(cursor, Len(input))
  <2>1. EmitFault(FaultItem(from, Len(input), NoTag, BytesLimit, TRUE),
                  NoParser, <<>>)
    BY <1>4 DEF ReachEnd
  <2>2. from \in Nat
    BY <1>2 DEF Lesser, ScanInv, ScanTypes
  <2>3. BytesLimit.kind = "max_input_bytes" /\ BytesLimit.kind # "SegmentTooLong"
    BY DEF BytesLimit, Error
  <2>4. FaultsAt = {} => /\ StrictYields.segs = SpansOf(Len(items))
                         /\ StrictYields.error = BytesLimit
    <3> SUFFICES ASSUME FaultsAt = {} PROVE Beyond
      BY DEF Beyond
    <3>1. ~(Abreast /\ Agree)
      BY <1>1, <1>2, <1>4 DEF Agree
    <3> QED BY <1>1, <3>1, AgreeOrBeyond
  <2> HIDE DEF from
  <2>5. BytesLimit # NoError /\ BytesLimit.kind \in LimitExceeded
    BY NotNoError
  <2> QED BY <1>2, <2>1, <2>2, <2>3, <2>4, <2>5, FaultTold
<1> QED BY <1>3, <1>4

(* A segment that exceeds a limit exceeds the strict parser's too.         *)
LEMMA ExceededIs ==
  ASSUME NEW tag, NEW start, NEW end
  PROVE  /\ ~AdmitsBytes(end) => Exceeded(tag, start, end, FALSE) = BytesLimit
         /\ AdmitsBytes(end) /\ ~AdmitsSegment(budget, tag) =>
              Exceeded(tag, start, end, FALSE) = Error(RefusedLimit(budget, tag), start)
         /\ AdmitsBytes(end) /\ AdmitsSegment(budget, tag) =>
              Exceeded(tag, start, end, FALSE) = NoError
BY DEF Exceeded

LEMMA SegmentTold ==
  ASSUME ScanInv, StrictInv, YieldSegment, SliceAdvice # "ws"
  PROVE  StrictInv'
<1> PICK from, to, tag : from = Parsed.from /\ to = Parsed.to /\ tag = TagAt(input, from)
  OBVIOUS
<1> PICK n : n = Len(items)
  OBVIOUS
<1> DEFINE limit == Exceeded(tag, from, to, FALSE)
           item == SegmentItem(from, to)
<1>1. Parsing /\ Parsed.is = "segment" /\ ~done /\ pending = <<>>
  BY DEF YieldSegment, Parsing
<1>2. parser \in 0..Len(input) /\ Len(input) \in Nat /\ Start \in Nat
      /\ Start \in parser..Len(input)
  BY <1>1, ParsingStart
<1>3. from = Start /\ to \in Start+1 .. Len(input)
  <2>1. LiesAt(Parsed, input, TermOf(input), Start, Len(input))
    BY <1>1, <1>2, SegmentLies DEF Parsed, Start
  <2> QED BY <2>1 DEF LiesAt
<1>4. /\ item.is = "segment" /\ item.from = from /\ item.to = to
      /\ item.tag = tag /\ item.terminal = FALSE
  BY DEF SegmentItem
<1>5. to \in Nat /\ from \in Nat /\ parser < to /\ to <= Len(input)
  <2> HIDE DEF Start
  <2> QED BY <1>2, <1>3
<1>6. IF limit = NoError
      THEN Yield(item, to, <<>>)
      ELSE EmitFault(FaultItem(from, Len(input), tag, limit, TRUE), NoParser, <<>>)
  <2>1. /\ item.from = from /\ item.to = to /\ item.tag = tag
    BY <1>4
  <2> HIDE DEF item
  <2> QED BY <2>1 DEF YieldSegment, item
<1>7. IsItem(item)
  BY <1>4, <1>5 DEF IsItem
<1>8. /\ ~AdmitsBytes(to) => limit = BytesLimit
      /\ AdmitsBytes(to) /\ ~AdmitsSegment(budget, tag) =>
           limit = Error(RefusedLimit(budget, tag), from)
      /\ AdmitsBytes(to) /\ AdmitsSegment(budget, tag) => limit = NoError
  BY ExceededIs
<1>9. /\ Scanned \in Nat /\ (AdmitsBytes(to) <=> to <= Scanned)
  BY <1>5, ScannedIs DEF ScanInv, ScanTypes
<1>10. BytesLimit # NoError /\ BytesLimit.kind \in LimitExceeded
       /\ Error(RefusedLimit(budget, tag), from) # NoError
  BY NotNoError DEF Error, NoError, RefusedLimit
<1>11. FaultsAt = {} =>
         \/ Abreast /\ Read = Parsed /\ to <= Scanned
         \/ Beyond /\ to > Scanned
  BY <1>1, AgreeOrBeyond DEF Agree, Beyond
<1> HIDE DEF item, limit
<1>12. CASE limit = NoError
  <2>1. Yield(item, to, <<>>) /\ AdmitsBytes(to) /\ AdmitsSegment(budget, tag)
    BY <1>6, <1>8, <1>10, <1>12
  <2>2. CASE FaultsAt # {}
    BY <1>7, <2>1, <2>2, VerdictKeeps
  <2>3. CASE FaultsAt = {}
    <3>1. Abreast /\ Read = Parsed /\ to <= Scanned
      <4>1. to <= Scanned
        BY <1>9, <2>1
      <4>2. ~(to > Scanned)
        <5> HIDE DEF Scanned
        <5> QED BY <1>5, <1>9, <4>1
      <4> QED BY <1>11, <2>3, <4>2
    <3>2. ~BadUna(input)
      BY <1>1, <2>3 DEF StrictInv, InStep
    <3>3. /\ Len(items') = n + 1 /\ items'[n+1] = item /\ items' # <<>> /\ n \in Nat
          /\ \A i \in 1..n : items'[i] = items[i]
      BY <1>7, <2>1, OneMore DEF Yield
    <3>4. /\ input' = input /\ done' = FALSE /\ pending' = <<>> /\ parser' = to
          /\ budget' = Account(budget, tag)
      BY <1>4, <2>1 DEF Yield
    <3>5. FaultsAt' = {}
      <4>1. FaultsAt' = {i \in 1..n+1 : items'[i].is = "fault"}
        BY <3>3 DEF FaultsAt
      <4>2. \A i \in 1..n+1 : i \in 1..n \/ i = n+1
        BY <3>3
      <4>3. \A i \in 1..n : items'[i].is # "fault"
        BY <2>3, <3>3 DEF FaultsAt
      <4> QED BY <1>4, <3>3, <4>1, <4>2, <4>3
    <3>6. AfterCall(input)[n+1] =
            Iterator(to, Account(budget, tag), Append(SpansOf(n), SpanOf(item)), NoError, FALSE)
      <4>1. Read.is = "segment" /\ Read.to = to /\ tag = TagAt(input, Read.from)
            /\ SpanOf(Read) = SpanOf(item)
        BY <1>1, <1>4, <3>1 DEF SpanOf
      <4> HIDE DEF Read
      <4>2. AfterCall(input)[n+1] =
              Iterator(Read.to, Account(budget, tag), Append(SpansOf(n), SpanOf(Read)),
                       NoError, FALSE)
        BY <1>1, <2>1, <3>1, <4>1, StrictNext
      <4> QED BY <4>1, <4>2
    <3>7. Append(SpansOf(n), SpanOf(item)) = SpansOf(n+1)'
      BY <1>7, <2>1, SpansGrow DEF Yield
    <3>8. Abreast'
      <4>1. Scanned' = Scanned
        BY <3>4 DEF Scanned
      <4>2. Len(items') <= to
        <5>1. n <= parser
          BY <3>1 DEF Abreast
        <5> QED BY <1>2, <1>5, <3>3, <5>1
      <4>3. AfterCall(input)[n+1] =
              Iterator(to, Account(budget, tag), SpansOf(n+1)', NoError, FALSE)
        BY <3>6, <3>7
      <4>4. SpansOf(Len(items))' = SpansOf(n+1)'
        BY <3>3 DEF SpansOf
      <4>5. (AfterCall(input)[Len(items)])' = AfterCall(input)[n+1]
        BY <3>3, <3>4
      <4> QED BY <3>1, <3>4, <4>1, <4>2, <4>3, <4>4, <4>5 DEF Abreast
    <3> QED BY <3>2, <3>3, <3>4, <3>5, <3>8 DEF StrictInv, InStep, UnaRefused, Told
  <2> QED BY <2>2, <2>3
<1>13. CASE limit # NoError
  <2>1. limit.kind \in LimitExceeded
    BY <1>13, ExceedsALimit DEF limit
  <2>2. limit.kind # "SegmentTooLong"
    BY <2>1 DEF LimitExceeded
  <2>3. EmitFault(FaultItem(from, Len(input), tag, limit, TRUE), NoParser, <<>>)
    BY <1>6, <1>13
  <2>4. FaultsAt = {} =>
          StrictYields.segs = SpansOf(Len(items)) /\ StrictYields.error = limit
    <3> SUFFICES ASSUME FaultsAt = {}
                 PROVE  StrictYields.segs = SpansOf(Len(items)) /\ StrictYields.error = limit
      OBVIOUS
    <3>1. CASE Beyond /\ to > Scanned
      <4>1. ~AdmitsBytes(to)
        <5> HIDE DEF Scanned
        <5> QED BY <1>5, <1>9, <3>1
      <4> QED BY <1>8, <3>1, <4>1 DEF Beyond
    <3>2. CASE Abreast /\ Read = Parsed /\ to <= Scanned
      <4>1. AdmitsBytes(to) /\ ~AdmitsSegment(budget, tag)
        BY <1>8, <1>9, <1>13, <3>2
      <4>2. Read.is = "segment" /\ tag = TagAt(input, Read.from) /\ Read.from = from
        BY <1>1, <3>2
      <4> HIDE DEF Read
      <4>3. StrictYields.segs = SpansOf(Len(items))
            /\ StrictYields.error = Error(RefusedLimit(budget, tag), Read.from)
        BY <1>1, <3>2, <4>1, <4>2, StrictNext
      <4> QED BY <1>8, <4>1, <4>2, <4>3
    <3> QED BY <1>11, <3>1, <3>2
  <2> QED BY <1>2, <1>5, <1>13, <2>1, <2>2, <2>3, <2>4, FaultTold
<1> QED BY <1>12, <1>13

(* A segment is refused, and its fault read no further than it reaches.    *)
LEMMA RefusedTold ==
  ASSUME ScanInv, StrictInv, Refused, SliceAdvice # "ws",
         NEW to \in Nat, NEW terminal \in BOOLEAN, NEW next, NEW rest,
         EmitFault(RefusedAt(to, terminal), next, rest),
         Parsed.error.kind # "SegmentTooLong" => to = Reach,
         Parsed.error.kind = "SegmentTooLong" => to = Len(input)
  PROVE  StrictInv'
<1> PICK error : error = Parsed.error
  OBVIOUS
<1> DEFINE read == IF error.kind = "SegmentTooLong"
                   THEN Lesser(to, error.at + MaxSegmentBytes + 1) ELSE to
<1>1. Parsing /\ Len(input) \in Nat /\ Start \in Nat /\ parser \in 0..Len(input)
  BY ParsingStart DEF Refused
<1>2. error.kind = "SegmentTooLong" => error.at = Start
  BY ParsedOtherwise DEF Parsed, Start
<1>3. EmitFault(FaultItem(Start, to, RawTag(Start), error, terminal), next, rest)
  BY DEF RefusedAt
<1>4. ReturnsFor(Parsed, input, TermOf(input), Start, Len(input)) /\ Parsed.is = "error"
  BY <1>1, Returns DEF Parsed, Start, Refused
<1>5. error.kind \in ParseErrors
  BY <1>4 DEF ReturnsFor
<1>6. error.kind \notin LimitExceeded /\ error # NoError
  BY <1>5, NotNoError DEF ParseErrors, LimitExceeded
<1>7. Start < Len(input)
  <2>1. Start # Len(input) /\ Start <= Len(input)
    BY <1>1, <1>4, ParsingStart DEF ReturnsFor
  <2> HIDE DEF Start
  <2> QED BY <1>1, <2>1
<1>8. read = Reach /\ Reach \in Nat /\ Reach <= Len(input)
  <2>1. Reach \in Start+1 .. Len(input)
    BY <1>1, <1>7, ReachIs
  <2>2. Reach \in Nat /\ Reach <= Len(input)
    <3> HIDE DEF Start, Reach
    <3> QED BY <1>1, <2>1
  <2>3. CASE error.kind = "SegmentTooLong"
    <3>1. Reach = Lesser(Len(input), Start + MaxSegmentBytes + 1)
      BY <1>1, <1>7, <2>3, ReachIs
    <3> HIDE DEF Start, Reach
    <3> QED BY <1>2, <2>2, <2>3, <3>1
  <2>4. CASE error.kind # "SegmentTooLong"
    <3> HIDE DEF Reach
    <3> QED BY <2>2, <2>4
  <2> QED BY <2>3, <2>4
<1>9. Scanned \in Nat /\ (AdmitsBytes(read) <=> Reach <= Scanned)
  BY <1>8, ScannedIs DEF ScanInv, ScanTypes
<1> HIDE DEF read
<1>10. FaultsAt = {} =>
         /\ StrictYields.segs = SpansOf(Len(items))
         /\ StrictYields.error # NoError
         /\ AdmitsBytes(read) => StrictYields.error = error
         /\ ~AdmitsBytes(read) => StrictYields.error = BytesLimit
  <2> SUFFICES ASSUME FaultsAt = {}
               PROVE  /\ StrictYields.segs = SpansOf(Len(items))
                      /\ StrictYields.error # NoError
                      /\ AdmitsBytes(read) => StrictYields.error = error
                      /\ ~AdmitsBytes(read) => StrictYields.error = BytesLimit
    OBVIOUS
  <2>1. CASE Beyond
    <3>1. ~AdmitsBytes(read)
      <4>1. Reach > Scanned
        BY <1>4, <2>1 DEF Beyond
      <4> HIDE DEF Reach, Scanned
      <4> QED BY <1>8, <1>9, <4>1
    <3> QED BY <2>1, <3>1, NotNoError DEF Beyond
  <2>2. CASE Abreast /\ Agree
    <3>1. /\ Read.is = "error" /\ Reach <= Scanned
          /\ OverBudget(input, Read.error, parser) = error
      BY <1>4, <2>2 DEF Agree
    <3> HIDE DEF Read, Reach, Scanned
    <3>2. StrictYields.segs = SpansOf(Len(items)) /\ StrictYields.error = error
      BY <1>1, <2>2, <3>1, StrictNext
    <3> QED BY <1>6, <1>9, <3>1, <3>2
  <2> QED BY <1>1, <2>1, <2>2, AgreeOrBeyond
<1> HIDE DEF Start
<1> QED BY <1>1, <1>2, <1>3, <1>6, <1>10, FaultTold DEF read

LEMMA FaultAtTold ==
  ASSUME ScanInv, StrictInv, FaultAt, SliceAdvice # "ws"
  PROVE  StrictInv'
<1>1. Refused /\ Parsing /\ Parsed.is = "error"
  BY DEF FaultAt, FaultIsTerminal, FaultAndResume, FaultAtEnd, FaultThenOverlong, Refused
<1>2. Start \in Nat /\ Len(input) \in Nat /\ Start < Len(input)
  <2>1. parser \in 0..Len(input) /\ Start \in Nat /\ Len(input) \in Nat /\ Start <= Len(input)
    BY <1>1, ParsingStart
  <2>2. ReturnsFor(Parsed, input, TermOf(input), Start, Len(input))
    BY <2>1, Returns DEF Parsed, Start
  <2>3. Start # Len(input)
    BY <1>1, <2>2 DEF ReturnsFor
  <2> HIDE DEF Start
  <2> QED BY <2>1, <2>3
<1>3. /\ WindowEnd \in Nat /\ Reach \in Nat
  <2>1. WindowEnd \in Start+1 .. Len(input) /\ Reach \in Start+1 .. Len(input)
    BY <1>1, <1>2, ReachIs
  <2> HIDE DEF Start, WindowEnd, Reach
  <2> QED BY <1>2, <2>1
<1>4. Resumable => Parsed.error.kind # "SegmentTooLong"
  BY ResumableError
<1>5. CASE FaultIsTerminal
  <2>1. ~Resumable /\ EmitFault(RefusedAt(Len(input), TRUE), NoParser, <<>>)
    BY <1>5 DEF FaultIsTerminal
  <2>2. Parsed.error.kind # "SegmentTooLong" => Len(input) = Reach
    BY <1>1, <1>2, <2>1, ReachIs
  <2> QED BY <1>1, <1>2, <2>1, <2>2, RefusedTold
<1>6. CASE FaultAndResume
  <2>1. Resumable /\ Stops # {} /\ EmitFault(RefusedAt(ResumeAt, FALSE), ResumeAt, <<>>)
    BY <1>6 DEF FaultAndResume
  <2>2. ResumeAt = Reach
    BY <1>1, <1>2, <1>4, <2>1, ReachIs
  <2>3. ResumeAt \in Nat
    BY <1>3, <2>2
  <2> HIDE DEF ResumeAt, Reach
  <2> QED BY <1>1, <1>4, <2>1, <2>2, <2>3, RefusedTold
<1>7. CASE FaultAtEnd
  <2>1. Resumable /\ Stops = {} /\ WindowEnd = Len(input)
        /\ EmitFault(RefusedAt(Len(input), TRUE), NoParser, <<>>)
    BY <1>7 DEF FaultAtEnd
  <2>2. Len(input) = Reach
    BY <1>1, <1>2, <1>4, <2>1, ReachIs
  <2> QED BY <1>1, <1>2, <1>4, <2>1, <2>2, RefusedTold
<1>8. CASE FaultThenOverlong
  <2> DEFINE rest == <<FaultItem(Start, Len(input), RawTag(Start),
                                 Error("SegmentTooLong", Start), TRUE)>>
  <2>1. Resumable /\ Stops = {}
        /\ EmitFault(RefusedAt(WindowEnd, FALSE), NoParser, rest)
    BY <1>8 DEF FaultThenOverlong
  <2>2. WindowEnd = Reach
    BY <1>1, <1>2, <1>4, <2>1, ReachIs
  <2> HIDE DEF rest, WindowEnd, Reach
  <2> QED BY <1>1, <1>3, <1>4, <2>1, <2>2, RefusedTold
<1> QED BY <1>5, <1>6, <1>7, <1>8 DEF FaultAt

LEMMA PendingTold ==
  ASSUME ScanInv, StrictInv, YieldPending
  PROVE  StrictInv'
<1>1. ~done /\ pending # <<>> /\ EmitFault(Head(pending), parser, Tail(pending))
  BY DEF YieldPending
<1> PICK rest : rest = Tail(pending)
  OBVIOUS
<1>2. CASE items = <<>>
  <2>1. PICK from \in 0..PrologueEnd(input) :
          pending = <<FaultItem(from, PrologueEnd(input), "UNA",
                                Error("InvalidUna", NoOffset), TRUE)>>
    BY <1>1, <1>2 DEF ScanInv, ScanPending, UnaPending
  <2> PICK to, error : to = PrologueEnd(input) /\ error = Error("InvalidUna", NoOffset)
    OBVIOUS
  <2>2. to \in Nat /\ from \in Nat /\ to <= Len(input) /\ Len(input) \in Nat
    BY PrologueWithin DEF ScanInv, ScanTypes
  <2>3. /\ error.kind = "InvalidUna" /\ error.kind # "SegmentTooLong"
        /\ error.kind \notin LimitExceeded /\ error # NoError
    BY DEF Error, LimitExceeded, NoError
  <2> DEFINE fault == FaultItem(from, to, "UNA", error, TRUE)
  <2>4. EmitFault(fault, parser, rest)
    <3>1. pending = <<fault>>
      BY <2>1
    <3> HIDE DEF fault
    <3> QED BY <1>1, <3>1
  <2>5. /\ Scanned \in Nat /\ (AdmitsBytes(to) <=> to <= Scanned)
        /\ BytesLimit = BytesBudgetExceeded
    BY <2>2, ScannedIs DEF ScanInv, ScanTypes
  <2>6. /\ StrictYields.segs = SpansOf(Len(items))
        /\ StrictYields.error # NoError
        /\ AdmitsBytes(to) => StrictYields.error = error
        /\ ~AdmitsBytes(to) => StrictYields.error = BytesLimit
    <3>1. /\ AfterCall(input)[0].done /\ AfterCall(input)[0].segs = <<>>
          /\ to <= Scanned => AfterCall(input)[0].error = error
          /\ to > Scanned => AfterCall(input)[0].error = BytesBudgetExceeded
      <4>1. \/ to > Scanned /\ EndedWithBudget
            \/ /\ to <= Scanned
               /\ AfterCall(input)[0].done /\ AfterCall(input)[0].segs = <<>>
               /\ AfterCall(input)[0].error = error
        BY <1>1, <1>2 DEF StrictInv, UnaRefused
      <4> HIDE DEF Scanned
      <4> QED BY <2>2, <2>5, <4>1 DEF EndedWithBudget
    <3>2. 0 \in 0..Len(input)+1
      BY <2>2
    <3>3. /\ StrictYields.segs = AfterCall(input)[0].segs
          /\ StrictYields.error = AfterCall(input)[0].error
      BY <2>2, <3>1, <3>2, DoneStays DEF StrictYields
    <3>4. SpansOf(Len(items)) = <<>>
      BY <1>2 DEF SpansOf
    <3>5. to <= Scanned \/ to > Scanned
      <4> HIDE DEF Scanned
      <4> QED BY <2>2, <2>5
    <3> HIDE DEF Scanned
    <3> QED BY <2>2, <2>3, <2>5, <3>1, <3>3, <3>4, <3>5, NotNoError
  <2>7. EmitFault(FaultItem(from, to, "UNA", error, TRUE), parser, rest)
    BY <2>4
  <2> HIDE DEF fault
  <2> QED BY <2>2, <2>3, <2>6, <2>7, FaultTold
<1>3. CASE items # <<>>
  <2> PICK from, to, tag, error :
        from = LastItem.from /\ to = Len(input) /\ tag = pending[1].tag
        /\ error = Error("SegmentTooLong", from)
    OBVIOUS
  <2> DEFINE fault == FaultItem(from, to, tag, error, TRUE)
  <2>1. LastItem.is = "fault" /\ pending = <<fault>>
    BY <1>1, <1>3 DEF ScanInv, ScanPending, OverlongPending
  <2>2. Len(items) \in 1..Len(items)
    BY <1>3, EmptySeq DEF ScanInv, ScanTypes
  <2>3. from \in Nat /\ to \in Nat
    BY <2>2 DEF ScanInv, ScanTypes, LastItem
  <2>4. FaultsAt # {}
    BY <2>1, <2>2 DEF FaultsAt, LastItem
  <2>5. error.kind = "SegmentTooLong" /\ error.at = from
    BY DEF Error
  <2>6. EmitFault(fault, parser, rest)
    <3> HIDE DEF fault
    <3> QED BY <1>1, <2>1
  <2>7. EmitFault(FaultItem(from, to, tag, error, TRUE), parser, rest)
    BY <2>6
  <2> HIDE DEF fault
  <2>8. error.kind \notin LimitExceeded
    BY <2>5 DEF LimitExceeded
  <2>9. error.at \in Nat
    BY <2>3, <2>5
  <2> QED BY <2>3, <2>4, <2>7, <2>8, <2>9, FaultTold
<1> QED BY <1>2, <1>3

LEMMA InitTold ==
  ASSUME Init, MaxSegmentBytes >= 2
  PROVE  StrictInv
<1>1. input \in Seq(Bytes) /\ items = <<>> /\ Len(items) = 0 /\ done = FALSE
      /\ budget = NewBudget
  BY ScanInputsAssumption DEF Init
<1>2. /\ PrologueLen(input) \in Nat /\ PrologueEnd(input) \in Nat
      /\ PrologueEnd(input) <= Len(input) /\ Len(input) \in Nat
  BY <1>1, PrologueWithin
<1>3. FaultsAt = {} /\ SpansOf(0) = <<>>
  BY <1>1 DEF FaultsAt, SpansOf
<1>4. /\ Scanned \in Nat /\ (Truncated(input) => Scanned = MaxInputBytes /\ MaxInputBytes \in Nat)
      /\ (~Truncated(input) => Scanned = Len(input))
  BY <1>1, ScannedIs
<1>5. AfterCall(input)[0] = Opened(input)
  BY <1>2, CallStep
<1> DEFINE opened == Iterator(PrologueEnd(input), NewBudget, <<>>, NoError, FALSE)
<1>6. \A e : /\ EndedWith(opened, e).done /\ EndedWith(opened, e).segs = <<>>
             /\ EndedWith(opened, e).error = e
  BY DEF EndedWith, Iterator
<1>7. Opened(input) = IF Truncated(input) /\ PrologueEnd(input) > MaxInputBytes
                      THEN EndedWith(opened, PrologueError(input))
                      ELSE IF BadUna(input)
                      THEN EndedWith(opened, Error("InvalidUna", NoOffset))
                      ELSE opened
  BY DEF Opened
<1>8. Truncated(input) => PrologueError(input) = BytesBudgetExceeded
  <2> SUFFICES ASSUME Truncated(input) PROVE PrologueError(input) = BytesBudgetExceeded
    OBVIOUS
  <2>1. ~(/\ HasUna(input, PrologueLen(input))
          /\ PrologueLen(input) + 3 > MaxInputBytes
          /\ MaxInputBytes - PrologueLen(input) > MaxSegmentBytes)
    BY <1>2, <1>4, SyntaxAssumption
  <2> QED BY <2>1 DEF PrologueError
<1>9. PrologueEnd(input) > Scanned <=> Truncated(input) /\ PrologueEnd(input) > MaxInputBytes
  <2> HIDE DEF Scanned
  <2> QED BY <1>2, <1>4
<1>10. PrologueEnd(input) > Scanned => EndedWithBudget
  BY <1>5, <1>6, <1>7, <1>8, <1>9 DEF EndedWithBudget
<1>11. ~(PrologueEnd(input) > Scanned) => PrologueEnd(input) <= Scanned
  <2> HIDE DEF Scanned
  <2> QED BY <1>2, <1>4
<1>12. InStep
  <2> SUFFICES ASSUME pending = <<>> PROVE ~BadUna(input) /\ (Abreast \/ Precluded)
    BY DEF InStep
  <2>1. ~BadUna(input) /\ parser = PrologueEnd(input)
    BY DEF Init
  <2>2. CASE PrologueEnd(input) > Scanned
    BY <1>1, <1>10, <2>1, <2>2 DEF Precluded
  <2>3. CASE ~(PrologueEnd(input) > Scanned)
    <3>1. AfterCall(input)[0] = opened
      BY <1>5, <1>7, <1>9, <2>1, <2>3
    <3>2. parser <= Scanned /\ Len(items) <= parser
      BY <1>1, <1>2, <1>11, <2>1, <2>3
    <3>3. SpansOf(Len(items)) = <<>>
      BY <1>1, <1>3
    <3>4. AfterCall(input)[Len(items)] =
            Iterator(parser, budget, SpansOf(Len(items)), NoError, FALSE)
      <4> HIDE DEF SpansOf
      <4> QED BY <1>1, <2>1, <3>1, <3>3
    <3> QED BY <2>1, <3>2, <3>4 DEF Abreast
  <2> QED BY <2>1, <2>2, <2>3
<1>13. UnaRefused
  <2> SUFFICES ASSUME pending # <<>>
               PROVE  \/ PrologueEnd(input) > Scanned /\ EndedWithBudget
                      \/ /\ PrologueEnd(input) <= Scanned
                         /\ AfterCall(input)[0].done /\ AfterCall(input)[0].segs = <<>>
                         /\ AfterCall(input)[0].error = Error("InvalidUna", NoOffset)
    BY DEF UnaRefused
  <2>1. BadUna(input)
    BY DEF Init
  <2>2. CASE PrologueEnd(input) > Scanned
    BY <1>10, <2>2
  <2>3. CASE ~(PrologueEnd(input) > Scanned)
    <3>1. AfterCall(input)[0] = EndedWith(opened, Error("InvalidUna", NoOffset))
      BY <1>5, <1>7, <1>9, <2>1, <2>3
    <3> HIDE DEF opened
    <3> QED BY <1>6, <1>11, <2>3, <3>1
  <2> QED BY <2>2, <2>3
<1>14. Told
  BY <1>1, <1>3 DEF Told
<1> QED BY <1>12, <1>13, <1>14 DEF StrictInv

LEMMA StrictStep ==
  ASSUME ScanInv, StrictInv, [Next]_vars, SliceAdvice # "ws"
  PROVE  StrictInv'
<1>1. CASE YieldPending
  BY <1>1, PendingTold
<1>2. CASE ReachEnd
  BY <1>2, EndTold
<1>3. CASE YieldSegment
  BY <1>3, SegmentTold
<1>4. CASE FaultAt
  BY <1>4, FaultAtTold
<1>5. CASE UNCHANGED vars
  <2>1. /\ input' = input /\ items' = items /\ pending' = pending
        /\ parser' = parser /\ budget' = budget /\ done' = done
    BY <1>5 DEF vars
  <2>2. /\ FaultsAt' = FaultsAt /\ Scanned' = Scanned /\ StrictYields' = StrictYields
        /\ \A k : SpansOf(k)' = SpansOf(k)
    BY <2>1 DEF FaultsAt, Scanned, StrictYields, SpansOf
  <2>3. EndedWithBudget' <=> EndedWithBudget
    BY <2>1 DEF EndedWithBudget
  <2>4. Abreast' <=> Abreast
    <3>1. SpansOf(Len(items))' = SpansOf(Len(items))
      BY <2>1 DEF SpansOf
    <3> QED BY <2>1, <2>2, <3>1 DEF Abreast
  <2>5. InStep'
    BY <2>1, <2>2, <2>3, <2>4 DEF StrictInv, InStep, Precluded
  <2>6. UnaRefused'
    BY <2>1, <2>2, <2>3 DEF StrictInv, UnaRefused
  <2>7. Told'
    <3>1. \A k : YieldedUpTo(k)' <=> YieldedUpTo(k)
      BY <2>1, <2>2 DEF YieldedUpTo, FirstFaultIs
    <3> QED BY <2>1, <2>2, <3>1 DEF StrictInv, Told
  <2> QED BY <2>5, <2>6, <2>7 DEF StrictInv
<1> QED BY <1>1, <1>2, <1>3, <1>4, <1>5 DEF Next, Exhausted

(* What the invariant says of a scan that is done.                         *)
LEMMA ToldIsPrefix ==
  ASSUME ScanInv, StrictInv
  PROVE  StrictPrefix
<1> SUFFICES ASSUME done PROVE
      /\ [i \in 1..FirstFault-1 |-> SpanOf(items[i])] = StrictYields.segs
      /\ FaultsAt = {} <=> StrictYields.error = NoError
      /\ FaultsAt # {} =>
           \/ items[FirstFault].error = StrictYields.error
           \/ items[FirstFault].error.kind \in CountLimits
  BY DEF StrictPrefix
<1>1. PICK k \in 0..Len(items) : YieldedUpTo(k)
  BY DEF StrictInv, Told
<1>2. Len(items) \in Nat
  BY DEF ScanInv, ScanTypes
<1>3. FirstFault = k+1
  <2>1. CASE FaultsAt = {}
    BY <1>1, <2>1 DEF FirstFault, LeastOr, YieldedUpTo
  <2>2. CASE FaultsAt # {}
    <3>1. FaultsAt \subseteq Nat
      BY DEF FaultsAt
    <3>2. FirstFault \in FaultsAt /\ \A q \in FaultsAt : FirstFault <= q
      BY <2>2, <3>1, LeastIn DEF FirstFault
    <3>3. k+1 \in FaultsAt /\ \A q \in FaultsAt : k+1 <= q
      BY <1>1, <2>2 DEF YieldedUpTo, FirstFaultIs
    <3> HIDE DEF FirstFault, FaultsAt
    <3> QED BY <3>1, <3>2, <3>3
  <2> QED BY <2>1, <2>2
<1>4. [i \in 1..FirstFault-1 |-> SpanOf(items[i])] = SpansOf(k)
  BY <1>2, <1>3 DEF SpansOf
<1> QED BY <1>1, <1>3, <1>4 DEF YieldedUpTo, FirstFaultIs

(***************************************************************************)
(* For every input and all limits, the scan yields what the strict parser  *)
(* yields until its first fault, which carries the error the strict parser *)
(* ends with; without a fault the strict parser accepts the input.  It is  *)
(* assumed that a segment may be longer than two bytes, less than any tag  *)
(* has, and that no caller makes whitespace the segment terminator.        *)
(***************************************************************************)
THEOREM RecoveryYieldsTheStrictPrefix ==
  ASSUME MaxSegmentBytes >= 2, SliceAdvice # "ws"
  PROVE  Spec => []StrictPrefix
<1>1. Init => StrictInv
  BY InitTold
<1>2. ScanInv /\ StrictInv /\ [Next]_vars => StrictInv'
  BY StrictStep
<1>3. ScanInv /\ StrictInv => StrictPrefix
  BY ToldIsPrefix
<1> QED BY <1>1, <1>2, <1>3, ScanInvHolds, PTL DEF Spec
=============================================================================
