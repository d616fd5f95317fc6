------------------------- MODULE InterchangeProofs -------------------------
(***************************************************************************)
(* The three walks over an interchange, for one of any length: validation, *)
(* the recovered windows, and CONTRL's boundaries; and the reply to it,    *)
(* for findings of any number.                                             *)
(***************************************************************************)
EXTENDS Interchange, Contrl, FiniteSetTheorems, SequenceTheorems, WellFoundedInduction, TLAPS

-----------------------------------------------------------------------------
(* Induction over the items of an interchange is by the least one for      *)
(* which a claim fails.                                                    *)
LEMMA LeastOne ==
  ASSUME NEW S, S \subseteq Nat, S # {}
  PROVE  \E m \in S : \A q \in S : m <= q
<1>1. PICK x \in S : \A y \in S : <<y, x>> \notin OpToRel(<, Nat)
  BY WFMin, NatLessThanWellFounded
<1>2. ASSUME NEW y \in S
      PROVE  x <= y
  <2>1. <<y, x>> \in Nat \X Nat
    OBVIOUS
  <2>2. ~(y < x)
    BY <1>1, <2>1 DEF OpToRel
  <2> QED BY <2>2
<1> QED BY <1>2

(* What is so at m and passed on from each number to the next is so up to  *)
(* n: F is the set of those for which it is.                               *)
LEMMA UpTo ==
  ASSUME NEW m \in Int, NEW n \in Int, NEW F, m \in F,
         \A i \in m+1..n : i-1 \in F => i \in F
  PROVE  \A i \in m..n : i \in F
<1> DEFINE B == {k \in Nat : k <= n - m /\ m + k \notin F}
<1>1. SUFFICES ASSUME B # {} PROVE FALSE
  <2>1. ASSUME NEW i \in m..n, i \notin F PROVE i - m \in B
    BY <2>1
  <2> QED BY <1>1, <2>1
<1>2. PICK k \in B : \A q \in B : k <= q
  BY <1>1, LeastOne
<1>3. k # 0
  BY <1>2
<1>4. k - 1 \notin B
  BY <1>2
<1>5. m + k \in m+1..n /\ (m + k) - 1 = m + (k - 1) /\ k - 1 \in Nat /\ k - 1 <= n - m
  BY <1>2, <1>3
<1>6. m + (k - 1) \in F
  BY <1>4, <1>5
<1> QED BY <1>2, <1>5, <1>6

-----------------------------------------------------------------------------
(* Each loop has a value after every turn, as the definition says.         *)
LEMMA WindowsStep ==
  ASSUME NEW tags, Len(tags) \in Nat
  PROVE  /\ WindowsAfter(tags)[0] = NoWindows
         /\ \A i \in 1..Len(tags) :
              WindowsAfter(tags)[i] = Scan(WindowsAfter(tags)[i-1], tags[i])
<1> DEFINE Is(f, n) == f = [i \in 0..n |-> IF i = 0 THEN NoWindows ELSE Scan(f[i-1], tags[i])]
<1>1. \E f : Is(f, 0)
  <2> DEFINE f == [i \in 0..0 |-> NoWindows]
  <2>1. Is(f, 0)
    OBVIOUS
  <2> QED BY <2>1
<1>2. ASSUME NEW n \in Nat, n # 0, NEW f, Is(f, n-1)
      PROVE  \E g : Is(g, n)
  <2> DEFINE g == [i \in 0..n |-> IF i = n THEN Scan(f[n-1], tags[n]) ELSE f[i]]
  <2>1. \A i \in 0..n-1 : g[i] = f[i]
    OBVIOUS
  <2>2. \A i \in 0..n : g[i] = IF i = 0 THEN NoWindows ELSE Scan(g[i-1], tags[i])
    BY <1>2, <2>1
  <2>3. Is(g, n)
    BY <2>2
  <2> QED BY <2>3
<1> DEFINE F == {n \in Nat : \E f : Is(f, n)}
<1>3. \A i \in 0+1..Len(tags) : i-1 \in F => i \in F
  BY <1>2
<1>4. 0 \in F
  BY <1>1
<1>5. \A i \in 0..Len(tags) : i \in F
  <2>1. Len(tags) \in Int /\ 0 \in Int
    OBVIOUS
  <2> HIDE DEF F
  <2> QED BY <1>3, <1>4, <2>1, UpTo, Zenon
<1>6. \E f : Is(f, Len(tags))
  BY <1>5
<1>7. WindowsAfter(tags) = CHOOSE f : Is(f, Len(tags))
  BY DEF WindowsAfter
<1>8. Is(WindowsAfter(tags), Len(tags))
  <2> HIDE DEF Is
  <2> QED BY <1>6, <1>7
<1> QED BY <1>8
LEMMA SpansStep ==
  ASSUME NEW tags, Len(tags) \in Nat, NEW open, NEW close
  PROVE  /\ SpansAfter(tags, open, close)[0] = [start |-> NoOrdinal, out |-> <<>>]
         /\ \A i \in 1..Len(tags) :
              SpansAfter(tags, open, close)[i] = SpanStep(open, close, SpansAfter(tags, open, close)[i-1], tags[i], i)
<1> DEFINE Is(f, n) == f = [i \in 0..n |-> IF i = 0 THEN [start |-> NoOrdinal, out |-> <<>>] ELSE SpanStep(open, close, f[i-1], tags[i], i)]
<1>1. \E f : Is(f, 0)
  <2> DEFINE f == [i \in 0..0 |-> [start |-> NoOrdinal, out |-> <<>>]]
  <2>1. Is(f, 0)
    OBVIOUS
  <2> QED BY <2>1
<1>2. ASSUME NEW n \in Int, n > 0, NEW f, Is(f, n-1)
      PROVE  \E g : Is(g, n)
  <2> DEFINE g == [i \in 0..n |-> IF i = n THEN SpanStep(open, close, f[n-1], tags[n], n) ELSE f[i]]
  <2>1. \A i \in 0..n-1 : g[i] = f[i]
    OBVIOUS
  <2>2. \A i \in 0..n : g[i] = IF i = 0 THEN [start |-> NoOrdinal, out |-> <<>>] ELSE SpanStep(open, close, g[i-1], tags[i], i)
    BY <1>2, <2>1
  <2>3. Is(g, n)
    BY <2>2
  <2> QED BY <2>3
<1> DEFINE F == {n \in Int : \E f : Is(f, n)}
<1>3. \A i \in (0)+1..Len(tags) : i-1 \in F => i \in F
  <2> SUFFICES ASSUME NEW i \in (0)+1..Len(tags), i-1 \in F PROVE i \in F
    OBVIOUS
  <2>1. PICK f : Is(f, i-1)
    OBVIOUS
  <2> HIDE DEF Is
  <2>2. \E g : Is(g, i)
    BY <1>2, <2>1
  <2> QED BY <2>2
<1>4. 0 \in F
  BY <1>1
<1>5. \A i \in 0..Len(tags) : i \in F
  <2>1. Len(tags) \in Int /\ 0 \in Int
    OBVIOUS
  <2> HIDE DEF F
  <2> QED BY <1>3, <1>4, <2>1, UpTo, Zenon
<1>6. \E f : Is(f, Len(tags))
  BY <1>5
<1>7. SpansAfter(tags, open, close) = CHOOSE f : Is(f, Len(tags))
  BY DEF SpansAfter
<1>8. Is(SpansAfter(tags, open, close), Len(tags))
  <2> HIDE DEF Is
  <2> QED BY <1>6, <1>7
<1> QED BY <1>8

LEMMA FlatStep ==
  ASSUME NEW segs0, NEW from \in Int, NEW to \in Int, from - 1 <= to, NEW s0
  PROVE  /\ FlatAfter(segs0, from, to, s0)[from-1] = s0
         /\ \A i \in from..to :
              FlatAfter(segs0, from, to, s0)[i] = ReadFlat(segs0, FlatAfter(segs0, from, to, s0)[i-1], i)
<1> DEFINE Is(f, n) == f = [i \in from-1..n |-> IF i = from-1 THEN s0 ELSE ReadFlat(segs0, f[i-1], i)]
<1>1. \E f : Is(f, from-1)
  <2> DEFINE f == [i \in from-1..from-1 |-> s0]
  <2>1. Is(f, from-1)
    OBVIOUS
  <2> QED BY <2>1
<1>2. ASSUME NEW n \in Int, n > from-1, NEW f, Is(f, n-1)
      PROVE  \E g : Is(g, n)
  <2> DEFINE g == [i \in from-1..n |-> IF i = n THEN ReadFlat(segs0, f[n-1], n) ELSE f[i]]
  <2>1. \A i \in from-1..n-1 : g[i] = f[i]
    OBVIOUS
  <2>2. \A i \in from-1..n : g[i] = IF i = from-1 THEN s0 ELSE ReadFlat(segs0, g[i-1], i)
    BY <1>2, <2>1
  <2>3. Is(g, n)
    BY <2>2
  <2> QED BY <2>3
<1> DEFINE F == {n \in Int : \E f : Is(f, n)}
<1>3. \A i \in (from-1)+1..to : i-1 \in F => i \in F
  <2> SUFFICES ASSUME NEW i \in (from-1)+1..to, i-1 \in F PROVE i \in F
    OBVIOUS
  <2>1. PICK f : Is(f, i-1)
    OBVIOUS
  <2> HIDE DEF Is
  <2>2. \E g : Is(g, i)
    BY <1>2, <2>1
  <2> QED BY <2>2
<1>4. from-1 \in F
  BY <1>1
<1>5. \A i \in from-1..to : i \in F
  <2>1. to \in Int /\ from-1 \in Int
    OBVIOUS
  <2> HIDE DEF F
  <2> QED BY <1>3, <1>4, <2>1, UpTo, Zenon
<1>6. \E f : Is(f, to)
  BY <1>5
<1>7. FlatAfter(segs0, from, to, s0) = CHOOSE f : Is(f, to)
  BY DEF FlatAfter
<1>8. Is(FlatAfter(segs0, from, to, s0), to)
  <2> HIDE DEF Is
  <2> QED BY <1>6, <1>7
<1> QED BY <1>8

LEMMA GroupsStep ==
  ASSUME NEW segs0, NEW to \in Nat, NEW s0
  PROVE  /\ GroupsAfter(segs0, to, s0)[0] = [i |-> 2, s |-> s0]
         /\ \A i \in 1..to :
              GroupsAfter(segs0, to, s0)[i] = GroupTurn(segs0, to, GroupsAfter(segs0, to, s0)[i-1])
<1> DEFINE Is(f, n) == f = [i \in 0..n |-> IF i = 0 THEN [i |-> 2, s |-> s0] ELSE GroupTurn(segs0, to, f[i-1])]
<1>1. \E f : Is(f, 0)
  <2> DEFINE f == [i \in 0..0 |-> [i |-> 2, s |-> s0]]
  <2>1. Is(f, 0)
    OBVIOUS
  <2> QED BY <2>1
<1>2. ASSUME NEW n \in Int, n > 0, NEW f, Is(f, n-1)
      PROVE  \E g : Is(g, n)
  <2> DEFINE g == [i \in 0..n |-> IF i = n THEN GroupTurn(segs0, to, f[n-1]) ELSE f[i]]
  <2>1. \A i \in 0..n-1 : g[i] = f[i]
    OBVIOUS
  <2>2. \A i \in 0..n : g[i] = IF i = 0 THEN [i |-> 2, s |-> s0] ELSE GroupTurn(segs0, to, g[i-1])
    BY <1>2, <2>1
  <2>3. Is(g, n)
    BY <2>2
  <2> QED BY <2>3
<1> DEFINE F == {n \in Int : \E f : Is(f, n)}
<1>3. \A i \in (0)+1..to : i-1 \in F => i \in F
  <2> SUFFICES ASSUME NEW i \in (0)+1..to, i-1 \in F PROVE i \in F
    OBVIOUS
  <2>1. PICK f : Is(f, i-1)
    OBVIOUS
  <2> HIDE DEF Is
  <2>2. \E g : Is(g, i)
    BY <1>2, <2>1
  <2> QED BY <2>2
<1>4. 0 \in F
  BY <1>1
<1>5. \A i \in 0..to : i \in F
  <2>1. to \in Int /\ 0 \in Int
    OBVIOUS
  <2> HIDE DEF F
  <2> QED BY <1>3, <1>4, <2>1, UpTo, Zenon
<1>6. \E f : Is(f, to)
  BY <1>5
<1>7. GroupsAfter(segs0, to, s0) = CHOOSE f : Is(f, to)
  BY DEF GroupsAfter
<1>8. Is(GroupsAfter(segs0, to, s0), to)
  <2> HIDE DEF Is
  <2> QED BY <1>6, <1>7
<1> QED BY <1>8
-----------------------------------------------------------------------------
(* One item of the recovered windows.                                      *)
MessageWindow == [first : Int, last : Int, end : Int, group : Int]
GroupWindow == [first : Int, last : Int, end : Int]

WindowsType(w) ==
  /\ w \in [n : Nat, messages : Seq(MessageWindow), groups : Seq(GroupWindow),
            message : Nat, group : Nat]
  /\ w.message \in {0, Len(w.messages)}
  /\ w.group \in {0, Len(w.groups)}

(* Same windows, but for the end of the open one. *)
EndsHere(ws, vs, o, e) ==
  /\ Len(vs) = Len(ws)
  /\ \A k \in 1..Len(ws) : /\ vs[k].first = ws[k].first
                           /\ vs[k].end = IF k = o THEN e ELSE ws[k].end

SameGroups(ws, vs) == \A k \in 1..Len(ws) : vs[k].group = ws[k].group

LEMMA MessageMoved ==
  ASSUME NEW ws \in Seq(MessageWindow), NEW k \in {0, Len(ws)}, NEW v \in Int
  PROVE  /\ EndAt(ws, k, v) \in Seq(MessageWindow)
         /\ EndsHere(ws, EndAt(ws, k, v), k, v)
         /\ LastAt(ws, k, v) \in Seq(MessageWindow)
         /\ \A u : EndsHere(ws, LastAt(ws, k, v), k, u) <=> EndsHere(ws, ws, k, u)
         /\ SameGroups(ws, EndAt(ws, k, v))
         /\ SameGroups(ws, LastAt(ws, k, v))
<1>1. CASE k = 0
  <2>1. EndAt(ws, k, v) = ws /\ LastAt(ws, k, v) = ws
    BY <1>1 DEF EndAt, LastAt, NoOrdinal
  <2> QED BY <1>1, <2>1 DEF EndsHere, SameGroups
<1>2. CASE k # 0
  <2> DEFINE a == [ws[k] EXCEPT !.end = v]
             b == [ws[k] EXCEPT !.last = v]
  <2>1. /\ a \in MessageWindow /\ a.first = ws[k].first /\ a.end = v /\ a.group = ws[k].group
        /\ b \in MessageWindow /\ b.first = ws[k].first /\ b.end = ws[k].end /\ b.group = ws[k].group
    <3> DEFINE r == ws[k]
    <3>1. r \in MessageWindow
      BY <1>2
    <3> HIDE DEF r
    <3>2. /\ [r EXCEPT !.end = v] \in MessageWindow /\ [r EXCEPT !.end = v].first = r.first
          /\ [r EXCEPT !.end = v].end = v /\ [r EXCEPT !.end = v].group = r.group
          /\ [r EXCEPT !.last = v] \in MessageWindow /\ [r EXCEPT !.last = v].first = r.first
          /\ [r EXCEPT !.last = v].end = r.end /\ [r EXCEPT !.last = v].group = r.group
      BY <3>1 DEF MessageWindow
    <3> QED BY <3>2 DEF r
  <2>2. EndAt(ws, k, v) = [ws EXCEPT ![k] = a] /\ LastAt(ws, k, v) = [ws EXCEPT ![k] = b]
    BY <1>2 DEF EndAt, LastAt, NoOrdinal
  <2> HIDE DEF a, b
  <2>3. /\ EndAt(ws, k, v) \in Seq(MessageWindow) /\ Len(EndAt(ws, k, v)) = Len(ws)
        /\ LastAt(ws, k, v) \in Seq(MessageWindow) /\ Len(LastAt(ws, k, v)) = Len(ws)
    BY <1>2, <2>1, <2>2
  <2>4. \A j \in 1..Len(ws) : /\ EndAt(ws, k, v)[j] = IF j = k THEN a ELSE ws[j]
                              /\ LastAt(ws, k, v)[j] = IF j = k THEN b ELSE ws[j]
    BY <1>2, <2>2
  <2> QED BY <2>1, <2>3, <2>4 DEF EndsHere, SameGroups
<1> QED BY <1>1, <1>2

LEMMA GroupMoved ==
  ASSUME NEW ws \in Seq(GroupWindow), NEW k \in {0, Len(ws)}, NEW v \in Int
  PROVE  /\ EndAt(ws, k, v) \in Seq(GroupWindow)
         /\ EndsHere(ws, EndAt(ws, k, v), k, v)
         /\ LastAt(ws, k, v) \in Seq(GroupWindow)
         /\ \A u : EndsHere(ws, LastAt(ws, k, v), k, u) <=> EndsHere(ws, ws, k, u)
<1>1. CASE k = 0
  <2>1. EndAt(ws, k, v) = ws /\ LastAt(ws, k, v) = ws
    BY <1>1 DEF EndAt, LastAt, NoOrdinal
  <2> QED BY <1>1, <2>1 DEF EndsHere
<1>2. CASE k # 0
  <2> DEFINE a == [ws[k] EXCEPT !.end = v]
             b == [ws[k] EXCEPT !.last = v]
  <2>1. /\ a \in GroupWindow /\ a.first = ws[k].first /\ a.end = v
        /\ b \in GroupWindow /\ b.first = ws[k].first /\ b.end = ws[k].end
    <3> DEFINE r == ws[k]
    <3>1. r \in GroupWindow
      BY <1>2
    <3> HIDE DEF r
    <3>2. /\ [r EXCEPT !.end = v] \in GroupWindow /\ [r EXCEPT !.end = v].first = r.first
          /\ [r EXCEPT !.end = v].end = v
          /\ [r EXCEPT !.last = v] \in GroupWindow /\ [r EXCEPT !.last = v].first = r.first
          /\ [r EXCEPT !.last = v].end = r.end
      BY <3>1 DEF GroupWindow
    <3> QED BY <3>2 DEF r
  <2>2. EndAt(ws, k, v) = [ws EXCEPT ![k] = a] /\ LastAt(ws, k, v) = [ws EXCEPT ![k] = b]
    BY <1>2 DEF EndAt, LastAt, NoOrdinal
  <2> HIDE DEF a, b
  <2>3. /\ EndAt(ws, k, v) \in Seq(GroupWindow) /\ Len(EndAt(ws, k, v)) = Len(ws)
        /\ LastAt(ws, k, v) \in Seq(GroupWindow) /\ Len(LastAt(ws, k, v)) = Len(ws)
    BY <1>2, <2>1, <2>2
  <2>4. \A j \in 1..Len(ws) : /\ EndAt(ws, k, v)[j] = IF j = k THEN a ELSE ws[j]
                              /\ LastAt(ws, k, v)[j] = IF j = k THEN b ELSE ws[j]
    BY <1>2, <2>2
  <2> QED BY <2>1, <2>3, <2>4 DEF EndsHere
<1> QED BY <1>1, <1>2

LEMMA WindowsFields ==
  ASSUME NEW w, WindowsType(w)
  PROVE  /\ w = [n |-> w.n, messages |-> w.messages, groups |-> w.groups,
                 message |-> w.message, group |-> w.group]
         /\ w.n \in Nat /\ w.message \in Nat /\ w.group \in Nat
         /\ w.messages \in Seq(MessageWindow)
         /\ w.groups \in Seq(GroupWindow)
         /\ w.message \in {0, Len(w.messages)}
         /\ w.group \in {0, Len(w.groups)}
BY DEF WindowsType

LEMMA WindowsOf ==
  ASSUME NEW n \in Nat, NEW messages \in Seq(MessageWindow), NEW groups \in Seq(GroupWindow),
         NEW message \in {0, Len(messages)}, NEW group \in {0, Len(groups)},
         NEW x, x = [n |-> n, messages |-> messages, groups |-> groups,
                     message |-> message, group |-> group]
  PROVE  WindowsType(x)
BY DEF WindowsType

LEMMA Extended ==
  ASSUME NEW w, WindowsType(w)
  PROVE  LET x == Extend(w)
         IN  /\ WindowsType(x)
             /\ x.n = w.n + 1
             /\ x.messages = EndAt(w.messages, w.message, w.n + 1)
             /\ x.groups = EndAt(w.groups, w.group, w.n + 1)
             /\ x.message = w.message
             /\ x.group = w.group
<1> DEFINE x == Extend(w)
           ms == EndAt(w.messages, w.message, w.n + 1)
           gs == EndAt(w.groups, w.group, w.n + 1)
<1>1. /\ w.n \in Nat /\ w.message \in Nat /\ w.group \in Nat
      /\ w.messages \in Seq(MessageWindow) /\ w.groups \in Seq(GroupWindow)
      /\ w.message \in {0, Len(w.messages)} /\ w.group \in {0, Len(w.groups)}
  BY WindowsFields
<1>2. /\ ms \in Seq(MessageWindow) /\ w.message \in {0, Len(ms)}
      /\ gs \in Seq(GroupWindow) /\ w.group \in {0, Len(gs)}
  <2>1. w.n + 1 \in Int
    BY <1>1
  <2>2. ms \in Seq(MessageWindow) /\ Len(ms) = Len(w.messages)
    <3>1. ms \in Seq(MessageWindow) /\ EndsHere(w.messages, ms, w.message, w.n + 1)
      BY <1>1, <2>1, MessageMoved
    <3> QED BY <3>1 DEF EndsHere
  <2>3. gs \in Seq(GroupWindow) /\ Len(gs) = Len(w.groups)
    <3>1. gs \in Seq(GroupWindow) /\ EndsHere(w.groups, gs, w.group, w.n + 1)
      BY <1>1, <2>1, GroupMoved
    <3> QED BY <3>1 DEF EndsHere
  <2> QED BY <1>1, <2>2, <2>3
<1>3. x = [n |-> w.n + 1, messages |-> ms, groups |-> gs,
           message |-> w.message, group |-> w.group]
  <2>1. w = [n |-> w.n, messages |-> w.messages, groups |-> w.groups,
             message |-> w.message, group |-> w.group]
    BY WindowsFields
  <2>2. x = [w EXCEPT !.n = w.n + 1, !.messages = ms, !.groups = gs,
                      !.message = w.message, !.group = w.group]
    BY <2>1 DEF Extend, NoOrdinal
  <2> HIDE DEF x, ms, gs
  <2> QED BY <2>1, <2>2
<1>4. WindowsType(x)
  <2> HIDE DEF x, ms, gs
  <2>1. w.n + 1 \in Nat
    BY <1>1
  <2> QED BY <1>1, <1>2, <1>3, <2>1, WindowsOf
<1>5. x.n = w.n + 1 /\ x.messages = ms /\ x.groups = gs /\ x.message = w.message /\ x.group = w.group
  <2> HIDE DEF x, ms, gs
  <2> QED BY <1>3
<1> QED BY <1>4, <1>5

LEMMA MessageCut ==
  ASSUME NEW w, WindowsType(w)
  PROVE  LET x == CutMessage(w)
         IN  /\ WindowsType(x)
             /\ x.n = w.n
             /\ x.messages = EndAt(w.messages, w.message, w.n - 1)
             /\ x.groups = w.groups
             /\ x.message = 0
             /\ x.group = w.group
<1> DEFINE x == CutMessage(w)
           ms == EndAt(w.messages, w.message, w.n - 1)
           gs == w.groups
<1>1. /\ w.n \in Nat /\ w.message \in Nat /\ w.group \in Nat
      /\ w.messages \in Seq(MessageWindow) /\ w.groups \in Seq(GroupWindow)
      /\ w.message \in {0, Len(w.messages)} /\ w.group \in {0, Len(w.groups)}
  BY WindowsFields
<1>2. /\ ms \in Seq(MessageWindow) /\ 0 \in {0, Len(ms)}
      /\ gs \in Seq(GroupWindow) /\ w.group \in {0, Len(gs)}
  <2>1. w.n - 1 \in Int
    BY <1>1
  <2> QED BY <1>1, <2>1, MessageMoved DEF EndsHere
<1>3. x = [n |-> w.n, messages |-> ms, groups |-> gs,
           message |-> 0, group |-> w.group]
  <2>1. w = [n |-> w.n, messages |-> w.messages, groups |-> w.groups,
             message |-> w.message, group |-> w.group]
    BY WindowsFields
  <2>2. x = [w EXCEPT !.n = w.n, !.messages = ms, !.groups = gs,
                      !.message = 0, !.group = w.group]
    BY <2>1 DEF CutMessage, NoOrdinal
  <2> HIDE DEF x, ms, gs
  <2> QED BY <2>1, <2>2
<1>4. WindowsType(x)
  <2> HIDE DEF x, ms, gs
  <2> QED BY <1>1, <1>2, <1>3, WindowsOf
<1>5. x.n = w.n /\ x.messages = ms /\ x.groups = gs /\ x.message = 0 /\ x.group = w.group
  <2> HIDE DEF x, ms, gs
  <2> QED BY <1>3
<1> QED BY <1>4, <1>5

LEMMA GroupCut ==
  ASSUME NEW w, WindowsType(w)
  PROVE  LET x == CutGroup(w)
         IN  /\ WindowsType(x)
             /\ x.n = w.n
             /\ x.messages = w.messages
             /\ x.groups = EndAt(w.groups, w.group, w.n - 1)
             /\ x.message = w.message
             /\ x.group = 0
<1> DEFINE x == CutGroup(w)
           ms == w.messages
           gs == EndAt(w.groups, w.group, w.n - 1)
<1>1. /\ w.n \in Nat /\ w.message \in Nat /\ w.group \in Nat
      /\ w.messages \in Seq(MessageWindow) /\ w.groups \in Seq(GroupWindow)
      /\ w.message \in {0, Len(w.messages)} /\ w.group \in {0, Len(w.groups)}
  BY WindowsFields
<1>2. /\ ms \in Seq(MessageWindow) /\ w.message \in {0, Len(ms)}
      /\ gs \in Seq(GroupWindow) /\ 0 \in {0, Len(gs)}
  <2>1. w.n - 1 \in Int
    BY <1>1
  <2> QED BY <1>1, <2>1, GroupMoved DEF EndsHere
<1>3. x = [n |-> w.n, messages |-> ms, groups |-> gs,
           message |-> w.message, group |-> 0]
  <2>1. w = [n |-> w.n, messages |-> w.messages, groups |-> w.groups,
             message |-> w.message, group |-> w.group]
    BY WindowsFields
  <2>2. x = [w EXCEPT !.n = w.n, !.messages = ms, !.groups = gs,
                      !.message = w.message, !.group = 0]
    BY <2>1 DEF CutGroup, NoOrdinal
  <2> HIDE DEF x, ms, gs
  <2> QED BY <2>1, <2>2
<1>4. WindowsType(x)
  <2> HIDE DEF x, ms, gs
  <2> QED BY <1>1, <1>2, <1>3, WindowsOf
<1>5. x.n = w.n /\ x.messages = ms /\ x.groups = gs /\ x.message = w.message /\ x.group = 0
  <2> HIDE DEF x, ms, gs
  <2> QED BY <1>3
<1> QED BY <1>4, <1>5

LEMMA MessageClosed ==
  ASSUME NEW w, WindowsType(w)
  PROVE  LET x == CloseMessage(w)
         IN  /\ WindowsType(x)
             /\ x.n = w.n
             /\ x.messages = LastAt(w.messages, w.message, w.n)
             /\ x.groups = w.groups
             /\ x.message = 0
             /\ x.group = w.group
<1> DEFINE x == CloseMessage(w)
           ms == LastAt(w.messages, w.message, w.n)
           gs == w.groups
<1>1. /\ w.n \in Nat /\ w.message \in Nat /\ w.group \in Nat
      /\ w.messages \in Seq(MessageWindow) /\ w.groups \in Seq(GroupWindow)
      /\ w.message \in {0, Len(w.messages)} /\ w.group \in {0, Len(w.groups)}
  BY WindowsFields
<1>2. /\ ms \in Seq(MessageWindow) /\ 0 \in {0, Len(ms)}
      /\ gs \in Seq(GroupWindow) /\ w.group \in {0, Len(gs)}
  <2>1. w.n \in Int
    BY <1>1
  <2> QED BY <1>1, <2>1, MessageMoved DEF EndsHere
<1>3. x = [n |-> w.n, messages |-> ms, groups |-> gs,
           message |-> 0, group |-> w.group]
  <2>1. w = [n |-> w.n, messages |-> w.messages, groups |-> w.groups,
             message |-> w.message, group |-> w.group]
    BY WindowsFields
  <2>2. x = [w EXCEPT !.n = w.n, !.messages = ms, !.groups = gs,
                      !.message = 0, !.group = w.group]
    BY <2>1 DEF CloseMessage, NoOrdinal
  <2> HIDE DEF x, ms, gs
  <2> QED BY <2>1, <2>2
<1>4. WindowsType(x)
  <2> HIDE DEF x, ms, gs
  <2> QED BY <1>1, <1>2, <1>3, WindowsOf
<1>5. x.n = w.n /\ x.messages = ms /\ x.groups = gs /\ x.message = 0 /\ x.group = w.group
  <2> HIDE DEF x, ms, gs
  <2> QED BY <1>3
<1> QED BY <1>4, <1>5

LEMMA GroupClosed ==
  ASSUME NEW w, WindowsType(w)
  PROVE  LET x == CloseGroup(w)
         IN  /\ WindowsType(x)
             /\ x.n = w.n
             /\ x.messages = w.messages
             /\ x.groups = LastAt(w.groups, w.group, w.n)
             /\ x.message = w.message
             /\ x.group = 0
<1> DEFINE x == CloseGroup(w)
           ms == w.messages
           gs == LastAt(w.groups, w.group, w.n)
<1>1. /\ w.n \in Nat /\ w.message \in Nat /\ w.group \in Nat
      /\ w.messages \in Seq(MessageWindow) /\ w.groups \in Seq(GroupWindow)
      /\ w.message \in {0, Len(w.messages)} /\ w.group \in {0, Len(w.groups)}
  BY WindowsFields
<1>2. /\ ms \in Seq(MessageWindow) /\ w.message \in {0, Len(ms)}
      /\ gs \in Seq(GroupWindow) /\ 0 \in {0, Len(gs)}
  <2>1. w.n \in Int
    BY <1>1
  <2> QED BY <1>1, <2>1, GroupMoved DEF EndsHere
<1>3. x = [n |-> w.n, messages |-> ms, groups |-> gs,
           message |-> w.message, group |-> 0]
  <2>1. w = [n |-> w.n, messages |-> w.messages, groups |-> w.groups,
             message |-> w.message, group |-> w.group]
    BY WindowsFields
  <2>2. x = [w EXCEPT !.n = w.n, !.messages = ms, !.groups = gs,
                      !.message = w.message, !.group = 0]
    BY <2>1 DEF CloseGroup, NoOrdinal
  <2> HIDE DEF x, ms, gs
  <2> QED BY <2>1, <2>2
<1>4. WindowsType(x)
  <2> HIDE DEF x, ms, gs
  <2> QED BY <1>1, <1>2, <1>3, WindowsOf
<1>5. x.n = w.n /\ x.messages = ms /\ x.groups = gs /\ x.message = w.message /\ x.group = 0
  <2> HIDE DEF x, ms, gs
  <2> QED BY <1>3
<1> QED BY <1>4, <1>5

LEMMA MessageOpened ==
  ASSUME NEW w, WindowsType(w)
  PROVE  LET x == OpenMessage(w)
         IN  /\ WindowsType(x)
             /\ x.n = w.n
             /\ x.messages = Append(w.messages, [first |-> w.n, last |-> 0, end |-> w.n, group |-> w.group])
             /\ x.groups = w.groups
             /\ x.message = Len(w.messages) + 1
             /\ x.group = w.group
<1> DEFINE x == OpenMessage(w)
           ms == Append(w.messages, [first |-> w.n, last |-> 0, end |-> w.n, group |-> w.group])
           gs == w.groups
<1>1. /\ w.n \in Nat /\ w.message \in Nat /\ w.group \in Nat
      /\ w.messages \in Seq(MessageWindow) /\ w.groups \in Seq(GroupWindow)
      /\ w.message \in {0, Len(w.messages)} /\ w.group \in {0, Len(w.groups)}
  BY WindowsFields
<1>2. /\ ms \in Seq(MessageWindow) /\ Len(w.messages) + 1 \in {0, Len(ms)}
      /\ gs \in Seq(GroupWindow) /\ w.group \in {0, Len(gs)}
  <2>1. [first |-> w.n, last |-> 0, end |-> w.n, group |-> w.group] \in MessageWindow
    BY <1>1 DEF MessageWindow
  <2> QED BY <1>1, <2>1
<1>3. x = [n |-> w.n, messages |-> ms, groups |-> gs,
           message |-> Len(w.messages) + 1, group |-> w.group]
  <2>1. w = [n |-> w.n, messages |-> w.messages, groups |-> w.groups,
             message |-> w.message, group |-> w.group]
    BY WindowsFields
  <2>2. x = [w EXCEPT !.n = w.n, !.messages = ms, !.groups = gs,
                      !.message = Len(w.messages) + 1, !.group = w.group]
    BY <2>1 DEF OpenMessage, NoOrdinal
  <2> HIDE DEF x, ms, gs
  <2> QED BY <2>1, <2>2
<1>4. WindowsType(x)
  <2> HIDE DEF x, ms, gs
  <2> QED BY <1>1, <1>2, <1>3, WindowsOf
<1>5. x.n = w.n /\ x.messages = ms /\ x.groups = gs /\ x.message = Len(w.messages) + 1 /\ x.group = w.group
  <2> HIDE DEF x, ms, gs
  <2> QED BY <1>3
<1> QED BY <1>4, <1>5

LEMMA GroupOpened ==
  ASSUME NEW w, WindowsType(w)
  PROVE  LET x == OpenGroup(w)
         IN  /\ WindowsType(x)
             /\ x.n = w.n
             /\ x.messages = w.messages
             /\ x.groups = Append(w.groups, [first |-> w.n, last |-> 0, end |-> w.n])
             /\ x.message = w.message
             /\ x.group = Len(w.groups) + 1
<1> DEFINE x == OpenGroup(w)
           ms == w.messages
           gs == Append(w.groups, [first |-> w.n, last |-> 0, end |-> w.n])
<1>1. /\ w.n \in Nat /\ w.message \in Nat /\ w.group \in Nat
      /\ w.messages \in Seq(MessageWindow) /\ w.groups \in Seq(GroupWindow)
      /\ w.message \in {0, Len(w.messages)} /\ w.group \in {0, Len(w.groups)}
  BY WindowsFields
<1>2. /\ ms \in Seq(MessageWindow) /\ w.message \in {0, Len(ms)}
      /\ gs \in Seq(GroupWindow) /\ Len(w.groups) + 1 \in {0, Len(gs)}
  <2>1. [first |-> w.n, last |-> 0, end |-> w.n] \in GroupWindow
    BY <1>1 DEF GroupWindow
  <2> QED BY <1>1, <2>1
<1>3. x = [n |-> w.n, messages |-> ms, groups |-> gs,
           message |-> w.message, group |-> Len(w.groups) + 1]
  <2>1. w = [n |-> w.n, messages |-> w.messages, groups |-> w.groups,
             message |-> w.message, group |-> w.group]
    BY WindowsFields
  <2>2. x = [w EXCEPT !.n = w.n, !.messages = ms, !.groups = gs,
                      !.message = w.message, !.group = Len(w.groups) + 1]
    BY <2>1 DEF OpenGroup, NoOrdinal
  <2> HIDE DEF x, ms, gs
  <2> QED BY <2>1, <2>2
<1>4. WindowsType(x)
  <2> HIDE DEF x, ms, gs
  <2> QED BY <1>1, <1>2, <1>3, WindowsOf
<1>5. x.n = w.n /\ x.messages = ms /\ x.groups = gs /\ x.message = w.message /\ x.group = Len(w.groups) + 1
  <2> HIDE DEF x, ms, gs
  <2> QED BY <1>3
<1> QED BY <1>4, <1>5

-----------------------------------------------------------------------------
(* What a walk over the first i tags has found: a window for every opener, *)
(* up to the first tag that stops it, with it when that is its closer; the *)
(* last of them, o, is the one that nothing has stopped.                   *)
Clear(tags, f, i, stops) == \A j \in f+1..i : tags[j] \notin stops

EndsAt(tags, i, f, e, stops, closer) ==
  \/ e = i /\ Clear(tags, f, i, stops)
  \/ \E j \in f+1..i : /\ tags[j] \in stops /\ Clear(tags, f, j-1, stops)
                       /\ e = IF tags[j] = closer THEN j ELSE j-1

Walked(tags, i, ws, o, opener, stops, closer) ==
  /\ o \in {0, Len(ws)}
  /\ \A k \in 1..Len(ws) : /\ ws[k].first \in 1..i /\ tags[ws[k].first] = opener
                           /\ ws[k].end \in ws[k].first..i
                           /\ EndsAt(tags, i, ws[k].first, ws[k].end, stops, closer)
                           /\ IF k = o THEN Clear(tags, ws[k].first, i, stops)
                              ELSE ~Clear(tags, ws[k].first, i, stops)
  /\ \A k, l \in 1..Len(ws) : k < l => ws[k].end < ws[l].first
  /\ \A f \in 1..i : tags[f] = opener => \E k \in 1..Len(ws) : ws[k].first = f

LEMMA OpenReaches ==
  ASSUME NEW tags, NEW i \in Int, NEW opener, NEW stops, NEW closer, NEW ws, NEW o,
         Walked(tags, i, ws, o, opener, stops, closer)
  PROVE  \A k \in 1..Len(ws) : k = o => ws[k].end = i
<1> SUFFICES ASSUME NEW k \in 1..Len(ws), k = o
             PROVE  ws[k].end = i
  OBVIOUS
<1>1. /\ EndsAt(tags, i, ws[k].first, ws[k].end, stops, closer)
      /\ Clear(tags, ws[k].first, i, stops)
  BY DEF Walked
<1> QED BY <1>1 DEF EndsAt, Clear

(* A tag that stops nothing extends the open window.                       *)
LEMMA WalkGoesOn ==
  ASSUME NEW tags, NEW i \in Nat \ {0}, NEW opener, NEW stops, NEW closer, opener \in stops,
         NEW ws, Len(ws) \in Nat, NEW o, Walked(tags, i-1, ws, o, opener, stops, closer),
         tags[i] \notin stops,
         NEW vs, Len(vs) = Len(ws),
         \A k \in 1..Len(ws) : /\ vs[k].first = ws[k].first
                               /\ vs[k].end = IF k = o THEN i ELSE ws[k].end
  PROVE  Walked(tags, i, vs, o, opener, stops, closer)
<1>1. \A k \in 1..Len(ws) :
        /\ vs[k].first \in 1..i /\ tags[vs[k].first] = opener
        /\ vs[k].end \in vs[k].first..i
        /\ EndsAt(tags, i, vs[k].first, vs[k].end, stops, closer)
        /\ IF k = o THEN Clear(tags, vs[k].first, i, stops)
           ELSE ~Clear(tags, vs[k].first, i, stops)
  <2> SUFFICES ASSUME NEW k \in 1..Len(ws)
               PROVE  /\ vs[k].first \in 1..i /\ tags[vs[k].first] = opener
                      /\ vs[k].end \in vs[k].first..i
                      /\ EndsAt(tags, i, vs[k].first, vs[k].end, stops, closer)
                      /\ IF k = o THEN Clear(tags, vs[k].first, i, stops)
                         ELSE ~Clear(tags, vs[k].first, i, stops)
    OBVIOUS
  <2>1. /\ ws[k].first \in 1..i-1 /\ tags[ws[k].first] = opener
        /\ ws[k].end \in ws[k].first..i-1
        /\ EndsAt(tags, i-1, ws[k].first, ws[k].end, stops, closer)
        /\ IF k = o THEN Clear(tags, ws[k].first, i-1, stops)
           ELSE ~Clear(tags, ws[k].first, i-1, stops)
    BY DEF Walked
  <2>2. vs[k].first = ws[k].first /\ vs[k].end = IF k = o THEN i ELSE ws[k].end
    OBVIOUS
  <2> DEFINE f == ws[k].first
             e == ws[k].end
  <2>3. /\ f \in 1..i-1 /\ tags[f] = opener /\ e \in f..i-1
        /\ EndsAt(tags, i-1, f, e, stops, closer)
        /\ IF k = o THEN Clear(tags, f, i-1, stops) ELSE ~Clear(tags, f, i-1, stops)
    BY <2>1
  <2> HIDE DEF f, e
  <2>4. CASE k = o
    <3>1. Clear(tags, f, i, stops)
      BY <2>3, <2>4 DEF Clear
    <3>2. EndsAt(tags, i, f, i, stops, closer)
      BY <3>1 DEF EndsAt
    <3> QED BY <2>2, <2>3, <2>4, <3>1, <3>2 DEF f, e
  <2>5. CASE k # o
    <3>1. ~Clear(tags, f, i, stops)
      BY <2>3, <2>5 DEF Clear
    <3>2. EndsAt(tags, i, f, e, stops, closer)
      BY <2>3, <2>5 DEF EndsAt
    <3> QED BY <2>2, <2>3, <2>5, <3>1, <3>2 DEF f, e
  <2> QED BY <2>4, <2>5
<1>2. \A k, l \in 1..Len(vs) : k < l => vs[k].end < vs[l].first
  <2> SUFFICES ASSUME NEW k \in 1..Len(ws), NEW l \in 1..Len(ws), k < l
               PROVE  vs[k].end < vs[l].first
    OBVIOUS
  <2>1. o \in {0, Len(ws)} /\ ws[k].end < ws[l].first
    BY DEF Walked
  <2>2. k # o
    BY <2>1
  <2> QED BY <2>1, <2>2
<1>3. \A f \in 1..i : tags[f] = opener => \E k \in 1..Len(vs) : vs[k].first = f
  <2> SUFFICES ASSUME NEW f \in 1..i, tags[f] = opener
               PROVE  \E k \in 1..Len(ws) : vs[k].first = f
    OBVIOUS
  <2>1. f \in 1..i-1
    <3>1. f # i
      OBVIOUS
    <3> QED BY <3>1
  <2>2. PICK k \in 1..Len(ws) : ws[k].first = f
    BY <2>1 DEF Walked
  <2> QED BY <2>2
<1>4. o \in {0, Len(vs)}
  BY DEF Walked
<1> QED BY <1>1, <1>2, <1>3, <1>4 DEF Walked

(* A tag that stops ends the open window, with it or before it.            *)
(* A window that a later tag already ended ends there however far the tags *)
(* are read, and one still open ends at the tag that stops it.             *)
LEMMA EndStays ==
  ASSUME NEW tags, NEW i \in Nat, NEW n \in Nat, i <= n, NEW f \in Nat, NEW e, NEW stops,
         NEW closer, EndsAt(tags, i, f, e, stops, closer), ~Clear(tags, f, i, stops)
  PROVE  EndsAt(tags, n, f, e, stops, closer)
<1>1. PICK j \in f+1..i : /\ tags[j] \in stops /\ Clear(tags, f, j-1, stops)
                          /\ e = IF tags[j] = closer THEN j ELSE j-1
  BY DEF EndsAt
<1>2. j \in f+1..n
  OBVIOUS
<1> QED BY <1>1, <1>2 DEF EndsAt

LEMMA EndIsHere ==
  ASSUME NEW tags, NEW i \in Nat, NEW f \in Nat, f < i, NEW e, NEW stops, NEW closer,
         tags[i] \in stops, Clear(tags, f, i-1, stops),
         e = IF tags[i] = closer THEN i ELSE i-1
  PROVE  /\ EndsAt(tags, i, f, e, stops, closer)
         /\ ~Clear(tags, f, i, stops)
<1>1. i \in f+1..i
  OBVIOUS
<1>2. ~Clear(tags, f, i, stops)
  BY <1>1 DEF Clear
<1>3. EndsAt(tags, i, f, e, stops, closer)
  BY <1>1 DEF EndsAt
<1> QED BY <1>2, <1>3

LEMMA WalkStops ==
  ASSUME NEW tags, NEW i \in Nat \ {0}, NEW opener, NEW stops, NEW closer, opener \in stops,
         NEW ws, Len(ws) \in Nat, NEW o, Walked(tags, i-1, ws, o, opener, stops, closer),
         tags[i] \in stops, tags[i] # opener,
         NEW vs, Len(vs) = Len(ws),
         \A k \in 1..Len(ws) :
           /\ vs[k].first = ws[k].first
           /\ vs[k].end = IF k = o THEN (IF tags[i] = closer THEN i ELSE i-1) ELSE ws[k].end
  PROVE  Walked(tags, i, vs, 0, opener, stops, closer)
<1>1. \A k \in 1..Len(ws) :
        /\ vs[k].first \in 1..i /\ tags[vs[k].first] = opener
        /\ vs[k].end \in vs[k].first..i
        /\ EndsAt(tags, i, vs[k].first, vs[k].end, stops, closer)
        /\ ~Clear(tags, vs[k].first, i, stops)
  <2> SUFFICES ASSUME NEW k \in 1..Len(ws)
               PROVE  /\ vs[k].first \in 1..i /\ tags[vs[k].first] = opener
                      /\ vs[k].end \in vs[k].first..i
                      /\ EndsAt(tags, i, vs[k].first, vs[k].end, stops, closer)
                      /\ ~Clear(tags, vs[k].first, i, stops)
    OBVIOUS
  <2>1. /\ ws[k].first \in 1..i-1 /\ tags[ws[k].first] = opener
        /\ ws[k].end \in ws[k].first..i-1
        /\ EndsAt(tags, i-1, ws[k].first, ws[k].end, stops, closer)
        /\ IF k = o THEN Clear(tags, ws[k].first, i-1, stops)
           ELSE ~Clear(tags, ws[k].first, i-1, stops)
    BY DEF Walked
  <2>2. /\ vs[k].first = ws[k].first
        /\ vs[k].end = IF k = o THEN (IF tags[i] = closer THEN i ELSE i-1) ELSE ws[k].end
    OBVIOUS
  <2> DEFINE f == ws[k].first
             e == ws[k].end
  <2>3. /\ f \in 1..i-1 /\ tags[f] = opener /\ e \in f..i-1
        /\ EndsAt(tags, i-1, f, e, stops, closer)
        /\ IF k = o THEN Clear(tags, f, i-1, stops) ELSE ~Clear(tags, f, i-1, stops)
    BY <2>1
  <2> HIDE DEF f, e
  <2>4. f \in Nat /\ f < i /\ i \in f+1..i
    BY <2>3
  <2>5. CASE k = o
    <3> DEFINE last == IF tags[i] = closer THEN i ELSE i-1
    <3>1. /\ EndsAt(tags, i, f, last, stops, closer)
          /\ ~Clear(tags, f, i, stops)
      <4>1. Clear(tags, f, i-1, stops)
        BY <2>3, <2>5
      <4> QED BY <2>4, <4>1, EndIsHere
    <3>2. last \in f..i
      BY <2>4
    <3>3. vs[k].first = f /\ vs[k].end = last
      BY <2>2, <2>5 DEF f
    <3>4. f \in 1..i
      BY <2>3
    <3> HIDE DEF last
    <3> QED BY <2>3, <3>1, <3>2, <3>3, <3>4
  <2>6. CASE k # o
    <3>1. ~Clear(tags, f, i-1, stops)
      BY <2>3, <2>6
    <3>2. EndsAt(tags, i, f, e, stops, closer)
      <4>1. i-1 \in Nat /\ i-1 <= i
        OBVIOUS
      <4> QED BY <2>3, <2>4, <3>1, <4>1, EndStays
    <3>3. ~Clear(tags, f, i, stops)
      <4>1. PICK j \in f+1..i-1 : tags[j] \in stops
        BY <3>1 DEF Clear
      <4>2. j \in f+1..i
        BY <2>4
      <4> QED BY <4>1, <4>2 DEF Clear
    <3>4. vs[k].first = f /\ vs[k].end = e
      BY <2>2, <2>6 DEF f, e
    <3>5. f \in 1..i /\ e \in f..i
      BY <2>3
    <3> QED BY <2>3, <3>2, <3>3, <3>4, <3>5
  <2> QED BY <2>5, <2>6
<1>2. \A k, l \in 1..Len(vs) : k < l => vs[k].end < vs[l].first
  <2> SUFFICES ASSUME NEW k \in 1..Len(ws), NEW l \in 1..Len(ws), k < l
               PROVE  vs[k].end < vs[l].first
    OBVIOUS
  <2>1. o \in {0, Len(ws)} /\ ws[k].end < ws[l].first
    BY DEF Walked
  <2>2. k # o
    BY <2>1
  <2> QED BY <2>1, <2>2
<1>3. \A f \in 1..i : tags[f] = opener => \E k \in 1..Len(vs) : vs[k].first = f
  <2> SUFFICES ASSUME NEW f \in 1..i, tags[f] = opener
               PROVE  \E k \in 1..Len(ws) : vs[k].first = f
    OBVIOUS
  <2>1. f \in 1..i-1
    <3>1. f # i
      OBVIOUS
    <3> QED BY <3>1
  <2>2. PICK k \in 1..Len(ws) : ws[k].first = f
    BY <2>1 DEF Walked
  <2> QED BY <2>2
<1>4. 0 \in {0, Len(vs)} /\ \A k \in 1..Len(vs) : k # 0
  OBVIOUS
<1> QED BY <1>1, <1>2, <1>3, <1>4 DEF Walked

(* An opener ends the open window before it, and opens one.                *)
LEMMA WalkOpens ==
  ASSUME NEW tags, NEW i \in Nat \ {0}, NEW opener, NEW stops, NEW closer, opener \in stops,
         opener # closer,
         NEW ws, Len(ws) \in Nat, NEW o, Walked(tags, i-1, ws, o, opener, stops, closer),
         tags[i] = opener,
         NEW vs, Len(vs) = Len(ws) + 1,
         \A k \in 1..Len(ws) : vs[k].first = ws[k].first /\ vs[k].end = ws[k].end,
         vs[Len(vs)].first = i, vs[Len(vs)].end = i
  PROVE  Walked(tags, i, vs, Len(vs), opener, stops, closer)
<1>1. \A k \in 1..Len(ws) :
        /\ vs[k].first \in 1..i /\ tags[vs[k].first] = opener
        /\ vs[k].end \in vs[k].first..i /\ vs[k].end < i
        /\ EndsAt(tags, i, vs[k].first, vs[k].end, stops, closer)
        /\ ~Clear(tags, vs[k].first, i, stops)
  <2> SUFFICES ASSUME NEW k \in 1..Len(ws)
               PROVE  /\ vs[k].first \in 1..i /\ tags[vs[k].first] = opener
                      /\ vs[k].end \in vs[k].first..i /\ vs[k].end < i
                      /\ EndsAt(tags, i, vs[k].first, vs[k].end, stops, closer)
                      /\ ~Clear(tags, vs[k].first, i, stops)
    OBVIOUS
  <2>1. /\ ws[k].first \in 1..i-1 /\ tags[ws[k].first] = opener
        /\ ws[k].end \in ws[k].first..i-1
        /\ EndsAt(tags, i-1, ws[k].first, ws[k].end, stops, closer)
    BY DEF Walked
  <2>2. vs[k].first = ws[k].first /\ vs[k].end = ws[k].end
    OBVIOUS
  <2> DEFINE f == ws[k].first
             e == ws[k].end
  <2>3. /\ f \in 1..i-1 /\ tags[f] = opener /\ e \in f..i-1
        /\ EndsAt(tags, i-1, f, e, stops, closer)
    BY <2>1
  <2> HIDE DEF f, e
  <2>4. ~Clear(tags, f, i, stops)
    BY <2>3 DEF Clear
  <2>5. EndsAt(tags, i, f, e, stops, closer)
    <3>1. CASE e = i-1 /\ Clear(tags, f, i-1, stops)
      BY <2>3, <3>1 DEF EndsAt
    <3>2. CASE \E j \in f+1..i-1 : /\ tags[j] \in stops /\ Clear(tags, f, j-1, stops)
                                   /\ e = IF tags[j] = closer THEN j ELSE j-1
      BY <2>3, <3>2 DEF EndsAt
    <3> QED BY <2>3, <3>1, <3>2 DEF EndsAt
  <2> QED BY <2>2, <2>3, <2>4, <2>5 DEF f, e
<1>2. Clear(tags, i, i, stops) /\ EndsAt(tags, i, i, i, stops, closer)
  BY DEF Clear, EndsAt
<1>3. \A k, l \in 1..Len(vs) : k < l => vs[k].end < vs[l].first
  <2> SUFFICES ASSUME NEW k \in 1..Len(vs), NEW l \in 1..Len(vs), k < l
               PROVE  vs[k].end < vs[l].first
    OBVIOUS
  <2>1. CASE l = Len(vs)
    BY <1>1, <2>1
  <2>2. CASE l # Len(vs)
    <3>1. k \in 1..Len(ws) /\ l \in 1..Len(ws)
      BY <2>2
    <3>2. ws[k].end < ws[l].first
      BY <3>1 DEF Walked
    <3> QED BY <3>1, <3>2
  <2> QED BY <2>1, <2>2
<1>4. \A f \in 1..i : tags[f] = opener => \E k \in 1..Len(vs) : vs[k].first = f
  <2> SUFFICES ASSUME NEW f \in 1..i, tags[f] = opener
               PROVE  \E k \in 1..Len(vs) : vs[k].first = f
    OBVIOUS
  <2>1. CASE f = i
    BY <2>1
  <2>2. CASE f # i
    <3>1. PICK k \in 1..Len(ws) : ws[k].first = f
      BY <2>2 DEF Walked
    <3> QED BY <3>1
  <2> QED BY <2>1, <2>2
<1>5. \A k \in 1..Len(vs) : k \in 1..Len(ws) \/ k = Len(vs)
  OBVIOUS
<1>6. \A k \in 1..Len(ws) : k # Len(vs)
  OBVIOUS
<1>7. \A k \in 1..Len(vs) :
        /\ vs[k].first \in 1..i /\ tags[vs[k].first] = opener
        /\ vs[k].end \in vs[k].first..i
        /\ EndsAt(tags, i, vs[k].first, vs[k].end, stops, closer)
        /\ IF k = Len(vs) THEN Clear(tags, vs[k].first, i, stops)
           ELSE ~Clear(tags, vs[k].first, i, stops)
  BY <1>1, <1>2, <1>5, <1>6
<1> QED BY <1>3, <1>4, <1>7 DEF Walked

-----------------------------------------------------------------------------
(* What one tag does to the messages and to the groups: ws becomes vs, and *)
(* the open one, o, becomes p.                                             *)
Extends(ws, vs, o, p, n) == EndsHere(ws, vs, o, n) /\ p = o
Closed(ws, vs, o, p, n) == EndsHere(ws, vs, o, n) /\ p = 0
CutShort(ws, vs, o, p, n) == EndsHere(ws, vs, o, n - 1) /\ p = 0
Opens(ws, vs, o, p, n) ==
  /\ Len(vs) = Len(ws) + 1 /\ p = Len(vs)
  /\ \A k \in 1..Len(ws) : /\ vs[k].first = ws[k].first
                           /\ vs[k].end = IF k = o THEN n - 1 ELSE ws[k].end
  /\ vs[Len(vs)].first = n /\ vs[Len(vs)].end = n

MessageStops == {"UNH", "UNT", "UNG", "UNE", "UNZ"}
GroupStops == {"UNG", "UNE", "UNZ"}

(* The two moves of a cut, of the item it was extended by and back. *)
LEMMA CutAfter ==
  ASSUME NEW ws, NEW us, NEW vs, NEW o, NEW n, NEW e, EndsHere(ws, us, o, n), EndsHere(us, vs, o, e)
  PROVE  EndsHere(ws, vs, o, e)
BY DEF EndsHere

LEMMA GroupsAppended ==
  ASSUME NEW ws \in Seq(GroupWindow), NEW us \in Seq(GroupWindow), NEW o, NEW n \in Nat,
         NEW e, e = n - 1, EndsHere(ws, us, o, e),
         NEW new \in GroupWindow, new.first = n, new.end = n,
         NEW vs, vs = Append(us, new)
  PROVE  Opens(ws, vs, o, Len(vs), n)
<1>1. Len(us) = Len(ws) /\ Len(vs) = Len(us) + 1 /\ vs[Len(vs)] = new
  BY DEF EndsHere
<1>2. \A k \in 1..Len(us) : vs[k] = us[k]
  OBVIOUS
<1> QED BY <1>1, <1>2 DEF Opens, EndsHere

(* The cut of a message that the current item has extended. *)
LEMMA ExtendedThenCut ==
  ASSUME NEW w, WindowsType(w)
  PROVE  LET x == Extend(w)
             c == CutMessage(x)
         IN  /\ WindowsType(x) /\ x.n = w.n + 1
             /\ EndsHere(w.messages, x.messages, w.message, w.n + 1)
             /\ SameGroups(w.messages, x.messages)
             /\ EndsHere(w.groups, x.groups, w.group, w.n + 1)
             /\ x.message = w.message /\ x.group = w.group
             /\ WindowsType(c) /\ c.n = w.n + 1
             /\ EndsHere(w.messages, c.messages, w.message, w.n)
             /\ SameGroups(w.messages, c.messages)
             /\ c.groups = x.groups /\ c.message = 0 /\ c.group = w.group
<1> DEFINE x == Extend(w)
           c == CutMessage(x)
<1>1. /\ w.n \in Nat /\ w.n + 1 \in Int
      /\ w.messages \in Seq(MessageWindow) /\ w.message \in {0, Len(w.messages)}
      /\ w.groups \in Seq(GroupWindow) /\ w.group \in {0, Len(w.groups)}
  BY WindowsFields
<1>2. /\ WindowsType(x) /\ x.n = w.n + 1
      /\ x.messages = EndAt(w.messages, w.message, w.n + 1)
      /\ x.groups = EndAt(w.groups, w.group, w.n + 1)
      /\ x.message = w.message /\ x.group = w.group
  BY Extended
<1> HIDE DEF x
<1>3. /\ EndsHere(w.messages, x.messages, w.message, w.n + 1)
      /\ SameGroups(w.messages, x.messages)
  BY <1>1, <1>2, MessageMoved
<1>4. EndsHere(w.groups, x.groups, w.group, w.n + 1)
  BY <1>1, <1>2, GroupMoved
<1>5. /\ WindowsType(c) /\ c.n = x.n
      /\ c.messages = EndAt(x.messages, x.message, x.n - 1)
      /\ c.groups = x.groups /\ c.message = 0 /\ c.group = x.group
  BY <1>2, MessageCut
<1> HIDE DEF c
<1>6. EndsHere(x.messages, c.messages, w.message, w.n) /\ SameGroups(x.messages, c.messages)
  <2>1. /\ x.messages \in Seq(MessageWindow) /\ x.message \in {0, Len(x.messages)}
        /\ x.n - 1 = w.n /\ w.n \in Int
    <3>1. x.messages \in Seq(MessageWindow) /\ x.message \in {0, Len(x.messages)}
      BY <1>2, WindowsFields
    <3>2. x.n - 1 = w.n /\ w.n \in Int
      BY <1>1, <1>2
    <3> QED BY <3>1, <3>2
  <2> QED BY <1>2, <1>5, <2>1, MessageMoved
<1>7. EndsHere(w.messages, c.messages, w.message, w.n)
  BY <1>3, <1>6, CutAfter
<1>8. SameGroups(w.messages, c.messages)
  BY <1>3, <1>6 DEF SameGroups, EndsHere
<1> QED BY <1>2, <1>3, <1>4, <1>5, <1>7, <1>8 DEF x, c

(* What Scan does to the windows, by the tag of the item. *)
MessagesMove(w, y, tag, n) ==
  CASE tag = "UNH" ->
         /\ Opens(w.messages, y.messages, w.message, y.message, n)
         /\ SameGroups(w.messages, y.messages)
         /\ y.messages[Len(y.messages)].group = w.group
    [] tag = "UNT" ->
         /\ Closed(w.messages, y.messages, w.message, y.message, n)
         /\ SameGroups(w.messages, y.messages)
    [] tag \in {"UNG", "UNE", "UNZ"} ->
         /\ CutShort(w.messages, y.messages, w.message, y.message, n)
         /\ SameGroups(w.messages, y.messages)
    [] OTHER ->
         /\ Extends(w.messages, y.messages, w.message, y.message, n)
         /\ SameGroups(w.messages, y.messages)

GroupsMove(w, y, tag, n) ==
  CASE tag = "UNG" -> Opens(w.groups, y.groups, w.group, y.group, n)
    [] tag = "UNE" -> Closed(w.groups, y.groups, w.group, y.group, n)
    [] tag = "UNZ" -> CutShort(w.groups, y.groups, w.group, y.group, n)
    [] OTHER -> Extends(w.groups, y.groups, w.group, y.group, n)

LEMMA ScanMoves ==
  ASSUME NEW w, WindowsType(w), NEW tag
  PROVE  LET y == Scan(w, tag)
         IN  /\ WindowsType(y) /\ y.n = w.n + 1
             /\ MessagesMove(w, y, tag, w.n + 1)
             /\ GroupsMove(w, y, tag, w.n + 1)
<1> DEFINE x == Extend(w)
           c == CutMessage(x)
           y == Scan(w, tag)
           n == w.n + 1
<1>1. /\ w.n \in Nat /\ n \in Nat /\ n - 1 = w.n
      /\ w.messages \in Seq(MessageWindow) /\ w.message \in {0, Len(w.messages)}
      /\ w.groups \in Seq(GroupWindow) /\ w.group \in {0, Len(w.groups)} /\ w.group \in Nat
  BY WindowsFields
<1>2. /\ WindowsType(x) /\ x.n = n
      /\ EndsHere(w.messages, x.messages, w.message, n)
      /\ SameGroups(w.messages, x.messages)
      /\ EndsHere(w.groups, x.groups, w.group, n)
      /\ x.message = w.message /\ x.group = w.group
  BY ExtendedThenCut
<1>3. /\ WindowsType(c) /\ c.n = n
      /\ EndsHere(w.messages, c.messages, w.message, n - 1)
      /\ SameGroups(w.messages, c.messages)
      /\ c.groups = x.groups /\ c.message = 0 /\ c.group = w.group
  BY <1>1, ExtendedThenCut
<1>4. y = CASE tag = "UNH" -> OpenMessage(c)
            [] tag = "UNT" -> CloseMessage(x)
            [] tag = "UNG" -> OpenGroup(CutGroup(c))
            [] tag = "UNE" -> CloseGroup(c)
            [] tag = "UNZ" -> CutGroup(c)
            [] OTHER -> x
  BY DEF Scan
<1> HIDE DEF x, c, y, n
<1>5. /\ x.messages \in Seq(MessageWindow) /\ x.message \in {0, Len(x.messages)}
      /\ x.groups \in Seq(GroupWindow) /\ x.group \in {0, Len(x.groups)} /\ x.n \in Int
  BY <1>2, WindowsFields
<1>6. /\ c.messages \in Seq(MessageWindow) /\ c.groups \in Seq(GroupWindow)
      /\ c.group \in {0, Len(c.groups)} /\ c.n \in Int
  BY <1>3, WindowsFields
<1> DEFINE d == CutGroup(c)
<1>7. /\ WindowsType(d) /\ d.n = n /\ d.messages = c.messages /\ d.message = 0 /\ d.group = 0
      /\ d.groups \in Seq(GroupWindow) /\ EndsHere(w.groups, d.groups, w.group, n - 1)
  <2>1. /\ WindowsType(d) /\ d.n = c.n /\ d.messages = c.messages /\ d.message = c.message
        /\ d.groups = EndAt(c.groups, c.group, c.n - 1) /\ d.group = 0
    BY <1>3, GroupCut
  <2>2. c.n - 1 \in Int
    BY <1>6
  <2>3. EndsHere(c.groups, d.groups, c.group, c.n - 1) /\ d.groups \in Seq(GroupWindow)
    BY <1>6, <2>1, <2>2, GroupMoved
  <2>4. EndsHere(w.groups, d.groups, w.group, n - 1)
    BY <1>2, <1>3, <2>3, CutAfter
  <2> QED BY <1>3, <2>1, <2>3, <2>4
<1> HIDE DEF d
<1>8. CASE tag = "UNH"
  <2>1. /\ WindowsType(y) /\ y.n = c.n
        /\ y.messages = Append(c.messages, [first |-> c.n, last |-> 0, end |-> c.n, group |-> c.group])
        /\ y.groups = c.groups /\ y.message = Len(c.messages) + 1 /\ y.group = c.group
    BY <1>3, <1>4, <1>8, MessageOpened
  <2>2. /\ Opens(w.messages, y.messages, w.message, Len(y.messages), n)
        /\ SameGroups(w.messages, y.messages)
        /\ y.messages[Len(y.messages)].group = w.group
    <3> DEFINE new == [first |-> n, last |-> 0, end |-> n, group |-> w.group]
    <3>1. y.messages = Append(c.messages, new)
      BY <1>3, <2>1
    <3>3. new \in MessageWindow /\ new.first = n /\ new.end = n /\ new.group = w.group
      BY <1>1 DEF MessageWindow
    <3> HIDE DEF new
    <3>2. /\ w.messages \in Seq(MessageWindow) /\ c.messages \in Seq(MessageWindow)
          /\ n \in Nat /\ w.group \in Nat
          /\ EndsHere(w.messages, c.messages, w.message, n - 1)
          /\ SameGroups(w.messages, c.messages)
      BY <1>1, <1>3, <1>6
    <3>4. /\ Len(c.messages) = Len(w.messages) /\ Len(y.messages) = Len(c.messages) + 1
          /\ y.messages[Len(y.messages)] = new
          /\ \A k \in 1..Len(c.messages) : y.messages[k] = c.messages[k]
      BY <3>1, <3>2, <3>3 DEF EndsHere
    <3>5. SameGroups(w.messages, y.messages)
      BY <3>2, <3>4 DEF SameGroups
    <3>6. Opens(w.messages, y.messages, w.message, Len(y.messages), n)
      BY <3>2, <3>3, <3>4 DEF Opens, EndsHere
    <3> QED BY <3>3, <3>4, <3>5, <3>6
  <2>3. y.message = Len(y.messages)
    BY <1>6, <2>1, <2>2, <1>3 DEF Opens, EndsHere
  <2>4. MessagesMove(w, y, tag, n)
    BY <1>8, <2>2, <2>3 DEF MessagesMove
  <2>5. GroupsMove(w, y, tag, n)
    BY <1>2, <1>3, <1>8, <2>1 DEF GroupsMove, Extends
  <2> QED BY <1>3, <2>1, <2>4, <2>5 DEF y, n
<1>9. CASE tag = "UNT"
  <2>1. /\ WindowsType(y) /\ y.n = x.n
        /\ y.messages = LastAt(x.messages, x.message, x.n)
        /\ y.groups = x.groups /\ y.message = 0 /\ y.group = x.group
    BY <1>2, <1>4, <1>9, MessageClosed
  <2>2. /\ SameGroups(x.messages, y.messages)
        /\ EndsHere(x.messages, y.messages, x.message, n) <=> EndsHere(x.messages, x.messages, x.message, n)
    BY <1>5, <2>1, MessageMoved
  <2>3. EndsHere(x.messages, x.messages, x.message, n)
    BY <1>2 DEF EndsHere
  <2>4. EndsHere(w.messages, y.messages, w.message, n)
    BY <1>2, <2>2, <2>3, CutAfter
  <2>5. SameGroups(w.messages, y.messages)
    BY <1>2, <2>2 DEF SameGroups, EndsHere
  <2>6. MessagesMove(w, y, tag, n)
    BY <1>9, <2>1, <2>4, <2>5 DEF MessagesMove, Closed
  <2>7. GroupsMove(w, y, tag, n)
    BY <1>2, <1>9, <2>1 DEF GroupsMove, Extends
  <2> QED BY <1>2, <2>1, <2>6, <2>7 DEF y, n
<1>10. CASE tag = "UNG"
  <2>1. /\ WindowsType(y) /\ y.n = d.n
        /\ y.groups = Append(d.groups, [first |-> d.n, last |-> 0, end |-> d.n])
        /\ y.messages = d.messages /\ y.message = d.message /\ y.group = Len(d.groups) + 1
    BY <1>4, <1>7, <1>10, GroupOpened DEF d
  <2>2. Opens(w.groups, y.groups, w.group, Len(y.groups), n)
    <3> DEFINE new == [first |-> n, last |-> 0, end |-> n]
    <3>1. y.groups = Append(d.groups, new)
      BY <1>7, <2>1
    <3>2. new \in GroupWindow /\ new.first = n /\ new.end = n
      BY <1>1 DEF GroupWindow
    <3> HIDE DEF new
    <3> QED BY <1>1, <1>7, <3>1, <3>2, GroupsAppended
  <2>3. y.group = Len(y.groups)
    BY <1>7, <2>1, <2>2 DEF Opens, EndsHere
  <2>4. MessagesMove(w, y, tag, n)
    BY <1>3, <1>7, <1>10, <2>1 DEF MessagesMove, CutShort
  <2>5. GroupsMove(w, y, tag, n)
    BY <1>10, <2>2, <2>3 DEF GroupsMove
  <2> QED BY <1>7, <2>1, <2>4, <2>5 DEF y, n
<1>11. CASE tag = "UNE"
  <2>1. /\ WindowsType(y) /\ y.n = c.n
        /\ y.groups = LastAt(c.groups, c.group, c.n)
        /\ y.messages = c.messages /\ y.message = c.message /\ y.group = 0
    BY <1>3, <1>4, <1>11, GroupClosed
  <2>2. EndsHere(c.groups, y.groups, c.group, n) <=> EndsHere(c.groups, c.groups, c.group, n)
    BY <1>6, <2>1, GroupMoved
  <2>3. EndsHere(c.groups, c.groups, c.group, n)
    BY <1>2, <1>3 DEF EndsHere
  <2>4. EndsHere(w.groups, y.groups, w.group, n)
    BY <1>2, <1>3, <2>2, <2>3, CutAfter
  <2>5. MessagesMove(w, y, tag, n)
    BY <1>3, <1>11, <2>1 DEF MessagesMove, CutShort
  <2>6. GroupsMove(w, y, tag, n)
    BY <1>11, <2>1, <2>4 DEF GroupsMove, Closed
  <2> QED BY <1>3, <2>1, <2>5, <2>6 DEF y, n
<1>12. CASE tag = "UNZ"
  <2>1. y = d
    BY <1>4, <1>12 DEF d
  <2>2. MessagesMove(w, y, tag, n)
    BY <1>3, <1>7, <1>12, <2>1 DEF MessagesMove, CutShort
  <2>3. GroupsMove(w, y, tag, n)
    BY <1>7, <1>12, <2>1 DEF GroupsMove, CutShort
  <2> QED BY <1>7, <2>1, <2>2, <2>3 DEF y, n
<1>13. CASE tag \notin {"UNH", "UNT", "UNG", "UNE", "UNZ"}
  <2>1. y = x
    BY <1>4, <1>13
  <2>2. MessagesMove(w, y, tag, n)
    BY <1>2, <1>13, <2>1 DEF MessagesMove, Extends
  <2>3. GroupsMove(w, y, tag, n)
    BY <1>2, <1>13, <2>1 DEF GroupsMove, Extends
  <2> QED BY <1>2, <2>1, <2>2, <2>3 DEF y, n
<1> QED BY <1>8, <1>9, <1>10, <1>11, <1>12, <1>13

-----------------------------------------------------------------------------
(* Every message is in its group, and in no other.                         *)
Nested(ms, gs) ==
  \A k \in 1..Len(ms) :
    /\ ms[k].group \in 0..Len(gs)
    /\ \A g \in 1..Len(gs) :
         IF g = ms[k].group THEN gs[g].first < ms[k].first /\ ms[k].end <= gs[g].end
         ELSE gs[g].end < ms[k].first \/ ms[k].end < gs[g].first

(* The windows after i items. *)
WindowsInv(tags, i, w) ==
  /\ WindowsType(w) /\ w.n = i
  /\ Walked(tags, i, w.messages, w.message, "UNH", MessageStops, "UNT")
  /\ Walked(tags, i, w.groups, w.group, "UNG", GroupStops, "UNE")
  /\ Nested(w.messages, w.groups)
  /\ w.message # 0 => w.messages[w.message].group = w.group

LEMMA MessagesWalk ==
  ASSUME NEW tags, NEW i \in Nat \ {0}, NEW w, WindowsInv(tags, i-1, w), NEW y,
         MessagesMove(w, y, tags[i], i)
  PROVE  Walked(tags, i, y.messages, y.message, "UNH", MessageStops, "UNT")
<1>1. Len(w.messages) \in Nat /\ Walked(tags, i-1, w.messages, w.message, "UNH", MessageStops, "UNT")
  <2>1. w.messages \in Seq(MessageWindow)
    BY WindowsFields DEF WindowsInv
  <2> QED BY <2>1 DEF WindowsInv
<1>2. "UNH" \in MessageStops /\ "UNT" \in MessageStops /\ "UNH" # "UNT"
  BY DEF MessageStops
<1>3. CASE tags[i] = "UNH"
  <2>1. Opens(w.messages, y.messages, w.message, y.message, i)
    BY <1>3 DEF MessagesMove
  <2>2. \A k \in 1..Len(w.messages) : y.messages[k].end = w.messages[k].end
    <3>1. i - 1 \in Int /\ \A k \in 1..Len(w.messages) : k = w.message => w.messages[k].end = i - 1
      BY <1>1, OpenReaches
    <3> QED BY <2>1, <3>1 DEF Opens
  <2> DEFINE ws == w.messages
             vs == y.messages
  <2>3. /\ Len(vs) = Len(ws) + 1 /\ y.message = Len(vs)
        /\ \A k \in 1..Len(ws) : vs[k].first = ws[k].first /\ vs[k].end = ws[k].end
        /\ vs[Len(vs)].first = i /\ vs[Len(vs)].end = i
    BY <2>1, <2>2 DEF Opens
  <2>4. Len(ws) \in Nat
    BY <1>1
  <2>5. Walked(tags, i-1, ws, w.message, "UNH", MessageStops, "UNT")
    BY <1>1
  <2> HIDE DEF ws, vs
  <2>6. Walked(tags, i, vs, Len(vs), "UNH", MessageStops, "UNT")
    BY <1>2, <1>3, <2>3, <2>4, <2>5, WalkOpens
  <2> QED BY <2>3, <2>6 DEF vs
<1>4. CASE tags[i] = "UNT"
  <2>1. EndsHere(w.messages, y.messages, w.message, i) /\ y.message = 0
    BY <1>4 DEF MessagesMove, Closed
  <2> QED BY <1>1, <1>2, <1>4, <2>1, WalkStops DEF EndsHere
<1>5. CASE tags[i] \in {"UNG", "UNE", "UNZ"}
  <2>1. EndsHere(w.messages, y.messages, w.message, i - 1) /\ y.message = 0
    BY <1>5 DEF MessagesMove, CutShort
  <2>2. tags[i] \in MessageStops /\ tags[i] # "UNH" /\ tags[i] # "UNT"
    BY <1>5 DEF MessageStops
  <2> QED BY <1>1, <1>2, <2>2, <2>1, WalkStops DEF EndsHere
<1>6. CASE tags[i] \notin MessageStops
  <2>1. EndsHere(w.messages, y.messages, w.message, i) /\ y.message = w.message
    BY <1>6 DEF MessagesMove, Extends, MessageStops
  <2> QED BY <1>1, <1>2, <1>6, <2>1, WalkGoesOn DEF EndsHere
<1> QED BY <1>3, <1>4, <1>5, <1>6 DEF MessageStops

LEMMA GroupsWalk ==
  ASSUME NEW tags, NEW i \in Nat \ {0}, NEW w, WindowsInv(tags, i-1, w), NEW y,
         GroupsMove(w, y, tags[i], i)
  PROVE  Walked(tags, i, y.groups, y.group, "UNG", GroupStops, "UNE")
<1>1. Len(w.groups) \in Nat /\ Walked(tags, i-1, w.groups, w.group, "UNG", GroupStops, "UNE")
  <2>1. w.groups \in Seq(GroupWindow)
    BY WindowsFields DEF WindowsInv
  <2> QED BY <2>1 DEF WindowsInv
<1>2. "UNG" \in GroupStops /\ "UNE" \in GroupStops /\ "UNG" # "UNE"
  BY DEF GroupStops
<1>3. CASE tags[i] = "UNG"
  <2>1. Opens(w.groups, y.groups, w.group, y.group, i)
    BY <1>3 DEF GroupsMove
  <2>2. \A k \in 1..Len(w.groups) : y.groups[k].end = w.groups[k].end
    <3>1. i - 1 \in Int /\ \A k \in 1..Len(w.groups) : k = w.group => w.groups[k].end = i - 1
      BY <1>1, OpenReaches
    <3> QED BY <2>1, <3>1 DEF Opens
  <2> DEFINE ws == w.groups
             vs == y.groups
  <2>3. /\ Len(vs) = Len(ws) + 1 /\ y.group = Len(vs)
        /\ \A k \in 1..Len(ws) : vs[k].first = ws[k].first /\ vs[k].end = ws[k].end
        /\ vs[Len(vs)].first = i /\ vs[Len(vs)].end = i
    BY <2>1, <2>2 DEF Opens
  <2>4. Len(ws) \in Nat
    BY <1>1
  <2>5. Walked(tags, i-1, ws, w.group, "UNG", GroupStops, "UNE")
    BY <1>1
  <2> HIDE DEF ws, vs
  <2>6. Walked(tags, i, vs, Len(vs), "UNG", GroupStops, "UNE")
    BY <1>2, <1>3, <2>3, <2>4, <2>5, WalkOpens
  <2> QED BY <2>3, <2>6 DEF vs
<1>4. CASE tags[i] = "UNE"
  <2>1. EndsHere(w.groups, y.groups, w.group, i) /\ y.group = 0
    BY <1>4 DEF GroupsMove, Closed
  <2> QED BY <1>1, <1>2, <1>4, <2>1, WalkStops DEF EndsHere
<1>5. CASE tags[i] = "UNZ"
  <2>1. EndsHere(w.groups, y.groups, w.group, i - 1) /\ y.group = 0
    BY <1>5 DEF GroupsMove, CutShort
  <2>2. tags[i] \in GroupStops /\ tags[i] # "UNG" /\ tags[i] # "UNE"
    BY <1>5 DEF GroupStops
  <2> QED BY <1>1, <1>2, <2>2, <2>1, WalkStops DEF EndsHere
<1>6. CASE tags[i] \notin GroupStops
  <2>1. EndsHere(w.groups, y.groups, w.group, i) /\ y.group = w.group
    BY <1>6 DEF GroupsMove, Extends, GroupStops
  <2> QED BY <1>1, <1>2, <1>6, <2>1, WalkGoesOn DEF EndsHere
<1> QED BY <1>3, <1>4, <1>5, <1>6 DEF GroupStops

LEMMA NestGoesOn ==
  ASSUME NEW tags, NEW i \in Nat \ {0}, NEW w, WindowsInv(tags, i-1, w), NEW y,
         WindowsType(y), MessagesMove(w, y, tags[i], i), GroupsMove(w, y, tags[i], i)
  PROVE  /\ Nested(y.messages, y.groups)
         /\ y.message # 0 => y.messages[y.message].group = y.group
<1> DEFINE ms == w.messages
           gs == w.groups
           m == w.message
           g == w.group
           mt == y.messages
           gt == y.groups
<1>1. /\ ms \in Seq(MessageWindow) /\ m \in {0, Len(ms)}
      /\ gs \in Seq(GroupWindow) /\ g \in {0, Len(gs)}
  BY WindowsFields DEF WindowsInv
<1>2. \A k \in 1..Len(ms) : /\ ms[k].first \in 1..i-1 /\ ms[k].end \in ms[k].first..i-1
                            /\ k = m => ms[k].end = i-1
  <2>1. i - 1 \in Int /\ Walked(tags, i-1, ms, m, "UNH", MessageStops, "UNT")
    BY DEF WindowsInv
  <2>2. \A k \in 1..Len(ms) : k = m => ms[k].end = i-1
    BY <2>1, OpenReaches
  <2> QED BY <2>1, <2>2 DEF Walked
<1>3. \A k \in 1..Len(gs) : /\ gs[k].first \in 1..i-1 /\ gs[k].end \in gs[k].first..i-1
                            /\ k = g => gs[k].end = i-1
  <2>1. i - 1 \in Int /\ Walked(tags, i-1, gs, g, "UNG", GroupStops, "UNE")
    BY DEF WindowsInv
  <2>2. \A k \in 1..Len(gs) : k = g => gs[k].end = i-1
    BY <2>1, OpenReaches
  <2> QED BY <2>1, <2>2 DEF Walked
<1>4. /\ \A k \in 1..Len(ms) :
           /\ ms[k].group \in 0..Len(gs)
           /\ \A h \in 1..Len(gs) :
                IF h = ms[k].group THEN gs[h].first < ms[k].first /\ ms[k].end <= gs[h].end
                ELSE gs[h].end < ms[k].first \/ ms[k].end < gs[h].first
      /\ m # 0 => ms[m].group = g
  BY DEF WindowsInv, Nested
<1>5. /\ MessagesMove(w, y, tags[i], i)
      /\ GroupsMove(w, y, tags[i], i)
  OBVIOUS
<1> HIDE DEF ms, gs, m, g, mt, gt
(* The messages there were: with their groups, which may have grown. *)
<1> DEFINE Kept(e) ==
             /\ \A k \in 1..Len(ms) : /\ mt[k].first = ms[k].first /\ mt[k].group = ms[k].group
                                      /\ mt[k].end = IF k = m THEN e ELSE ms[k].end
<1>6. CASE tags[i] = "UNH"
  <2>1. /\ Len(mt) = Len(ms) + 1 /\ y.message = Len(mt) /\ Kept(i-1)
        /\ mt[Len(mt)].first = i /\ mt[Len(mt)].end = i /\ mt[Len(mt)].group = g
    BY <1>6 DEF MessagesMove, Opens, SameGroups, ms, m, mt, g
  <2>2. /\ Len(gt) = Len(gs) /\ y.group = g
        /\ \A k \in 1..Len(gs) : /\ gt[k].first = gs[k].first
                                 /\ gt[k].end = IF k = g THEN i ELSE gs[k].end
    BY <1>6 DEF GroupsMove, Extends, EndsHere, gs, g, gt
  <2>3. \A k \in 1..Len(ms) :
          /\ mt[k].group \in 0..Len(gt)
          /\ \A h \in 1..Len(gt) :
               IF h = mt[k].group THEN gt[h].first < mt[k].first /\ mt[k].end <= gt[h].end
               ELSE gt[h].end < mt[k].first \/ mt[k].end < gt[h].first
    <3>1. SUFFICES ASSUME NEW k \in 1..Len(ms)
                   PROVE  /\ mt[k].group \in 0..Len(gt)
                          /\ \A h \in 1..Len(gt) :
                               IF h = mt[k].group
                               THEN gt[h].first < mt[k].first /\ mt[k].end <= gt[h].end
                               ELSE gt[h].end < mt[k].first \/ mt[k].end < gt[h].first
      OBVIOUS
    <3>2. /\ mt[k].first = ms[k].first /\ mt[k].group = ms[k].group
          /\ mt[k].end = IF k = m THEN i-1 ELSE ms[k].end
          /\ k = m => ms[k].end = i-1
          /\ ms[k].first \in 1..i-1 /\ ms[k].end \in ms[k].first..i-1
      BY <1>2, <2>1, <3>1
    <3>3. mt[k].end = ms[k].end
      BY <3>2
    <3>4. mt[k].group \in 0..Len(gt)
      BY <1>4, <2>2, <3>1, <3>2
    <3>5. ASSUME NEW h \in 1..Len(gt)
          PROVE  IF h = mt[k].group THEN gt[h].first < mt[k].first /\ mt[k].end <= gt[h].end
                 ELSE gt[h].end < mt[k].first \/ mt[k].end < gt[h].first
      <4>1. /\ gs[h].first \in 1..i-1 /\ gs[h].end \in gs[h].first..i-1
            /\ h = g => gs[h].end = i-1
            /\ gt[h].first = gs[h].first /\ gt[h].end = IF h = g THEN i ELSE gs[h].end
        BY <1>3, <2>2, <3>5
      <4>2. IF h = ms[k].group THEN gs[h].first < ms[k].first /\ ms[k].end <= gs[h].end
            ELSE gs[h].end < ms[k].first \/ ms[k].end < gs[h].first
        BY <1>4, <2>2, <3>1, <3>5
      <4>3. CASE h = g
        BY <3>2, <3>3, <4>1, <4>2, <4>3
      <4>4. CASE h # g
        BY <3>2, <3>3, <4>1, <4>2, <4>4
      <4> QED BY <4>3, <4>4
    <3> QED BY <3>4, <3>5
  <2>4. /\ mt[Len(mt)].group \in 0..Len(gt)
        /\ \A h \in 1..Len(gt) :
             IF h = mt[Len(mt)].group THEN gt[h].first < mt[Len(mt)].first /\ mt[Len(mt)].end <= gt[h].end
             ELSE gt[h].end < mt[Len(mt)].first \/ mt[Len(mt)].end < gt[h].first
    <3> DEFINE new == mt[Len(mt)]
    <3>1. new.first = i /\ new.end = i /\ new.group = g
      BY <2>1
    <3> HIDE DEF new
    <3>2. g \in 0..Len(gt)
      <4>1. Len(gs) \in Nat
        BY <1>1
      <4> QED BY <1>1, <2>2, <4>1
    <3>3. ASSUME NEW h \in 1..Len(gt)
          PROVE  IF h = g THEN gt[h].first < i /\ i <= gt[h].end ELSE gt[h].end < i
      <4>1. /\ gs[h].first \in 1..i-1 /\ gs[h].end \in gs[h].first..i-1
            /\ gt[h].first = gs[h].first /\ gt[h].end = IF h = g THEN i ELSE gs[h].end
        BY <1>3, <2>2, <3>3
      <4> QED BY <4>1
    <3>4. \A h \in 1..Len(gt) :
            IF h = new.group THEN gt[h].first < new.first /\ new.end <= gt[h].end
            ELSE gt[h].end < new.first \/ new.end < gt[h].first
      BY <3>1, <3>3
    <3>5. new.group \in 0..Len(gt)
      BY <3>1, <3>2
    <3> QED BY <3>4, <3>5 DEF new
  <2>5. \A k \in 1..Len(mt) : k \in 1..Len(ms) \/ k = Len(mt)
    BY <1>1, <2>1
  <2>6. Nested(mt, gt)
    BY <2>3, <2>4, <2>5 DEF Nested
  <2> QED BY <2>1, <2>2, <2>6 DEF mt, gt
<1>7. ASSUME tags[i] # "UNH", tags[i] # "UNG",
             NEW e \in {i-1, i}, Kept(e), Len(mt) = Len(ms), y.message \in {0, m},
             NEW f \in {i-1, i}, Len(gt) = Len(gs),
             \A k \in 1..Len(gs) : /\ gt[k].first = gs[k].first
                                   /\ gt[k].end = IF k = g THEN f ELSE gs[k].end,
             e = i => f = i, y.message # 0 => y.group = g
      PROVE  Nested(mt, gt) /\ (y.message # 0 => mt[y.message].group = y.group)
  <2>1. \A k \in 1..Len(ms) : mt[k].group \in 0..Len(gt)
    BY <1>4, <1>7
  <2>2. ASSUME NEW k \in 1..Len(ms), NEW h \in 1..Len(gs)
        PROVE  IF h = mt[k].group THEN gt[h].first < mt[k].first /\ mt[k].end <= gt[h].end
               ELSE gt[h].end < mt[k].first \/ mt[k].end < gt[h].first
    <3>1. /\ ms[k].first \in 1..i-1 /\ ms[k].end \in ms[k].first..i-1
          /\ gs[h].first \in 1..i-1 /\ gs[h].end \in gs[h].first..i-1
          /\ k = m => ms[k].end = i-1 /\ ms[k].group = g
          /\ h = g => gs[h].end = i-1
      BY <1>1, <1>2, <1>3, <1>4, <2>2
    <3>2. IF h = ms[k].group THEN gs[h].first < ms[k].first /\ ms[k].end <= gs[h].end
          ELSE gs[h].end < ms[k].first \/ ms[k].end < gs[h].first
      BY <1>4, <2>2
    <3>3. /\ mt[k].first = ms[k].first /\ mt[k].group = ms[k].group
          /\ mt[k].end = IF k = m THEN e ELSE ms[k].end
          /\ gt[h].first = gs[h].first /\ gt[h].end = IF h = g THEN f ELSE gs[h].end
      BY <1>7, <2>2
    <3>4. CASE k = m
      BY <1>7, <3>1, <3>2, <3>3, <3>4
    <3>5. CASE k # m
      BY <1>7, <3>1, <3>2, <3>3, <3>5
    <3> QED BY <3>4, <3>5
  <2>3. Nested(mt, gt)
    BY <1>7, <2>1, <2>2 DEF Nested
  <2>4. y.message # 0 => mt[y.message].group = y.group
    BY <1>1, <1>4, <1>7
  <2> QED BY <2>3, <2>4
<1> HIDE DEF Kept
<1>8. CASE tags[i] = "UNT"
  <2>1. Kept(i) /\ Len(mt) = Len(ms) /\ y.message = 0
    BY <1>8 DEF MessagesMove, Closed, EndsHere, SameGroups, ms, m, mt, Kept
  <2>2. /\ Len(gt) = Len(gs)
        /\ \A k \in 1..Len(gs) : /\ gt[k].first = gs[k].first
                                 /\ gt[k].end = IF k = g THEN i ELSE gs[k].end
    BY <1>8 DEF GroupsMove, Extends, EndsHere, gs, g, gt
  <2> QED BY <1>7, <1>8, <2>1, <2>2 DEF mt, gt
<1>9. CASE tags[i] = "UNE"
  <2>1. Kept(i-1) /\ Len(mt) = Len(ms) /\ y.message = 0
    BY <1>9 DEF MessagesMove, CutShort, EndsHere, SameGroups, ms, m, mt, Kept
  <2>2. /\ Len(gt) = Len(gs)
        /\ \A k \in 1..Len(gs) : /\ gt[k].first = gs[k].first
                                 /\ gt[k].end = IF k = g THEN i ELSE gs[k].end
    BY <1>9 DEF GroupsMove, Closed, EndsHere, gs, g, gt
  <2> QED BY <1>7, <1>9, <2>1, <2>2 DEF mt, gt
<1>10. CASE tags[i] = "UNZ"
  <2>1. Kept(i-1) /\ Len(mt) = Len(ms) /\ y.message = 0
    BY <1>10 DEF MessagesMove, CutShort, EndsHere, SameGroups, ms, m, mt, Kept
  <2>2. /\ Len(gt) = Len(gs)
        /\ \A k \in 1..Len(gs) : /\ gt[k].first = gs[k].first
                                 /\ gt[k].end = IF k = g THEN i-1 ELSE gs[k].end
    BY <1>10 DEF GroupsMove, CutShort, EndsHere, gs, g, gt
  <2> QED BY <1>7, <1>10, <2>1, <2>2 DEF mt, gt
<1>11. CASE tags[i] \notin {"UNH", "UNT", "UNG", "UNE", "UNZ"}
  <2>1. Kept(i) /\ Len(mt) = Len(ms) /\ y.message = m
    BY <1>11 DEF MessagesMove, Extends, EndsHere, SameGroups, ms, m, mt, Kept
  <2>2. /\ Len(gt) = Len(gs) /\ y.group = g
        /\ \A k \in 1..Len(gs) : /\ gt[k].first = gs[k].first
                                 /\ gt[k].end = IF k = g THEN i ELSE gs[k].end
    BY <1>11 DEF GroupsMove, Extends, EndsHere, gs, g, gt
  <2> QED BY <1>7, <1>11, <2>1, <2>2 DEF mt, gt
<1>12. CASE tags[i] = "UNG"
  <2>1. Kept(i-1) /\ Len(mt) = Len(ms) /\ y.message = 0
    BY <1>12 DEF MessagesMove, CutShort, EndsHere, SameGroups, ms, m, mt, Kept
  <2>2. /\ Len(gt) = Len(gs) + 1 /\ gt[Len(gt)].first = i /\ gt[Len(gt)].end = i
        /\ \A k \in 1..Len(gs) : /\ gt[k].first = gs[k].first
                                 /\ gt[k].end = IF k = g THEN i-1 ELSE gs[k].end
    BY <1>12 DEF GroupsMove, Opens, gs, g, gt
  <2>3. ASSUME NEW k \in 1..Len(mt)
        PROVE  /\ mt[k].first = ms[k].first /\ mt[k].end = ms[k].end /\ mt[k].group = ms[k].group
    BY <1>2, <2>1, <2>3 DEF Kept
  <2>4. ASSUME NEW h \in 1..Len(gs)
        PROVE  gt[h].first = gs[h].first /\ gt[h].end = gs[h].end
    BY <1>3, <2>2, <2>4
  <2>5. \A k \in 1..Len(mt) : mt[k].group \in 0..Len(gs) /\ mt[k].group \in 0..Len(gt)
    BY <1>1, <1>4, <2>1, <2>2, <2>3
  <2>6. ASSUME NEW k \in 1..Len(mt), NEW h \in 1..Len(gt)
        PROVE  IF h = mt[k].group THEN gt[h].first < mt[k].first /\ mt[k].end <= gt[h].end
               ELSE gt[h].end < mt[k].first \/ mt[k].end < gt[h].first
    <3>1. CASE h \in 1..Len(gs)
      BY <1>4, <2>1, <2>3, <2>4, <3>1
    <3>2. CASE h = Len(gt)
      <4>1. k \in 1..Len(ms)
        BY <2>1
      <4>2. mt[k].end < gt[h].first
        BY <1>2, <2>2, <2>3, <3>2, <4>1
      <4>3. h # mt[k].group
        BY <1>1, <2>2, <2>5, <3>2
      <4> QED BY <4>2, <4>3
    <3>3. h \in 1..Len(gs) \/ h = Len(gt)
      BY <1>1, <2>2
    <3> QED BY <3>1, <3>2, <3>3
  <2>7. Nested(mt, gt)
    BY <2>5, <2>6 DEF Nested
  <2> QED BY <2>1, <2>7 DEF mt, gt
<1> QED BY <1>6, <1>8, <1>9, <1>10, <1>11, <1>12

(* The windows of any sequence of tags. *)
LEMMA WindowsAfterEach ==
  ASSUME NEW tags, Len(tags) \in Nat
  PROVE  \A i \in 0..Len(tags) : WindowsInv(tags, i, WindowsAfter(tags)[i])
<1> DEFINE F == {i \in 0..Len(tags) : WindowsInv(tags, i, WindowsAfter(tags)[i])}
<1>1. 0 \in F
  <2>1. WindowsType(NoWindows) /\ NoWindows.n = 0
    BY DEF WindowsType, NoWindows, NoOrdinal
  <2>2. /\ Walked(tags, 0, NoWindows.messages, NoWindows.message, "UNH", MessageStops, "UNT")
        /\ Walked(tags, 0, NoWindows.groups, NoWindows.group, "UNG", GroupStops, "UNE")
        /\ Nested(NoWindows.messages, NoWindows.groups) /\ NoWindows.message = 0
    BY DEF Walked, Nested, NoWindows, NoOrdinal
  <2>3. WindowsInv(tags, 0, NoWindows)
    BY <2>1, <2>2 DEF WindowsInv
  <2> QED BY <2>3, WindowsStep
<1>2. \A i \in 0+1..Len(tags) : i-1 \in F => i \in F
  <2> SUFFICES ASSUME NEW i \in 1..Len(tags), WindowsInv(tags, i-1, WindowsAfter(tags)[i-1])
               PROVE  WindowsInv(tags, i, WindowsAfter(tags)[i])
    OBVIOUS
  <2> DEFINE w == WindowsAfter(tags)[i-1]
             y == WindowsAfter(tags)[i]
  <2>1. y = Scan(w, tags[i])
    BY WindowsStep
  <2>2. WindowsType(w) /\ w.n = i - 1 /\ w.n + 1 = i /\ WindowsInv(tags, i-1, w) /\ i \in Nat \ {0}
    BY DEF WindowsInv
  <2> HIDE DEF w, y
  <2>3. WindowsType(y) /\ y.n = i /\ MessagesMove(w, y, tags[i], i) /\ GroupsMove(w, y, tags[i], i)
    BY <2>1, <2>2, ScanMoves
  <2>4. Walked(tags, i, y.messages, y.message, "UNH", MessageStops, "UNT")
    BY <2>2, <2>3, MessagesWalk
  <2>5. Walked(tags, i, y.groups, y.group, "UNG", GroupStops, "UNE")
    BY <2>2, <2>3, GroupsWalk
  <2>6. Nested(y.messages, y.groups) /\ (y.message # 0 => y.messages[y.message].group = y.group)
    BY <2>2, <2>3, NestGoesOn
  <2>7. WindowsInv(tags, i, y)
    BY <2>3, <2>4, <2>5, <2>6 DEF WindowsInv
  <2> QED BY <2>7 DEF y
<1>3. \A i \in 0..Len(tags) : i \in F
  <2>1. Len(tags) \in Int /\ 0 \in Int
    OBVIOUS
  <2> HIDE DEF F
  <2> QED BY <1>1, <1>2, <2>1, UpTo, Zenon
<1> QED BY <1>3

-----------------------------------------------------------------------------
(* The segments there may be. *)
Segment == [tag : Tags, ref : Nat, count : Nat \cup {Garbled, Absent}, whole : BOOLEAN,
            syntax : {Resolved} \cup SyntaxFaults]

TypeOK == segs \in Seq(Segment) /\ slips \in Nat

LEMMA LastOfIs ==
  ASSUME NEW tag, Len(segs) \in Nat, DOMAIN segs = 1..Len(segs)
  PROVE  LastOf(tag) \in 0..Len(segs)
<1> DEFINE S == PositionsOf(segs, tag) \cup {0}
           D == {Len(segs) - i : i \in S}
<1>1. S \subseteq 0..Len(segs) /\ 0 \in S
  BY DEF PositionsOf
<1>2. D \subseteq Nat /\ D # {}
  BY <1>1
<1>3. PICK d \in D : \A e \in D : d <= e
  BY <1>2, LeastOne
<1>4. \E x \in S : \A y \in S : x >= y
  <2>1. PICK x \in S : d = Len(segs) - x
    BY <1>3
  <2>2. \A y \in S : x >= y
    <3> SUFFICES ASSUME NEW y \in S PROVE x >= y
      OBVIOUS
    <3>1. Len(segs) - y \in D
      OBVIOUS
    <3>2. d <= Len(segs) - y
      BY <1>3, <3>1
    <3>3. x \in Int /\ y \in Int
      BY <1>1
    <3> HIDE DEF S, D
    <3> QED BY <2>1, <3>2, <3>3
  <2> QED BY <2>2
<1>5. LastOf(tag) \in S
  BY <1>4 DEF LastOf, LastIn, Max
<1> QED BY <1>1, <1>5

LEMMA CountsAreNumbers ==
  ASSUME Len(segs) \in Nat, DOMAIN segs = 1..Len(segs)
  PROVE  \A tag : /\ Occurs(tag) \in Nat
                  /\ Cardinality({i \in DOMAIN segs : segs[i].tag = "UNT" /\ i > LastOf("UNG")}) \in Nat
<1>1. IsFiniteSet(1..Len(segs))
  BY FS_Interval
<1>2. \A tag : IsFiniteSet(PositionsOf(segs, tag))
  BY <1>1, FS_Subset DEF PositionsOf
<1>3. IsFiniteSet({i \in DOMAIN segs : segs[i].tag = "UNT" /\ i > LastOf("UNG")})
  BY <1>1, FS_Subset
<1> QED BY <1>2, <1>3, FS_CardinalityType DEF Occurs

(***************************************************************************)
(* An interchange that arrives is a sequence of segments, each with a      *)
(* known tag, a reference, and a count or what stands where one should.    *)
(***************************************************************************)
THEOREM SegmentsTyped == Spec => []TypeOK
<1>1. Init => TypeOK
  BY DEF Init, TypeOK
<1>2. TypeOK /\ [Next]_vars => TypeOK'
  <2> SUFFICES ASSUME TypeOK, [Next]_vars
               PROVE  TypeOK'
    OBVIOUS
  <2>1. Len(segs) \in Nat /\ DOMAIN segs = 1..Len(segs) /\ segs \in Seq(Segment)
        /\ \A i \in 1..Len(segs) : segs[i].ref \in Nat
    <3>1. segs \in Seq(Segment)
      BY DEF TypeOK
    <3>2. Len(segs) \in Nat /\ DOMAIN segs = 1..Len(segs) /\ \A i \in 1..Len(segs) : segs[i] \in Segment
      BY <3>1
    <3>3. \A r \in Segment : r.ref \in Nat
      BY DEF Segment
    <3> QED BY <3>1, <3>2, <3>3
  <2>2. ASSUME NEW tag \in Tags, NEW ref \in Nat, NEW count \in Nat \cup {Garbled, Absent},
               NEW whole \in BOOLEAN, NEW syntax \in {Resolved} \cup SyntaxFaults, NEW slip \in Nat,
               Read(tag, ref, count, whole, syntax, slip)
        PROVE  TypeOK'
    <3> DEFINE new == [tag |-> tag, ref |-> ref, count |-> count, whole |-> whole, syntax |-> syntax]
    <3>1. new \in Segment
      BY DEF Segment
    <3>2. segs' = Append(segs, new)
      BY <2>2 DEF Read
    <3>3. slips' \in Nat
      BY <2>2 DEF Read, TypeOK, Slip
    <3> HIDE DEF new
    <3> QED BY <2>1, <3>1, <3>2, <3>3 DEF TypeOK
  <2>3. \A c : Slip(c) \in Nat
    BY DEF Slip
  <2>4. \A a, b \in Nat : a + b \in Nat
    OBVIOUS
  <2>5. ASSUME NEW tag \in {"UNB", "UNG", "UNH"}, ReadHeader(tag) PROVE TypeOK'
    <3>1. PICK ref \in {NoRef, 1, Occurs(tag) + 1}, whole \in IF tag = "UNG" THEN {TRUE} ELSE BOOLEAN,
               syntax \in {Resolved} \cup IF tag = "UNB" THEN SyntaxFaults ELSE {} :
            Read(tag, ref, 0, whole, syntax,
                 Slip(ref # Occurs(tag) + 1) + Slip(~whole) + Slip(syntax # Resolved))
      BY <2>5 DEF ReadHeader
    <3>2. tag \in Tags /\ ref \in Nat /\ whole \in BOOLEAN
      <4>1. Occurs(tag) + 1 \in Nat
        <5>1. Occurs(tag) \in Nat
          BY <2>1, CountsAreNumbers
        <5> QED BY <5>1
      <4>2. whole \in BOOLEAN
        BY <3>1
      <4> QED BY <4>1, <4>2 DEF Tags, NoRef
    <3>3. Slip(ref # Occurs(tag) + 1) + Slip(~whole) + Slip(syntax # Resolved) \in Nat
      BY <2>3, <2>4
    <3>4. syntax \in {Resolved} \cup SyntaxFaults
      BY <3>1
    <3> QED BY <2>2, <3>1, <3>2, <3>3, <3>4
  <2>6. ASSUME NEW tag \in {"UNT", "UNE", "UNZ"}, ReadTrailer(tag) PROVE TypeOK'
    <3> DEFINE right == RefOfLast(HeaderOf(tag))
               actual == TrueCount(tag)
    <3>1. PICK ref \in {NoRef, right, right + 1}, count \in {Garbled, Absent, actual, actual + 1} :
            Read(tag, ref, count, TRUE, Resolved, Slip(ref # right) + Slip(count # actual))
      BY <2>6 DEF ReadTrailer
    <3>2. right \in Nat
      <4>1. LastOf(HeaderOf(tag)) \in 0..Len(segs)
        BY <2>1, LastOfIs
      <4> QED BY <2>1, <4>1 DEF RefOfLast
    <3>3. actual \in Nat
      <4>1. LastOf("UNH") \in 0..Len(segs)
        BY <2>1, LastOfIs
      <4>2. /\ Occurs("UNG") \in Nat /\ Occurs("UNT") \in Nat
            /\ Cardinality({i \in DOMAIN segs : segs[i].tag = "UNT" /\ i > LastOf("UNG")}) \in Nat
        BY <2>1, CountsAreNumbers
      <4>3. CASE tag = "UNT"
        BY <2>1, <4>1, <4>3 DEF TrueCount
      <4>4. CASE tag = "UNE"
        BY <4>2, <4>4 DEF TrueCount
      <4>5. CASE tag = "UNZ"
        BY <4>2, <4>5 DEF TrueCount
      <4> QED BY <4>3, <4>4, <4>5
    <3> HIDE DEF right, actual
    <3>4. tag \in Tags /\ ref \in Nat /\ count \in Nat \cup {Garbled, Absent}
      BY <3>2, <3>3 DEF Tags, NoRef
    <3>5. Slip(ref # right) + Slip(count # actual) \in Nat
      BY <2>3, <2>4
    <3> QED BY <2>2, <3>1, <3>4, <3>5
  <2>7. ASSUME NEW tag \in {"BGM", "UNO"}, ReadOther(tag) PROVE TypeOK'
    BY <2>2, <2>7 DEF ReadOther, Tags
  <2>8. CASE UNCHANGED vars
    BY <2>8 DEF TypeOK, vars
  <2> QED BY <2>5, <2>6, <2>7, <2>8 DEF Next
<1> QED BY <1>1, <1>2, PTL DEF Spec

-----------------------------------------------------------------------------
(* The end that the walk finds is the declared one. *)
LEMMA EndIsDeclared ==
  ASSUME TypeOK, NEW f \in 1..Len(segs), NEW e, NEW stops, NEW closer,
         EndsAt(TagsOf(segs), Len(segs), f, e, stops, closer)
  PROVE  e = EndOf(f, stops, closer)
<1> DEFINE after == {j \in DOMAIN segs : j > f /\ segs[j].tag \in stops}
           n == Len(segs)
<1>1. n \in Nat /\ DOMAIN segs = 1..n /\ \A i \in 1..n : TagsOf(segs)[i] = segs[i].tag
  BY DEF TypeOK, TagsOf
<1>2. CASE e = n /\ Clear(TagsOf(segs), f, n, stops)
  <2>1. after = {}
    BY <1>1, <1>2 DEF Clear
  <2>2. StopAfter(f, stops) = 0
    BY <2>1 DEF StopAfter
  <2> QED BY <1>2, <2>2 DEF EndOf
<1>3. CASE \E j \in f+1..n : /\ TagsOf(segs)[j] \in stops /\ Clear(TagsOf(segs), f, j-1, stops)
                             /\ e = IF TagsOf(segs)[j] = closer THEN j ELSE j-1
  <2>1. PICK j \in f+1..n : /\ TagsOf(segs)[j] \in stops /\ Clear(TagsOf(segs), f, j-1, stops)
                            /\ e = IF TagsOf(segs)[j] = closer THEN j ELSE j-1
    BY <1>3
  <2>2. j \in after
    BY <1>1, <2>1
  <2>3. \A k \in after : j <= k
    BY <1>1, <2>1 DEF Clear
  <2>4. StopAfter(f, stops) = CHOOSE x \in after : \A k \in after : x <= k
    BY <2>2 DEF StopAfter
  <2>5. /\ StopAfter(f, stops) \in after
        /\ \A k \in after : StopAfter(f, stops) <= k
    <3> HIDE DEF after
    <3> QED BY <2>2, <2>3, <2>4
  <2>6. StopAfter(f, stops) = j
    <3>1. after \subseteq Int
      BY <1>1
    <3>2. j <= StopAfter(f, stops) /\ StopAfter(f, stops) <= j
      BY <2>2, <2>3, <2>5
    <3>3. j \in Int /\ StopAfter(f, stops) \in Int
      BY <2>2, <2>5, <3>1
    <3> QED BY <3>2, <3>3
  <2> QED BY <1>1, <2>1, <2>6 DEF EndOf
<1> QED BY <1>2, <1>3 DEF EndsAt

LEMMA EndsAreDeclared ==
  ASSUME TypeOK, NEW S, NEW ws \in Seq(S), NEW o, NEW opener, NEW stops, NEW closer,
         Walked(TagsOf(segs), Len(segs), ws, o, opener, stops, closer)
  PROVE  {<<m.first, m.end>> : m \in Range(ws)} =
           {<<i, EndOf(i, stops, closer)>> : i \in {i \in DOMAIN segs : segs[i].tag = opener}}
<1>1. Range(ws) = {ws[k] : k \in 1..Len(ws)}
  BY DEF Range
<1>2. /\ Len(segs) \in Nat /\ DOMAIN segs = 1..Len(segs)
      /\ \A i \in 1..Len(segs) : TagsOf(segs)[i] = segs[i].tag
  BY DEF TypeOK, TagsOf
<1>3. ASSUME NEW k \in 1..Len(ws)
      PROVE  /\ ws[k].first \in 1..Len(segs) /\ segs[ws[k].first].tag = opener
             /\ ws[k].end = EndOf(ws[k].first, stops, closer)
  <2>1. /\ ws[k].first \in 1..Len(segs) /\ TagsOf(segs)[ws[k].first] = opener
        /\ EndsAt(TagsOf(segs), Len(segs), ws[k].first, ws[k].end, stops, closer)
    BY DEF Walked
  <2>2. ws[k].end = EndOf(ws[k].first, stops, closer)
    BY <1>2, <2>1, EndIsDeclared
  <2> QED BY <1>2, <2>1, <2>2
<1>4. \A i \in 1..Len(segs) : segs[i].tag = opener => \E k \in 1..Len(ws) : ws[k].first = i
  BY <1>2 DEF Walked
<1> DEFINE Left == {<<m.first, m.end>> : m \in Range(ws)}
           Headers == {i \in DOMAIN segs : segs[i].tag = opener}
           Right == {<<i, EndOf(i, stops, closer)>> : i \in Headers}
<1>5. ASSUME NEW x \in Left PROVE x \in Right
  <2>1. PICK k \in 1..Len(ws) : x = <<ws[k].first, ws[k].end>>
    BY <1>1
  <2>2. ws[k].first \in Headers /\ x = <<ws[k].first, EndOf(ws[k].first, stops, closer)>>
    BY <1>2, <1>3, <2>1
  <2> QED BY <2>2
<1>6. ASSUME NEW x \in Right PROVE x \in Left
  <2>1. PICK i \in Headers : x = <<i, EndOf(i, stops, closer)>>
    OBVIOUS
  <2>2. PICK k \in 1..Len(ws) : ws[k].first = i
    BY <1>2, <1>4, <2>1
  <2>3. ws[k] \in Range(ws) /\ x = <<ws[k].first, ws[k].end>>
    BY <1>1, <1>3, <2>1, <2>2
  <2> QED BY <2>3
<1>7. Left = Right
  BY <1>5, <1>6
<1> QED BY <1>7

LEMMA FirstWithinIs ==
  ASSUME NEW ws, Len(ws) \in Nat, NEW i \in Int, NEW k \in 1..Len(ws), Within(ws[k], i),
         \A j \in 1..Len(ws) : j # k => ~Within(ws[j], i)
  PROVE  FirstWithin(ws, i) = k
<1> DEFINE holding == {j \in 1..Len(ws) : Within(ws[j], i)}
<1>1. holding = {k}
  OBVIOUS
<1> QED BY <1>1 DEF FirstWithin

LEMMA WithinNone ==
  ASSUME NEW ws, NEW i, \A j \in 1..Len(ws) : ~Within(ws[j], i)
  PROVE  FirstWithin(ws, i) = 0
BY DEF FirstWithin, NoOrdinal

LEMMA WindowsAreDeclared == TypeOK => WindowsAsDeclared
<1> SUFFICES ASSUME TypeOK
             PROVE  WindowsAsDeclared
  OBVIOUS
<1> DEFINE tags == TagsOf(segs)
           w == Windows(tags)
           ms == w.messages
           gs == w.groups
<1>1. Len(tags) \in Nat /\ Len(tags) = Len(segs)
  BY DEF TypeOK, TagsOf
<1>2. WindowsInv(tags, Len(tags), w)
  BY <1>1, WindowsAfterEach DEF Windows
<1>3. ms \in Seq(MessageWindow) /\ gs \in Seq(GroupWindow)
  BY <1>2, WindowsFields DEF WindowsInv
<1> HIDE DEF w, tags
<1>4. {<<m.first, m.end>> : m \in Range(ms)} =
        {<<i, EndOf(i, MessageStops, "UNT")>> : i \in {i \in DOMAIN segs : segs[i].tag = "UNH"}}
  BY <1>1, <1>2, <1>3, EndsAreDeclared DEF WindowsInv, tags
<1>5. {<<g.first, g.end>> : g \in Range(gs)} =
        {<<i, EndOf(i, GroupStops, "UNE")>> : i \in {i \in DOMAIN segs : segs[i].tag = "UNG"}}
  BY <1>1, <1>2, <1>3, EndsAreDeclared DEF WindowsInv, tags
<1>6. \A m \in Range(ms) : \A i \in m.first..m.end : FirstWithin(gs, i) = m.group
  <2> SUFFICES ASSUME NEW k \in 1..Len(ms), NEW i \in ms[k].first..ms[k].end
               PROVE  FirstWithin(gs, i) = ms[k].group
    BY <1>3 DEF Range
  <2>1. /\ \A j \in 1..Len(ms) : ms[j].first \in Int /\ ms[j].end \in Int
        /\ \A j \in 1..Len(gs) : gs[j].first \in Int /\ gs[j].end \in Int
    <3>1. /\ Walked(tags, Len(tags), ms, w.message, "UNH", MessageStops, "UNT")
          /\ Walked(tags, Len(tags), gs, w.group, "UNG", GroupStops, "UNE")
      BY <1>2 DEF WindowsInv
    <3>2. \A j \in 1..Len(ms) : ms[j].first \in 1..Len(tags) /\ ms[j].end \in ms[j].first..Len(tags)
      BY <3>1 DEF Walked
    <3>3. \A j \in 1..Len(gs) : gs[j].first \in 1..Len(tags) /\ gs[j].end \in gs[j].first..Len(tags)
      BY <3>1 DEF Walked
    <3> QED BY <1>1, <3>2, <3>3
  <2>2. /\ ms[k].group \in 0..Len(gs)
        /\ \A g \in 1..Len(gs) :
             IF g = ms[k].group THEN gs[g].first < ms[k].first /\ ms[k].end <= gs[g].end
             ELSE gs[g].end < ms[k].first \/ ms[k].end < gs[g].first
    BY <1>2 DEF WindowsInv, Nested
  <2>3. \A g \in 1..Len(gs) : Within(gs[g], i) <=> g = ms[k].group
    <3> SUFFICES ASSUME NEW g \in 1..Len(gs)
                 PROVE  Within(gs[g], i) <=> g = ms[k].group
      OBVIOUS
    <3> DEFINE a == ms[k].first
               b == ms[k].end
               c == gs[g].first
               d == gs[g].end
    <3>1. a \in Int /\ b \in Int /\ c \in Int /\ d \in Int /\ i \in a..b
      BY <2>1
    <3>2. IF g = ms[k].group THEN c < a /\ b <= d ELSE d < a \/ b < c
      BY <2>2
    <3>3. Within(gs[g], i) <=> i \in c..d
      BY DEF Within
    <3> HIDE DEF a, b, c, d
    <3> QED BY <3>1, <3>2, <3>3
  <2>4. CASE ms[k].group = 0
    BY <2>3, <2>4, WithinNone
  <2>5. CASE ms[k].group # 0
    <3>1. ms[k].group \in 1..Len(gs) /\ Len(gs) \in Nat /\ i \in Int
      BY <1>3, <2>1, <2>2, <2>5
    <3> QED BY <2>3, <3>1, FirstWithinIs
  <2> QED BY <2>4, <2>5
<1> QED BY <1>4, <1>5, <1>6 DEF WindowsAsDeclared, MessageStops, GroupStops, w, tags

(***************************************************************************)
(* Whatever the tags, and however many, the recovered windows are the      *)
(* declared ones (build_windows, recover.rs).                              *)
(***************************************************************************)
THEOREM DeclaredWindows == Spec => []WindowsAsDeclared
BY SegmentsTyped, WindowsAreDeclared, PTL

-----------------------------------------------------------------------------
(* Two walks that begin their windows at the same places have the same     *)
(* windows, at the same indices.                                           *)
Increasing(ws) ==
  /\ Len(ws) \in Nat
  /\ \A k \in 1..Len(ws) : ws[k].first \in Int
  /\ \A k, l \in 1..Len(ws) : k < l => ws[k].first < ws[l].first

BeginsWith(ws, vs) == \A k \in 1..Len(ws) : \E l \in 1..Len(vs) : vs[l].first = ws[k].first

LEMMA SameFirsts ==
  ASSUME NEW ws, NEW vs, Increasing(ws), Increasing(vs), BeginsWith(ws, vs), BeginsWith(vs, ws)
  PROVE  \A k \in 1..Len(ws) : k \in 1..Len(vs) /\ ws[k].first = vs[k].first
<1> DEFINE Same(k) == \A j \in 1..k : j <= Len(ws) => j <= Len(vs) /\ ws[j].first = vs[j].first
           F == {k \in 0..Len(ws) : Same(k)}
<1>1. 0 \in F
  BY DEF Increasing
<1>2. \A i \in 0+1..Len(ws) : i-1 \in F => i \in F
  <2> SUFFICES ASSUME NEW i \in 1..Len(ws), Same(i-1)
               PROVE  Same(i)
    OBVIOUS
  <2>1. \A j \in 1..i-1 : j <= Len(vs) /\ ws[j].first = vs[j].first
    OBVIOUS
  <2>2. PICK m \in 1..Len(vs) : vs[m].first = ws[i].first
    BY DEF BeginsWith
  <2>3. Len(ws) \in Nat /\ Len(vs) \in Nat
    BY DEF Increasing
  <2>4. m >= i
    <3>1. ASSUME m \in 1..i-1 PROVE FALSE
      <4>1. ws[m].first = ws[i].first
        BY <2>1, <2>2, <3>1
      <4>2. ws[m].first < ws[i].first /\ ws[i].first \in Int
        BY <3>1 DEF Increasing
      <4> QED BY <4>1, <4>2
    <3> QED BY <2>3, <3>1
  <2>5. i \in 1..Len(vs)
    BY <2>3, <2>4
  <2>6. PICK q \in 1..Len(ws) : ws[q].first = vs[i].first
    BY <2>5 DEF BeginsWith
  <2>7. q >= i
    <3>1. ASSUME q \in 1..i-1 PROVE FALSE
      <4>1. vs[q].first = vs[i].first /\ q \in 1..Len(vs)
        BY <2>1, <2>3, <2>5, <2>6, <3>1
      <4>2. vs[q].first < vs[i].first /\ vs[i].first \in Int
        BY <2>5, <3>1, <4>1 DEF Increasing
      <4> QED BY <4>1, <4>2
    <3> QED BY <2>3, <3>1
  <2>8. vs[i].first <= vs[m].first
    BY <2>3, <2>4, <2>5 DEF Increasing
  <2>9. ws[i].first <= ws[q].first
    BY <2>3, <2>7 DEF Increasing
  <2>10. ws[i].first = vs[i].first
    <3>1. ws[i].first \in Int /\ vs[i].first \in Int
      BY <2>5 DEF Increasing
    <3> QED BY <2>2, <2>6, <2>8, <2>9, <3>1
  <2> QED BY <2>1, <2>3, <2>5, <2>10
<1>3. \A i \in 0..Len(ws) : i \in F
  <2>1. Len(ws) \in Int /\ 0 \in Int
    BY DEF Increasing
  <2> HIDE DEF F
  <2> QED BY <1>1, <1>2, <2>1, UpTo, Zenon
<1> QED BY <1>3 DEF Increasing

LEMMA SameBounds ==
  ASSUME NEW ws, NEW vs, Increasing(ws), Increasing(vs), BeginsWith(ws, vs), BeginsWith(vs, ws),
         \A k \in 1..Len(ws), l \in 1..Len(vs) : ws[k].first = vs[l].first => ws[k].end = vs[l].end
  PROVE  Bounds(ws) = Bounds(vs)
<1>1. \A k \in 1..Len(ws) : k \in 1..Len(vs) /\ ws[k].first = vs[k].first
  BY SameFirsts
<1>2. \A k \in 1..Len(vs) : k \in 1..Len(ws)
  BY SameFirsts
<1>3. Len(ws) = Len(vs)
  BY <1>1, <1>2 DEF Increasing
<1> QED BY <1>1, <1>3 DEF Bounds

-----------------------------------------------------------------------------
(* The spans from an opening tag to the next closing one.                  *)
Span == [first : Int, end : Int]

Joins(tags, f, e, open, close) ==
  tags[f] = open /\ tags[e] = close /\ Clear(tags, f, e - 1, {open, close})

SpansInv(tags, i, st, out, open, close) ==
  /\ st \in 0..i /\ out \in Seq(Span)
  /\ \A f \in 1..i : f = st <=> tags[f] = open /\ Clear(tags, f, i, {open, close})
  /\ \A k \in 1..Len(out) : /\ out[k].first \in 1..i /\ out[k].end \in out[k].first+1..i
                            /\ Joins(tags, out[k].first, out[k].end, open, close)
  /\ \A k, l \in 1..Len(out) : k < l => out[k].first < out[l].first
  /\ \A f \in 1..i : \A e \in f+1..i :
       Joins(tags, f, e, open, close) => \E k \in 1..Len(out) : out[k].first = f

LEMMA SpansGoOn ==
  ASSUME NEW tags, NEW open, NEW close, open # close, NEW i \in Nat \ {0},
         NEW st, NEW out, SpansInv(tags, i-1, st, out, open, close),
         NEW st2, tags[i] = open => st2 = i, tags[i] = close => st2 = 0,
         tags[i] \notin {open, close} => st2 = st,
         NEW new \in Span, new.first = st, new.end = i,
         NEW out2, tags[i] = close /\ st # 0 => out2 = Append(out, new),
         ~(tags[i] = close /\ st # 0) => out2 = out
  PROVE  SpansInv(tags, i, st2, out2, open, close)
<1> DEFINE S == {open, close}
           n == Len(out)
<1> HIDE DEF n
<1>1. /\ tags[i] = open => st2 = i
      /\ tags[i] = close => st2 = 0
      /\ tags[i] \notin S => st2 = st
  OBVIOUS
<1>2. st \in 0..i-1 /\ out \in Seq(Span)
  BY DEF SpansInv
<1>3. \A f \in 1..i-1 : f = st <=> tags[f] = open /\ Clear(tags, f, i-1, S)
  BY DEF SpansInv
<1>4. \A k \in 1..n : /\ out[k].first \in 1..i-1 /\ out[k].end \in out[k].first+1..i-1
                      /\ Joins(tags, out[k].first, out[k].end, open, close)
  BY DEF SpansInv, n
<1>5. \A k, l \in 1..n : k < l => out[k].first < out[l].first
  BY DEF SpansInv, n
<1>6. \A f \in 1..i-1 : \A e \in f+1..i-1 :
        Joins(tags, f, e, open, close) => \E k \in 1..n : out[k].first = f
  BY DEF SpansInv, n
<1>7. \A f \in 1..i-1 : Clear(tags, f, i, S) <=> Clear(tags, f, i-1, S) /\ tags[i] \notin S
  BY DEF Clear
<1>8. Clear(tags, i, i, S)
  BY DEF Clear
<1>9. st2 \in 0..i
  BY <1>1, <1>2
<1>10. \A f \in 1..i : f = st2 <=> tags[f] = open /\ Clear(tags, f, i, S)
  <2> SUFFICES ASSUME NEW f \in 1..i
               PROVE  f = st2 <=> tags[f] = open /\ Clear(tags, f, i, S)
    OBVIOUS
  <2>0. CASE f = i
    BY <1>1, <1>2, <1>8, <2>0
  <2>1. CASE f # i /\ tags[i] \in S
    <3>1. f \in 1..i-1
      BY <2>1
    <3>2. f # st2
      BY <1>1, <2>1, <3>1
    <3> QED BY <1>7, <2>1, <3>1, <3>2
  <2>2. CASE f # i /\ tags[i] \notin S
    <3>1. f \in 1..i-1
      BY <2>2
    <3> QED BY <1>1, <1>3, <1>7, <2>2, <3>1
  <2> QED BY <2>0, <2>1, <2>2
<1>11. \A k \in 1..n : out[k].first \in 1..i /\ out[k].end \in out[k].first+1..i
  BY <1>4
<1>12. CASE ~(tags[i] = close /\ st # 0)
  <2>1. out2 = out
    BY <1>12
  <2>2. ASSUME NEW f \in 1..i, NEW e \in f+1..i, Joins(tags, f, e, open, close)
        PROVE  \E k \in 1..n : out[k].first = f
    <3>1. f \in 1..i-1
      OBVIOUS
    <3>2. CASE e = i
      <4>1. f = st /\ tags[i] = close
        BY <1>3, <2>2, <3>1, <3>2 DEF Joins
      <4> QED BY <1>12, <3>1, <4>1
    <3>3. CASE e # i
      <4>1. e \in f+1..i-1
        BY <3>3
      <4> QED BY <1>6, <2>2, <3>1, <4>1
    <3> QED BY <3>2, <3>3
  <2> QED BY <1>2, <1>4, <1>5, <1>9, <1>10, <1>11, <2>1, <2>2 DEF SpansInv, n
<1>13. CASE tags[i] = close /\ st # 0
  <2>1. out2 = Append(out, new)
    BY <1>13
  <2>2. new \in Span /\ new.first = st /\ new.end = i
    OBVIOUS
  <2>3. /\ out2 \in Seq(Span) /\ Len(out2) = n + 1 /\ out2[n+1] = new
        /\ \A k \in 1..n : out2[k] = out[k]
        /\ n \in Nat
    BY <1>2, <2>1, <2>2 DEF n
  <2>4. st \in 1..i-1 /\ Joins(tags, st, i, open, close)
    <3>1. st \in 1..i-1
      BY <1>2, <1>13
    <3>2. tags[st] = open /\ Clear(tags, st, i-1, S)
      BY <1>3, <3>1
    <3> QED BY <1>13, <3>1, <3>2 DEF Joins
  <2>5. \A k \in 1..n : out[k].first < st
    <3> SUFFICES ASSUME NEW k \in 1..n, out[k].first >= st PROVE FALSE
      BY <1>4, <2>4
    <3>1. /\ out[k].first \in 1..i-1 /\ out[k].end \in out[k].first+1..i-1
          /\ tags[out[k].end] = close
      BY <1>4 DEF Joins
    <3>2. out[k].end \in st+1..i-1
      BY <2>4, <3>1
    <3> QED BY <2>4, <3>1, <3>2 DEF Joins, Clear
  <2>6. ASSUME NEW k \in 1..n+1
        PROVE  /\ out2[k].first \in 1..i /\ out2[k].end \in out2[k].first+1..i
               /\ Joins(tags, out2[k].first, out2[k].end, open, close)
    <3>1. CASE k = n+1
      <4>1. out2[k].first = st /\ out2[k].end = i
        BY <2>2, <2>3, <3>1
      <4>2. st \in 1..i /\ i \in st+1..i
        BY <2>4
      <4> QED BY <2>4, <4>1, <4>2
    <3>2. CASE k \in 1..n
      <4>1. out2[k] = out[k]
        BY <2>3, <3>2
      <4> QED BY <1>4, <1>11, <3>2, <4>1
    <3> QED BY <2>3, <3>1, <3>2
  <2>7. ASSUME NEW k \in 1..n+1, NEW l \in 1..n+1, k < l
        PROVE  out2[k].first < out2[l].first
    <3>0. k \in 1..n /\ out2[k] = out[k]
      BY <2>3, <2>7
    <3>1. CASE l = n+1
      BY <2>2, <2>3, <2>5, <3>0, <3>1
    <3>2. CASE l \in 1..n
      <4>1. out2[l] = out[l]
        BY <2>3, <3>2
      <4> QED BY <1>5, <2>7, <3>0, <3>2, <4>1
    <3> QED BY <2>3, <3>1, <3>2
  <2>8. ASSUME NEW f \in 1..i, NEW e \in f+1..i, Joins(tags, f, e, open, close)
        PROVE  \E k \in 1..n+1 : out2[k].first = f
    <3>0. f \in 1..i-1
      OBVIOUS
    <3>1. CASE e = i
      <4>1. f = st
        BY <1>3, <2>8, <3>0, <3>1 DEF Joins
      <4> QED BY <2>2, <2>3, <4>1
    <3>2. CASE e # i
      <4>1. e \in f+1..i-1
        BY <3>2
      <4>2. PICK k \in 1..n : out[k].first = f
        BY <1>6, <2>8, <3>0, <4>1
      <4> QED BY <2>3, <4>2
    <3> QED BY <3>1, <3>2
  <2> QED BY <1>9, <1>10, <2>3, <2>6, <2>7, <2>8 DEF SpansInv
<1> QED BY <1>12, <1>13

LEMMA SpansAfterEach ==
  ASSUME NEW tags, Len(tags) \in Nat, NEW open, NEW close, open # close
  PROVE  \A i \in 0..Len(tags) : LET x == SpansAfter(tags, open, close)[i]
                                 IN  SpansInv(tags, i, x.start, x.out, open, close)
<1> DEFINE x(i) == SpansAfter(tags, open, close)[i]
           F == {i \in 0..Len(tags) : SpansInv(tags, i, x(i).start, x(i).out, open, close)}
<1>1. 0 \in F
  <2>1. x(0).start = 0 /\ x(0).out = <<>>
    BY SpansStep DEF NoOrdinal
  <2> HIDE DEF x
  <2>2. SpansInv(tags, 0, 0, <<>>, open, close)
    BY DEF SpansInv
  <2> QED BY <2>1, <2>2
<1>2. \A i \in 0+1..Len(tags) : i-1 \in F => i \in F
  <2> SUFFICES ASSUME NEW i \in 1..Len(tags), SpansInv(tags, i-1, x(i-1).start, x(i-1).out, open, close)
               PROVE  SpansInv(tags, i, x(i).start, x(i).out, open, close)
    OBVIOUS
  <2>1. x(i) = SpanStep(open, close, x(i-1), tags[i], i)
    BY SpansStep
  <2> HIDE DEF x
  <2> DEFINE st == x(i-1).start
             out == x(i-1).out
             new == [first |-> st, end |-> i]
  <2>2. /\ tags[i] = open => x(i).start = i
        /\ tags[i] = close => x(i).start = 0
        /\ tags[i] \notin {open, close} => x(i).start = st
        /\ tags[i] = close /\ st # 0 => x(i).out = Append(out, new)
        /\ ~(tags[i] = close /\ st # 0) => x(i).out = out
    BY <2>1 DEF SpanStep, NoOrdinal
  <2>3. SpansInv(tags, i-1, st, out, open, close)
    OBVIOUS
  <2>4. new \in Span /\ new.first = st /\ new.end = i
    <3>1. st \in 0..i-1
      BY <2>3 DEF SpansInv
    <3> HIDE DEF st
    <3> QED BY <3>1 DEF Span
  <2> HIDE DEF st, out, new
  <2>5. i \in Nat \ {0}
    OBVIOUS
  <2> QED BY <2>2, <2>3, <2>4, <2>5, SpansGoOn
<1>3. \A i \in 0..Len(tags) : i \in F
  <2>1. Len(tags) \in Int /\ 0 \in Int
    OBVIOUS
  <2> HIDE DEF F
  <2> QED BY <1>1, <1>2, <2>1, UpTo, Zenon
<1> QED BY <1>3

-----------------------------------------------------------------------------
(* Validation reads the segments into messages and groups, and notes what  *)
(* is wrong with them.                                                     *)
EnvelopeKinds ==
  {"MissingRequiredComponent", "InvalidText", "QualifierMismatch", "DuplicateReference",
   "EmptyMessage", "PackageNotSupported", "InvalidSegmentForMessage", "MissingSegment",
   "MessageCountMismatch", "GroupsAndMessagesMixed", "EmptyInterchange", "SegmentCountMismatch"}
    \cup SyntaxFaults
FaultSet ==
  [kind : EnvelopeKinds, at : Nat, tag : Tags \cup {"no tag"}, element : Nat, on : Nat]
MessageSpan == [first : Int, end : Int, declared : Nat]
Extraction ==
  [errors : Seq(FaultSet), fatal : BOOLEAN, messages : Seq(MessageSpan), groups : Seq(Span),
   refs : SUBSET Nat, groupRefs : SUBSET Nat, unh : Nat]

LEMMA SegmentsAre ==
  ASSUME TypeOK
  PROVE  /\ Len(segs) \in Nat /\ DOMAIN segs = 1..Len(segs)
         /\ \A i \in 1..Len(segs) : /\ segs[i].tag \in Tags /\ segs[i].ref \in Nat
                                    /\ segs[i].whole \in BOOLEAN
                                    /\ segs[i].syntax \in {Resolved} \cup SyntaxFaults
                                    /\ segs[i].count \in Nat \cup {Garbled, Absent}
<1>1. segs \in Seq(Segment)
  BY DEF TypeOK
<1>2. /\ Len(segs) \in Nat /\ DOMAIN segs = 1..Len(segs)
      /\ \A i \in 1..Len(segs) : segs[i] \in Segment
  BY <1>1
<1>3. \A r \in Segment : /\ r.tag \in Tags /\ r.ref \in Nat /\ r.whole \in BOOLEAN
                         /\ r.syntax \in {Resolved} \cup SyntaxFaults
                         /\ r.count \in Nat \cup {Garbled, Absent}
  BY DEF Segment
<1> QED BY <1>2, <1>3

LEMMA FaultIs ==
  ASSUME NEW kind \in EnvelopeKinds, NEW at \in Nat, NEW tag \in Tags \cup {"no tag"}, NEW element \in Nat, NEW on \in Nat
  PROVE  Fault(kind, at, tag, element, on) \in FaultSet
BY DEF Fault, FaultSet

LEMMA WhenIs ==
  ASSUME NEW c, NEW f \in FaultSet
  PROVE  When(c, f) \in Seq(FaultSet) /\ (When(c, f) = <<>> <=> ~c)
<1>1. CASE c
  <2>1. When(c, f) = <<f>>
    BY <1>1 DEF When
  <2>2. <<f>> \in Seq(FaultSet) /\ <<f>> # <<>>
    OBVIOUS
  <2> QED BY <1>1, <2>1, <2>2
<1>2. CASE ~c
  <2>1. When(c, f) = <<>>
    BY <1>2 DEF When
  <2> QED BY <1>2, <2>1
<1> QED BY <1>1, <1>2

LEMMA SecondIsMissing ==
  ASSUME NEW c, NEW tag \in Tags, NEW i \in Nat
  PROVE  When(c, Missing(tag, 2, i)) \in Seq(FaultSet) /\ (When(c, Missing(tag, 2, i)) = <<>> <=> ~c)
<1>1. Missing(tag, 2, i) \in FaultSet
  BY DEF Missing, Fault, FaultSet, NoSpan, EnvelopeKinds
<1> HIDE DEF FaultSet
<1> QED BY <1>1, WhenIs

LEMMA ThirdIsMissing ==
  ASSUME NEW c, NEW tag \in Tags, NEW i \in Nat
  PROVE  When(c, Missing(tag, 3, i)) \in Seq(FaultSet) /\ (When(c, Missing(tag, 3, i)) = <<>> <=> ~c)
<1>1. Missing(tag, 3, i) \in FaultSet
  BY DEF Missing, Fault, FaultSet, NoSpan, EnvelopeKinds
<1> HIDE DEF FaultSet
<1> QED BY <1>1, WhenIs

LEMMA SixthIsMissing ==
  ASSUME NEW c, NEW tag \in Tags, NEW i \in Nat
  PROVE  When(c, Missing(tag, 6, i)) \in Seq(FaultSet) /\ (When(c, Missing(tag, 6, i)) = <<>> <=> ~c)
<1>1. Missing(tag, 6, i) \in FaultSet
  BY DEF Missing, Fault, FaultSet, NoSpan, EnvelopeKinds
<1> HIDE DEF FaultSet
<1> QED BY <1>1, WhenIs

LEMMA AtIs ==
  ASSUME NEW c, NEW kind \in EnvelopeKinds, NEW i \in Nat
  PROVE  When(c, At(kind, i)) \in Seq(FaultSet) /\ (When(c, At(kind, i)) = <<>> <=> ~c)
<1>1. At(kind, i) \in FaultSet
  BY FaultIs DEF At
<1> HIDE DEF FaultSet
<1> QED BY <1>1, WhenIs

LEMMA NoPlaceIs ==
  ASSUME NEW c, NEW kind \in EnvelopeKinds, NEW i \in Nat
  PROVE  When(c, NoPlace(kind, i)) \in Seq(FaultSet) /\ (When(c, NoPlace(kind, i)) = <<>> <=> ~c)
<1>1. NoPlace(kind, i) \in FaultSet
  BY FaultIs DEF NoPlace, NoSpan
<1> HIDE DEF FaultSet
<1> QED BY <1>1, WhenIs

LEMMA Joined ==
  ASSUME NEW a \in Seq(FaultSet), NEW b \in Seq(FaultSet)
  PROVE  a \o b \in Seq(FaultSet) /\ (a \o b = <<>> <=> a = <<>> /\ b = <<>>)
OBVIOUS

(* A count without a fault is a number. *)
LEMMA CountFaultsAre ==
  ASSUME TypeOK, NEW i \in 1..Len(segs)
  PROVE  CountFaults(segs, i) \in Seq(FaultSet) /\ (CountFaults(segs, i) = <<>> <=> segs[i].count \in Nat)
<1> DEFINE p == segs[i].count = Absent
           q == segs[i].count \notin Nat
           a == When(p, Missing(segs[i].tag, 2, i))
           b == When(q, At("InvalidText", i))
<1>1. segs[i].tag \in Tags /\ i \in Nat
  BY SegmentsAre
<1>2. CountFaults(segs, i) = a \o b
  BY DEF CountFaults
<1>3. (segs[i].count \in Nat) <=> ~p /\ ~q
  BY EnvelopeAssumption
<1> HIDE DEF p, q
<1>4. a \in Seq(FaultSet) /\ (a = <<>> <=> ~p)
  BY <1>1, SecondIsMissing
<1>5. b \in Seq(FaultSet) /\ (b = <<>> <=> ~q)
  BY <1>1, AtIs DEF EnvelopeKinds
<1> HIDE DEF a, b
<1> QED BY <1>2, <1>3, <1>4, <1>5, Joined

LEMMA ReferenceFaultsAre ==
  ASSUME TypeOK, NEW h \in 1..Len(segs), NEW i \in 1..Len(segs)
  PROVE  /\ ReferenceFaults(segs, h, i) \in Seq(FaultSet)
         /\ ReferenceFaults(segs, h, i) = <<>> <=> segs[i].ref # NoRef /\ segs[i].ref = segs[h].ref
<1> DEFINE p == segs[i].ref = NoRef
           q == segs[i].ref # segs[h].ref
           a == When(p, Missing(segs[i].tag, 3, i))
           b == When(q, At("QualifierMismatch", i))
<1>1. segs[i].tag \in Tags /\ i \in Nat
  BY SegmentsAre
<1>2. ReferenceFaults(segs, h, i) = a \o b
  BY DEF ReferenceFaults
<1>3. segs[i].ref # NoRef /\ segs[i].ref = segs[h].ref <=> ~p /\ ~q
  OBVIOUS
<1> HIDE DEF p, q
<1>4. a \in Seq(FaultSet) /\ (a = <<>> <=> ~p)
  BY <1>1, ThirdIsMissing
<1>5. b \in Seq(FaultSet) /\ (b = <<>> <=> ~q)
  BY <1>1, AtIs DEF EnvelopeKinds
<1> HIDE DEF a, b
<1> QED BY <1>2, <1>3, <1>4, <1>5, Joined

(* What makes the message from h to i right, but for its reference among   *)
(* those before and for the number it declares.                            *)
CleanMessage(h, i) ==
  /\ segs[h].ref # NoRef /\ segs[h].whole
  /\ segs[i].count \in Nat
  /\ segs[i].ref # NoRef /\ segs[i].ref = segs[h].ref
  /\ i > h + 1

LEMMA MessageFaultsAre ==
  ASSUME TypeOK, NEW s, s.unh \in 1..Len(segs), NEW i \in 1..Len(segs)
  PROVE  /\ MessageFaults(segs, s, i) \in Seq(FaultSet)
         /\ MessageFaults(segs, s, i) = <<>> <=> CleanMessage(s.unh, i) /\ segs[s.unh].ref \notin s.refs
<1> DEFINE h == s.unh
           p == segs[h].ref = NoRef
           q == segs[h].ref \in s.refs
           r == ~segs[h].whole
           t == i - h + 1 < 3
           a == When(p, Missing("UNH", 2, h))
           b == When(q, At("DuplicateReference", h))
           c == When(r, Missing("UNH", 3, h))
           d == CountFaults(segs, i)
           e == ReferenceFaults(segs, h, i)
           f == When(t, At("EmptyMessage", h))
<1>1. h \in Nat /\ segs[h].whole \in BOOLEAN /\ h \in 1..Len(segs)
  BY SegmentsAre
<1>2. MessageFaults(segs, s, i) = a \o b \o c \o d \o e \o f
  BY DEF MessageFaults
<1>3. CleanMessage(s.unh, i) /\ segs[s.unh].ref \notin s.refs <=>
        /\ ~p /\ ~q /\ ~r /\ ~t
        /\ segs[i].count \in Nat /\ segs[i].ref # NoRef /\ segs[i].ref = segs[h].ref
  BY <1>1 DEF CleanMessage
<1>4. d \in Seq(FaultSet) /\ (d = <<>> <=> segs[i].count \in Nat)
  BY CountFaultsAre
<1>5. e \in Seq(FaultSet) /\ (e = <<>> <=> segs[i].ref # NoRef /\ segs[i].ref = segs[h].ref)
  BY <1>1, ReferenceFaultsAre
<1> HIDE DEF p, q, r, t, d, e, h
<1>6. /\ a \in Seq(FaultSet) /\ (a = <<>> <=> ~p)
      /\ c \in Seq(FaultSet) /\ (c = <<>> <=> ~r)
  <2>1. "UNH" \in Tags
    BY DEF Tags
  <2>2. a \in Seq(FaultSet) /\ (a = <<>> <=> ~p)
    BY <1>1, <2>1, SecondIsMissing
  <2>3. c \in Seq(FaultSet) /\ (c = <<>> <=> ~r)
    BY <1>1, <2>1, ThirdIsMissing
  <2> QED BY <2>2, <2>3
<1>7. /\ b \in Seq(FaultSet) /\ (b = <<>> <=> ~q)
      /\ f \in Seq(FaultSet) /\ (f = <<>> <=> ~t)
  <2>1. "DuplicateReference" \in EnvelopeKinds /\ "EmptyMessage" \in EnvelopeKinds
    BY DEF EnvelopeKinds
  <2>2. b \in Seq(FaultSet) /\ (b = <<>> <=> ~q)
    BY <1>1, <2>1, AtIs
  <2>3. f \in Seq(FaultSet) /\ (f = <<>> <=> ~t)
    BY <1>1, <2>1, AtIs
  <2> QED BY <2>2, <2>3
<1> HIDE DEF a, b, c, f
<1>9. a \o b \in Seq(FaultSet) /\ (a \o b = <<>> <=> a = <<>> /\ b = <<>>)
  BY <1>6, <1>7, Joined
<1> DEFINE ab == a \o b
           abc == ab \o c
           abcd == abc \o d
           abcde == abcd \o e
<1>10. abc \in Seq(FaultSet) /\ (abc = <<>> <=> ab = <<>> /\ c = <<>>)
  BY <1>6, <1>9, Joined
<1> HIDE DEF abc
<1>11. abcd \in Seq(FaultSet) /\ (abcd = <<>> <=> abc = <<>> /\ d = <<>>)
  BY <1>4, <1>10, Joined
<1> HIDE DEF abcd
<1>12. abcde \in Seq(FaultSet) /\ (abcde = <<>> <=> abcd = <<>> /\ e = <<>>)
  BY <1>5, <1>11, Joined
<1> HIDE DEF abcde
<1>13. abcde \o f \in Seq(FaultSet) /\ (abcde \o f = <<>> <=> abcde = <<>> /\ f = <<>>)
  BY <1>7, <1>12, Joined
<1>14. MessageFaults(segs, s, i) = abcde \o f
  BY <1>2 DEF abc, abcd, abcde
<1> QED BY <1>3, <1>4, <1>5, <1>6, <1>7, <1>9, <1>10, <1>11, <1>12, <1>13, <1>14

-----------------------------------------------------------------------------
(* One turn of the loop over messages: a UNH opens one, a UNT takes it, a  *)
(* segment of its body stays in it, and anything else ends the loop.       *)
Opened(s, y, i) ==
  /\ segs[i].tag = "UNH" /\ s.unh = 0
  /\ ~y.fatal /\ y.unh = i /\ y.errors = s.errors /\ y.messages = s.messages
  /\ y.groups = s.groups /\ y.refs = s.refs /\ y.groupRefs = s.groupRefs

Stayed(s, y, i) == segs[i].tag \notin ServiceTags /\ s.unh # 0 /\ y = s

TookMessage(ms, mt, h, i) ==
  /\ mt \in Seq(MessageSpan) /\ Len(mt) = Len(ms) + 1
  /\ \A k \in 1..Len(ms) : mt[k] = ms[k]
  /\ mt[Len(mt)].first = h /\ mt[Len(mt)].end = i /\ mt[Len(mt)].declared = Number(segs[i].count)

Took(s, y, i) ==
  /\ segs[i].tag = "UNT" /\ s.unh # 0
  /\ ~y.fatal /\ y.unh = 0
  /\ y.errors = <<>> <=> s.errors = <<>> /\ CleanMessage(s.unh, i) /\ segs[s.unh].ref \notin s.refs
  /\ TookMessage(s.messages, y.messages, s.unh, i)
  /\ y.groups = s.groups /\ y.refs = s.refs \cup {segs[s.unh].ref} /\ y.groupRefs = s.groupRefs

Refused(s, y, i) ==
  /\ y.fatal /\ y.errors # <<>>
  /\ ~(segs[i].tag = "UNH" /\ s.unh = 0)
  /\ ~(segs[i].tag = "UNT" /\ s.unh # 0)
  /\ ~(segs[i].tag \notin ServiceTags /\ s.unh # 0)

LEMMA ExtractionFields ==
  ASSUME NEW s \in Extraction
  PROVE  /\ s.errors \in Seq(FaultSet) /\ s.fatal \in BOOLEAN /\ s.messages \in Seq(MessageSpan)
         /\ s.groups \in Seq(Span) /\ s.refs \in SUBSET Nat /\ s.groupRefs \in SUBSET Nat
         /\ s.unh \in Nat
BY DEF Extraction

LEMMA Appended ==
  ASSUME NEW S, NEW a \in Seq(S), NEW x \in S
  PROVE  /\ Append(a, x) \in Seq(S) /\ Append(a, x) # <<>> /\ Len(a) \in Nat
         /\ Len(Append(a, x)) = Len(a) + 1 /\ Append(a, x)[Len(a) + 1] = x
         /\ \A k \in 1..Len(a) : Append(a, x)[k] = a[k]
OBVIOUS

LEMMA AbortIs ==
  ASSUME NEW s \in Extraction, NEW f \in FaultSet
  PROVE  Abort(s, f) \in Extraction /\ Abort(s, f).fatal /\ Abort(s, f).errors # <<>>
<1> DEFINE e == Append(s.errors, f)
<1>1. e \in Seq(FaultSet) /\ e # <<>>
  BY ExtractionFields, Appended
<1>2. Abort(s, f) = [s EXCEPT !.errors = e, !.fatal = TRUE]
  BY DEF Abort
<1> HIDE DEF e
<1>3. /\ [s EXCEPT !.errors = e, !.fatal = TRUE] \in Extraction
      /\ [s EXCEPT !.errors = e, !.fatal = TRUE].fatal
      /\ [s EXCEPT !.errors = e, !.fatal = TRUE].errors = e
  BY <1>1 DEF Extraction
<1> QED BY <1>1, <1>2, <1>3

LEMMA MessageIsTaken ==
  ASSUME TypeOK, NEW s \in Extraction, s.unh \in 1..Len(segs), ~s.fatal,
         NEW i \in 1..Len(segs), segs[i].tag = "UNT"
  PROVE  ReadMessage(segs, s, i) \in Extraction /\ Took(s, ReadMessage(segs, s, i), i)
<1> DEFINE f == MessageFaults(segs, s, i)
           e == s.errors \o f
           m == [first |-> s.unh, end |-> i, declared |-> Number(segs[i].count)]
           ms == Append(s.messages, m)
           r == s.refs \cup {segs[s.unh].ref}
           y == ReadMessage(segs, s, i)
<1>1. /\ s.errors \in Seq(FaultSet) /\ s.fatal \in BOOLEAN /\ s.messages \in Seq(MessageSpan)
      /\ s.groups \in Seq(Span) /\ s.refs \in SUBSET Nat /\ s.groupRefs \in SUBSET Nat
      /\ s.unh \in Nat
  BY ExtractionFields
<1>2. f \in Seq(FaultSet) /\ (f = <<>> <=> CleanMessage(s.unh, i) /\ segs[s.unh].ref \notin s.refs)
  BY MessageFaultsAre
<1>3. m \in MessageSpan
  <2>1. Number(segs[i].count) \in Nat
    BY DEF Number
  <2> QED BY <2>1 DEF MessageSpan
<1>4. r \in SUBSET Nat
  BY <1>1, SegmentsAre
<1>5. y = [s EXCEPT !.errors = e, !.refs = r, !.unh = 0, !.messages = ms]
  BY <1>1 DEF ReadMessage, Note, Collected, Extraction
<1>6. m.first = s.unh /\ m.end = i /\ m.declared = Number(segs[i].count)
  OBVIOUS
<1> HIDE DEF f, m, y
<1>7. e \in Seq(FaultSet) /\ (e = <<>> <=> s.errors = <<>> /\ f = <<>>)
  BY <1>1, <1>2, Joined
<1>8. /\ ms \in Seq(MessageSpan) /\ Len(s.messages) \in Nat /\ Len(ms) = Len(s.messages) + 1
      /\ ms[Len(ms)] = m /\ \A k \in 1..Len(s.messages) : ms[k] = s.messages[k]
  BY <1>1, <1>3, Appended
<1> HIDE DEF e, ms, r
<1>9. /\ y \in Extraction
      /\ y.errors = e /\ y.fatal = s.fatal /\ y.messages = ms /\ y.groups = s.groups
      /\ y.refs = r /\ y.groupRefs = s.groupRefs /\ y.unh = 0
  BY <1>1, <1>4, <1>5, <1>7, <1>8 DEF Extraction
<1>10. TookMessage(s.messages, y.messages, s.unh, i)
  BY <1>6, <1>8, <1>9 DEF TookMessage
<1>11. y.errors = <<>> <=> s.errors = <<>> /\ CleanMessage(s.unh, i) /\ segs[s.unh].ref \notin s.refs
  BY <1>2, <1>7, <1>9
<1>12. s.unh # 0
  OBVIOUS
<1>13. y.refs = s.refs \cup {segs[s.unh].ref}
  BY <1>9 DEF r
<1>14. Took(s, y, i)
  BY <1>9, <1>10, <1>11, <1>12, <1>13 DEF Took
<1> QED BY <1>9, <1>14 DEF y

LEMMA FlatTurn ==
  ASSUME TypeOK, NEW s \in Extraction, s.unh \in 0..Len(segs), ~s.fatal,
         NEW i \in 1..Len(segs), NEW y, y = ReadFlat(segs, s, i)
  PROVE  /\ y \in Extraction
         /\ Opened(s, y, i) \/ Stayed(s, y, i) \/ Took(s, y, i) \/ Refused(s, y, i)
<1>1. i \in Nat
  BY SegmentsAre
<1>2. /\ s.errors \in Seq(FaultSet) /\ s.fatal \in BOOLEAN /\ s.messages \in Seq(MessageSpan)
      /\ s.groups \in Seq(Span) /\ s.refs \in SUBSET Nat /\ s.groupRefs \in SUBSET Nat
      /\ s.unh \in Nat
  BY ExtractionFields
<1>3. CASE segs[i].tag = "UNH" /\ s.unh = 0
  <2>1. y = [s EXCEPT !.unh = i]
    BY <1>3 DEF ReadFlat
  <2>2. y \in Extraction /\ Opened(s, y, i)
    BY <1>1, <1>2, <1>3, <2>1 DEF Opened, Extraction
  <2> QED BY <2>2
<1>4. CASE segs[i].tag = "UNT" /\ s.unh # 0
  <2>1. y = ReadMessage(segs, s, i)
    BY <1>4 DEF ReadFlat
  <2> QED BY <1>4, <2>1, MessageIsTaken
<1>5. CASE segs[i].tag \notin ServiceTags /\ s.unh # 0
  <2>1. y = s
    BY <1>5 DEF ReadFlat, ServiceTags
  <2> QED BY <1>5, <2>1 DEF Stayed
<1>6. CASE /\ ~(segs[i].tag = "UNH" /\ s.unh = 0)
           /\ ~(segs[i].tag = "UNT" /\ s.unh # 0)
           /\ ~(segs[i].tag \notin ServiceTags /\ s.unh # 0)
  <2>1. y = Abort(s, At("PackageNotSupported", i)) \/ y = Abort(s, At("InvalidSegmentForMessage", i))
    BY <1>6 DEF ReadFlat, ServiceTags
  <2>2. At("PackageNotSupported", i) \in FaultSet /\ At("InvalidSegmentForMessage", i) \in FaultSet
    BY <1>1 DEF At, Fault, FaultSet, EnvelopeKinds
  <2>3. y \in Extraction /\ y.fatal /\ y.errors # <<>>
    BY <2>1, <2>2, AbortIs
  <2>4. Refused(s, y, i)
    BY <1>6, <2>3 DEF Refused
  <2> QED BY <2>3, <2>4
<1> QED BY <1>3, <1>4, <1>5, <1>6

-----------------------------------------------------------------------------
(* What the loop has read up to an item: messages, one after the other,    *)
(* which cover it all but what is open.                                    *)
IsMessage(f, e) ==
  /\ f < e /\ segs[f].tag = "UNH" /\ segs[e].tag = "UNT"
  /\ \A k \in f+1..e-1 : segs[k].tag \notin ServiceTags

Tiled(ms, n0, from, to) ==
  /\ \A k \in n0+1..Len(ms) :
       /\ ms[k].first \in from..to /\ ms[k].end \in from..to
       /\ IsMessage(ms[k].first, ms[k].end)
       /\ ms[k].declared = Number(segs[ms[k].end].count)
  /\ \A k, l \in n0+1..Len(ms) : k < l => ms[k].end < ms[l].first
  /\ \A j \in from..to : \E k \in n0+1..Len(ms) : j \in ms[k].first..ms[k].end

RefsOf(ms) == {segs[ms[k].first].ref : k \in 1..Len(ms)}

(* A message that is clean among those before it. *)
CleanAt(ms, k) ==
  /\ CleanMessage(ms[k].first, ms[k].end)
  /\ \A j \in 1..k-1 : segs[ms[j].first].ref # segs[ms[k].first].ref

CleanFrom(ms, n0) == \A k \in n0+1..Len(ms) : CleanAt(ms, k)

LEMMA TileGrows ==
  ASSUME NEW ms \in Seq(MessageSpan), NEW mt, NEW n0 \in 0..Len(ms),
         NEW from \in Nat, NEW i \in Nat, NEW h \in from..i,
         Tiled(ms, n0, from, h - 1), IsMessage(h, i), TookMessage(ms, mt, h, i)
  PROVE  Tiled(mt, n0, from, i)
<1> DEFINE n == Len(ms)
<1>1. n \in Nat /\ Len(mt) = n + 1 /\ \A k \in 1..n : mt[k] = ms[k]
  BY DEF TookMessage
<1>2. mt[n+1].first = h /\ mt[n+1].end = i /\ mt[n+1].declared = Number(segs[i].count)
  BY <1>1 DEF TookMessage
<1>3. \A k \in n0+1..n :
        /\ ms[k].first \in from..h-1 /\ ms[k].end \in from..h-1
        /\ IsMessage(ms[k].first, ms[k].end)
        /\ ms[k].declared = Number(segs[ms[k].end].count)
  BY DEF Tiled
<1>4. \A k, l \in n0+1..n : k < l => ms[k].end < ms[l].first
  BY DEF Tiled
<1>5. \A j \in from..h-1 : \E k \in n0+1..n : j \in ms[k].first..ms[k].end
  BY DEF Tiled
<1> HIDE DEF n
<1>6. ASSUME NEW k \in n0+1..n+1
      PROVE  /\ mt[k].first \in from..i /\ mt[k].end \in from..i
             /\ IsMessage(mt[k].first, mt[k].end)
             /\ mt[k].declared = Number(segs[mt[k].end].count)
  <2>1. CASE k = n+1
    BY <1>2, <2>1
  <2>2. CASE k \in n0+1..n
    <3>1. mt[k] = ms[k]
      BY <1>1, <2>2
    <3>2. ms[k].first \in from..h-1 /\ ms[k].end \in from..h-1
      BY <1>3, <2>2
    <3>3. ms[k].first \in from..i /\ ms[k].end \in from..i
      BY <3>2
    <3> QED BY <1>3, <2>2, <3>1, <3>3
  <2> QED BY <1>1, <2>1, <2>2
<1>7. ASSUME NEW k \in n0+1..n+1, NEW l \in n0+1..n+1, k < l
      PROVE  mt[k].end < mt[l].first
  <2>0. k \in n0+1..n /\ mt[k] = ms[k]
    BY <1>1, <1>7
  <2>1. CASE l = n+1
    <3>1. ms[k].end \in from..h-1
      BY <1>3, <2>0
    <3> QED BY <1>2, <2>0, <2>1, <3>1
  <2>2. CASE l \in n0+1..n
    <3>1. mt[l] = ms[l]
      BY <1>1, <2>2
    <3> QED BY <1>4, <1>7, <2>0, <2>2, <3>1
  <2> QED BY <1>1, <2>1, <2>2
<1>8. ASSUME NEW j \in from..i
      PROVE  \E k \in n0+1..n+1 : j \in mt[k].first..mt[k].end
  <2>1. CASE j \in h..i
    <3>1. n+1 \in n0+1..n+1 /\ j \in mt[n+1].first..mt[n+1].end
      BY <1>1, <1>2, <2>1 DEF n
    <3> QED BY <3>1
  <2>2. CASE j \in from..h-1
    <3>1. PICK k \in n0+1..n : j \in ms[k].first..ms[k].end
      BY <1>5, <2>2
    <3>2. k \in n0+1..n+1 /\ mt[k] = ms[k]
      BY <1>1, <3>1
    <3> QED BY <3>1, <3>2
  <2> QED BY <2>1, <2>2
<1> QED BY <1>1, <1>6, <1>7, <1>8 DEF Tiled

LEMMA CleanGrows ==
  ASSUME NEW ms \in Seq(MessageSpan), NEW mt, NEW n0 \in 0..Len(ms), NEW h, NEW i,
         TookMessage(ms, mt, h, i)
  PROVE  /\ RefsOf(mt) = RefsOf(ms) \cup {segs[h].ref}
         /\ CleanFrom(mt, n0) <=> CleanFrom(ms, n0) /\ CleanMessage(h, i) /\ segs[h].ref \notin RefsOf(ms)
<1> DEFINE n == Len(ms)
<1>1. n \in Nat /\ Len(mt) = n + 1 /\ \A k \in 1..n : mt[k] = ms[k]
  BY DEF TookMessage
<1>2. mt[n+1].first = h /\ mt[n+1].end = i
  BY <1>1 DEF TookMessage
<1> HIDE DEF n
<1>3. \A k \in n0+1..n : CleanAt(mt, k) <=> CleanAt(ms, k)
  <2> SUFFICES ASSUME NEW k \in n0+1..n PROVE CleanAt(mt, k) <=> CleanAt(ms, k)
    OBVIOUS
  <2>1. mt[k] = ms[k] /\ \A j \in 1..k-1 : mt[j] = ms[j]
    BY <1>1
  <2> QED BY <2>1 DEF CleanAt
<1>4. CleanAt(mt, n+1) <=> CleanMessage(h, i) /\ segs[h].ref \notin RefsOf(ms)
  <2>1. (n+1)-1 = n
    BY <1>1
  <2>2. CleanAt(mt, n+1) <=> CleanMessage(h, i) /\ \A j \in 1..n : segs[mt[j].first].ref # segs[h].ref
    BY <1>2, <2>1 DEF CleanAt
  <2>3. (\A j \in 1..n : segs[mt[j].first].ref # segs[h].ref) <=> segs[h].ref \notin RefsOf(ms)
    BY <1>1 DEF RefsOf, n
  <2> QED BY <2>2, <2>3
<1>5. \A k : k \in n0+1..n+1 <=> k \in n0+1..n \/ k = n+1
  BY <1>1 DEF n
<1>6. CleanFrom(mt, n0) <=> CleanFrom(ms, n0) /\ CleanAt(mt, n+1)
  BY <1>1, <1>3, <1>5 DEF CleanFrom, n
<1>7. RefsOf(mt) = RefsOf(ms) \cup {segs[h].ref}
  <2>1. \A k : k \in 1..n+1 <=> k \in 1..n \/ k = n+1
    BY <1>1
  <2> QED BY <1>1, <1>2, <2>1 DEF RefsOf, n
<1> QED BY <1>4, <1>6, <1>7

LEMMA TrailersGrow ==
  ASSUME NEW from \in Nat, NEW i \in Nat, from <= i, NEW tag
  PROVE  /\ TrailersIn(from, i-1, tag) \in Nat /\ TrailersIn(from, i, tag) \in Nat
         /\ segs[i].tag = tag => TrailersIn(from, i, tag) = TrailersIn(from, i-1, tag) + 1
         /\ segs[i].tag # tag => TrailersIn(from, i, tag) = TrailersIn(from, i-1, tag)
<1> DEFINE P(j) == {k \in from..j : segs[k].tag = tag}
<1>1. IsFiniteSet(P(i-1)) /\ IsFiniteSet(P(i))
  <2>1. i - 1 \in Int /\ i \in Int /\ from \in Int
    OBVIOUS
  <2>2. IsFiniteSet(from..i-1) /\ IsFiniteSet(from..i)
    BY <2>1, FS_Interval
  <2> QED BY <2>2, FS_Subset
<1>2. Cardinality(P(i-1)) \in Nat /\ Cardinality(P(i)) \in Nat
  BY <1>1, FS_CardinalityType
<1>3. CASE segs[i].tag = tag
  <2>1. P(i) = P(i-1) \cup {i} /\ i \notin P(i-1)
    BY <1>3
  <2>2. Cardinality(P(i)) = Cardinality(P(i-1)) + 1
    <3> HIDE DEF P
    <3> QED BY <1>1, <2>1, FS_AddElement
  <2> QED BY <1>2, <1>3, <2>2 DEF TrailersIn
<1>4. CASE segs[i].tag # tag
  <2>1. P(i) = P(i-1)
    BY <1>4
  <2> QED BY <1>2, <1>4, <2>1 DEF TrailersIn
<1> QED BY <1>3, <1>4

-----------------------------------------------------------------------------
(* Of a state of the loop, from a state before it.                         *)
Quiet(f, i) == \A k \in f+1..i : segs[k].tag \notin ServiceTags

ReadUpTo(from, i, s0, s) ==
  /\ s.groups = s0.groups /\ s.groupRefs = s0.groupRefs
  /\ Len(s0.messages) <= Len(s.messages)
  /\ \A k \in 1..Len(s0.messages) : s.messages[k] = s0.messages[k]
  /\ s.refs = RefsOf(s.messages)
  /\ s.unh # 0 => s.unh \in from..i /\ segs[s.unh].tag = "UNH" /\ Quiet(s.unh, i)
                  /\ Tiled(s.messages, Len(s0.messages), from, s.unh - 1)
  /\ s.unh = 0 => Tiled(s.messages, Len(s0.messages), from, i)
  /\ s.errors = <<>> <=> s0.errors = <<>> /\ CleanFrom(s.messages, Len(s0.messages))
  /\ Len(s.messages) = Len(s0.messages) + TrailersIn(from, i, "UNT")

FlatInv(from, i, s0, s) ==
  /\ s \in Extraction
  /\ s.fatal => s.errors # <<>>
  /\ ~s.fatal => ReadUpTo(from, i, s0, s)

LEMMA FlatTurnReads ==
  ASSUME TypeOK, NEW s0 \in Extraction, NEW from \in 1..Len(segs), NEW i \in from..Len(segs),
         NEW s \in Extraction, ~s.fatal, ReadUpTo(from, i-1, s0, s),
         NEW y, y = ReadFlat(segs, s, i)
  PROVE  FlatInv(from, i, s0, y)
<1> DEFINE n0 == Len(s0.messages)
           ms == s.messages
           h == s.unh
<1>1. i \in 1..Len(segs) /\ i \in Nat /\ from \in Nat /\ from <= i
  BY SegmentsAre
<1>2. /\ s0.messages \in Seq(MessageSpan) /\ ms \in Seq(MessageSpan) /\ h \in Nat
      /\ s.errors \in Seq(FaultSet)
  BY ExtractionFields
<1>3. /\ s.groups = s0.groups /\ s.groupRefs = s0.groupRefs
      /\ n0 <= Len(ms) /\ \A k \in 1..n0 : ms[k] = s0.messages[k]
      /\ s.refs = RefsOf(ms)
      /\ h # 0 => h \in from..i-1 /\ segs[h].tag = "UNH" /\ Quiet(h, i-1)
                  /\ Tiled(ms, n0, from, h - 1)
      /\ h = 0 => Tiled(ms, n0, from, i-1)
      /\ s.errors = <<>> <=> s0.errors = <<>> /\ CleanFrom(ms, n0)
      /\ Len(ms) = n0 + TrailersIn(from, i-1, "UNT")
  BY DEF ReadUpTo
<1>4. n0 \in 0..Len(ms) /\ Len(ms) \in Nat /\ n0 \in Nat
  BY <1>2, <1>3
<1>5. h \in 0..Len(segs)
  BY <1>1, <1>2, <1>3
<1>6. y \in Extraction /\ (Opened(s, y, i) \/ Stayed(s, y, i) \/ Took(s, y, i) \/ Refused(s, y, i))
  BY <1>5, FlatTurn
<1>7. /\ TrailersIn(from, i-1, "UNT") \in Nat /\ TrailersIn(from, i, "UNT") \in Nat
      /\ segs[i].tag = "UNT" => TrailersIn(from, i, "UNT") = TrailersIn(from, i-1, "UNT") + 1
      /\ segs[i].tag # "UNT" => TrailersIn(from, i, "UNT") = TrailersIn(from, i-1, "UNT")
  BY <1>1, TrailersGrow
<1> HIDE DEF n0, ms, h
<1>8. CASE Opened(s, y, i)
  <2>1. /\ segs[i].tag = "UNH" /\ h = 0
        /\ ~y.fatal /\ y.unh = i /\ y.errors = s.errors /\ y.messages = ms
        /\ y.groups = s.groups /\ y.refs = s.refs /\ y.groupRefs = s.groupRefs
    BY <1>8 DEF Opened, h, ms
  <2>2. Quiet(i, i)
    BY <1>1 DEF Quiet
  <2>3. ReadUpTo(from, i, s0, y)
    BY <1>1, <1>3, <1>7, <2>1, <2>2 DEF ReadUpTo, n0
  <2> QED BY <1>6, <2>1, <2>3 DEF FlatInv
<1>9. CASE Stayed(s, y, i)
  <2>1. segs[i].tag \notin ServiceTags /\ h # 0 /\ y = s
    BY <1>9 DEF Stayed, h
  <2>2. Quiet(h, i)
    <3>1. h \in from..i-1 /\ Quiet(h, i-1)
      BY <1>3, <2>1
    <3> QED BY <1>1, <2>1, <3>1 DEF Quiet
  <2>3. segs[i].tag # "UNT"
    BY <2>1 DEF ServiceTags
  <2>4. h \in from..i
    BY <1>1, <1>3, <2>1
  <2>5. ReadUpTo(from, i, s0, y)
    BY <1>3, <1>7, <2>1, <2>2, <2>3, <2>4 DEF ReadUpTo, n0, ms, h
  <2> QED BY <1>6, <2>1, <2>5 DEF FlatInv
<1>10. CASE Took(s, y, i)
  <2>1. /\ segs[i].tag = "UNT" /\ h # 0 /\ ~y.fatal /\ y.unh = 0
        /\ y.errors = <<>> <=> s.errors = <<>> /\ CleanMessage(h, i) /\ segs[h].ref \notin s.refs
        /\ TookMessage(ms, y.messages, h, i)
        /\ y.groups = s.groups /\ y.refs = s.refs \cup {segs[h].ref} /\ y.groupRefs = s.groupRefs
    BY <1>10 DEF Took, h, ms
  <2>2. /\ h \in from..i-1 /\ h \in from..i /\ segs[h].tag = "UNH" /\ Quiet(h, i-1)
        /\ Tiled(ms, n0, from, h - 1)
    BY <1>1, <1>3, <2>1
  <2>3. IsMessage(h, i)
    BY <1>1, <2>1, <2>2 DEF IsMessage, Quiet
  <2>4. Tiled(y.messages, n0, from, i)
    BY <1>1, <1>2, <1>4, <2>1, <2>2, <2>3, TileGrows
  <2>5. /\ RefsOf(y.messages) = RefsOf(ms) \cup {segs[h].ref}
        /\ CleanFrom(y.messages, n0) <=> CleanFrom(ms, n0) /\ CleanMessage(h, i) /\ segs[h].ref \notin RefsOf(ms)
    BY <1>2, <1>4, <2>1, CleanGrows
  <2>6. /\ Len(y.messages) = Len(ms) + 1
        /\ \A k \in 1..n0 : y.messages[k] = s0.messages[k]
    BY <1>3, <1>4, <2>1 DEF TookMessage
  <2>7. Len(y.messages) = n0 + TrailersIn(from, i, "UNT")
    BY <1>3, <1>4, <1>7, <2>1, <2>6
  <2>8. ReadUpTo(from, i, s0, y)
    BY <1>3, <1>4, <2>1, <2>4, <2>5, <2>6, <2>7 DEF ReadUpTo, n0
  <2> QED BY <1>6, <2>1, <2>8 DEF FlatInv
<1>11. CASE Refused(s, y, i)
  BY <1>6, <1>11 DEF FlatInv, Refused
<1> QED BY <1>6, <1>8, <1>9, <1>10, <1>11

LEMMA FlatStops ==
  ASSUME NEW s, s.fatal, NEW i
  PROVE  ReadFlat(segs, s, i) = s
BY DEF ReadFlat

LEMMA FlatStarts ==
  ASSUME NEW s0 \in Extraction, ~s0.fatal, s0.unh = 0, s0.refs = RefsOf(s0.messages), NEW from \in Nat
  PROVE  FlatInv(from, from - 1, s0, s0)
<1>1. s0.messages \in Seq(MessageSpan)
  BY ExtractionFields
<1>2. Len(s0.messages) \in Nat
  BY <1>1
<1>3. Tiled(s0.messages, Len(s0.messages), from, from - 1)
  BY <1>2 DEF Tiled
<1>4. CleanFrom(s0.messages, Len(s0.messages))
  BY <1>2 DEF CleanFrom
<1>5. TrailersIn(from, from - 1, "UNT") = 0
  <2>1. {k \in from..from-1 : segs[k].tag = "UNT"} = {}
    OBVIOUS
  <2> QED BY <2>1, FS_EmptySet DEF TrailersIn
<1>6. Len(s0.messages) = Len(s0.messages) + TrailersIn(from, from - 1, "UNT")
  BY <1>2, <1>5
<1>7. ReadUpTo(from, from - 1, s0, s0)
  BY <1>2, <1>3, <1>4, <1>6 DEF ReadUpTo
<1> QED BY <1>7 DEF FlatInv

LEMMA FlatAfterEach ==
  ASSUME TypeOK, NEW s0 \in Extraction, ~s0.fatal, s0.unh = 0, s0.refs = RefsOf(s0.messages),
         NEW from \in 1..Len(segs), NEW to \in Nat, from - 1 <= to, to <= Len(segs)
  PROVE  \A i \in from-1..to : FlatInv(from, i, s0, FlatAfter(segs, from, to, s0)[i])
<1> DEFINE x(i) == FlatAfter(segs, from, to, s0)[i]
           F == {i \in from-1..to : FlatInv(from, i, s0, x(i))}
<1>1. /\ from \in Nat /\ to \in Int /\ from \in Int /\ from-1 \in Int /\ Len(segs) \in Nat
  BY SegmentsAre
<1>2. /\ x(from-1) = s0
      /\ \A i \in from..to : x(i) = ReadFlat(segs, x(i-1), i)
  BY <1>1, FlatStep
<1>3. from-1 \in F
  <2>1. FlatInv(from, from-1, s0, s0)
    BY <1>1, FlatStarts
  <2> HIDE DEF x
  <2> QED BY <1>1, <1>2, <2>1
<1>4. \A i \in (from-1)+1..to : i-1 \in F => i \in F
  <2> SUFFICES ASSUME NEW i \in from..to, FlatInv(from, i-1, s0, x(i-1))
               PROVE  FlatInv(from, i, s0, x(i))
    BY <1>1
  <2>1. x(i) = ReadFlat(segs, x(i-1), i)
    BY <1>2
  <2>2. i \in from..Len(segs)
    BY <1>1
  <2> DEFINE s == x(i-1)
             y == x(i)
  <2>3. y = ReadFlat(segs, s, i) /\ FlatInv(from, i-1, s0, s)
    BY <2>1
  <2> HIDE DEF x, s, y
  <2>4. s \in Extraction /\ (s.fatal => s.errors # <<>>) /\ (~s.fatal => ReadUpTo(from, i-1, s0, s))
    BY <2>3 DEF FlatInv
  <2>5. FlatInv(from, i, s0, y)
    <3>1. CASE s.fatal
      <4>1. y = s
        BY <2>3, <3>1, FlatStops
      <4> QED BY <2>4, <3>1, <4>1 DEF FlatInv
    <3>2. CASE ~s.fatal
      BY <2>2, <2>3, <2>4, <3>2, FlatTurnReads
    <3> QED BY <3>1, <3>2
  <2> QED BY <2>5 DEF y
<1>5. \A i \in from-1..to : i \in F
  <2> HIDE DEF F
  <2> QED BY <1>1, <1>3, <1>4, UpTo, Zenon
<1> QED BY <1>5

(* The messages of a region, all of them closed. *)
ReadAll(from, to, s0, y) ==
  /\ y \in Extraction
  /\ y.fatal => y.errors # <<>>
  /\ ~y.fatal => y.unh = 0 /\ ReadUpTo(from, to, s0, y)

LEMMA MessagesAreRead ==
  ASSUME TypeOK, NEW s0 \in Extraction, ~s0.fatal, s0.unh = 0, s0.refs = RefsOf(s0.messages),
         NEW from \in 1..Len(segs), NEW to \in Nat, from - 1 <= to, to <= Len(segs)
  PROVE  ReadAll(from, to, s0, ExtractMessages(segs, from, to, s0))
<1> DEFINE x == FlatAfter(segs, from, to, s0)[to]
<1>1. FlatInv(from, to, s0, x)
  <2>1. to \in from-1..to
    OBVIOUS
  <2> QED BY <2>1, FlatAfterEach
<1>2. /\ ~x.fatal /\ x.unh # 0 => ExtractMessages(segs, from, to, s0) = Abort(x, MissingSegment("UNT"))
      /\ ~(~x.fatal /\ x.unh # 0) => ExtractMessages(segs, from, to, s0) = x
  BY DEF ExtractMessages
<1> HIDE DEF x
<1>3. x \in Extraction /\ (x.fatal => x.errors # <<>>) /\ (~x.fatal => ReadUpTo(from, to, s0, x))
  BY <1>1 DEF FlatInv
<1>4. MissingSegment("UNT") \in FaultSet
  BY DEF MissingSegment, Fault, FaultSet, EnvelopeKinds, NoSpan, Tags
<1>5. CASE ~x.fatal /\ x.unh # 0
  BY <1>2, <1>3, <1>4, <1>5, AbortIs DEF ReadAll
<1>6. CASE ~(~x.fatal /\ x.unh # 0)
  BY <1>2, <1>3, <1>6 DEF ReadAll
<1> QED BY <1>5, <1>6

-----------------------------------------------------------------------------
(* Where there are good messages only, the loop finds them.                *)
LEMMA NextIsEnd ==
  ASSUME TypeOK, NEW a \in 1..Len(segs), NEW b \in 1..Len(segs), NEW c \in 1..Len(segs),
         GoodMessage(a, b), IsMessage(a, c)
  PROVE  b = c
<1>1. /\ a \in Int /\ b \in Int /\ c \in Int /\ a < b /\ a < c
      /\ segs[b].tag = "UNT" /\ segs[c].tag = "UNT"
      /\ \A k \in a+1..b-1 : segs[k].tag \notin ServiceTags
      /\ \A k \in a+1..c-1 : segs[k].tag \notin ServiceTags
  BY SegmentsAre DEF GoodMessage, Closes, IsMessage
<1>2. "UNT" \in ServiceTags
  BY DEF ServiceTags
<1>3. ~(b < c)
  BY <1>1, <1>2
<1>4. ~(c < b)
  BY <1>1, <1>2
<1> QED BY <1>1, <1>3, <1>4

LEMMA WithinAMessage ==
  ASSUME TypeOK, NEW a \in 1..Len(segs), NEW b \in 1..Len(segs), GoodMessage(a, b), NEW i \in a..b
  PROVE  /\ segs[i].tag = "UNH" => i = a
         /\ segs[i].tag = "UNT" => i = b
         /\ segs[i].tag \in ServiceTags => segs[i].tag \in {"UNH", "UNT"}
<1>1. /\ a \in Int /\ b \in Int /\ i \in Int /\ a < b
      /\ segs[a].tag = "UNH" /\ segs[b].tag = "UNT"
      /\ \A k \in a+1..b-1 : segs[k].tag \notin ServiceTags
  BY SegmentsAre DEF GoodMessage, Closes
<1>2. i = a \/ i = b \/ i \in a+1..b-1
  BY <1>1
<1> QED BY <1>1, <1>2 DEF ServiceTags

LEMMA GoodTurns ==
  ASSUME TypeOK, NEW s0 \in Extraction, NEW from \in 1..Len(segs), NEW i \in from..Len(segs),
         NEW s \in Extraction, ~s.fatal, ReadUpTo(from, i-1, s0, s),
         NEW a \in from..Len(segs), NEW b \in from..Len(segs), a <= i, i <= b, GoodMessage(a, b),
         s.unh # 0 => \E e \in from..Len(segs) : GoodMessage(s.unh, e),
         NEW y, y = ReadFlat(segs, s, i)
  PROVE  ~y.fatal
<1> DEFINE n0 == Len(s0.messages)
           ms == s.messages
           h == s.unh
<1>1. i \in 1..Len(segs) /\ i \in Nat /\ from \in Nat /\ a \in 1..Len(segs) /\ b \in 1..Len(segs) /\ Len(segs) \in Nat
  BY SegmentsAre
<1>2. s0.messages \in Seq(MessageSpan) /\ ms \in Seq(MessageSpan) /\ h \in Nat
  BY ExtractionFields
<1>3. /\ h # 0 => h \in from..i-1 /\ segs[h].tag = "UNH" /\ Quiet(h, i-1)
                  /\ Tiled(ms, n0, from, h - 1)
      /\ h = 0 => Tiled(ms, n0, from, i-1)
  BY DEF ReadUpTo
<1>4. /\ segs[i].tag = "UNH" => i = a
      /\ segs[i].tag = "UNT" => i = b
      /\ segs[i].tag \in ServiceTags => segs[i].tag \in {"UNH", "UNT"}
      /\ segs[a].tag = "UNH" /\ segs[b].tag = "UNT" /\ a < b
      /\ \A k \in a+1..b-1 : segs[k].tag \notin ServiceTags
  BY <1>1, WithinAMessage DEF GoodMessage, Closes
<1>5. h \in 0..Len(segs)
  BY <1>1, <1>2, <1>3
<1>6. h # 0 => \E e \in 1..Len(segs) : GoodMessage(h, e)
  BY <1>1
<1>7. y \in Extraction /\ (Opened(s, y, i) \/ Stayed(s, y, i) \/ Took(s, y, i) \/ Refused(s, y, i))
  BY <1>5, FlatTurn
<1> HIDE DEF n0, ms, h
(* A message that is open when a UNH comes has no trailer. *)
<1>8. segs[i].tag = "UNH" => h = 0
  <2> SUFFICES ASSUME segs[i].tag = "UNH", h # 0 PROVE FALSE
    OBVIOUS
  <2>1. PICK e \in 1..Len(segs) : GoodMessage(h, e)
    BY <1>6
  <2>2. h \in from..i-1 /\ Quiet(h, i-1) /\ h \in 1..Len(segs)
    BY <1>1, <1>3
  <2>3. h < e /\ segs[e].tag = "UNT" /\ \A k \in h+1..e-1 : segs[k].tag \notin ServiceTags
    BY <2>1 DEF GoodMessage, Closes
  <2>4. e \notin h+1..i-1
    BY <2>2, <2>3 DEF Quiet, ServiceTags
  <2>5. i \in h+1..e-1
    <3>1. e # i
      BY <2>3
    <3> QED BY <1>1, <2>2, <2>3, <2>4, <3>1
  <2> QED BY <2>3, <2>5 DEF ServiceTags
(* Past the header of its message, a segment finds it open. *)
<1>9. a # i => h # 0
  <2> SUFFICES ASSUME a # i, h = 0 PROVE FALSE
    OBVIOUS
  <2>1. Tiled(ms, n0, from, i-1) /\ a \in from..i-1
    BY <1>1, <1>3
  <2>2. PICK k \in n0+1..Len(ms) : a \in ms[k].first..ms[k].end
    BY <2>1 DEF Tiled
  <2>3. /\ ms[k].first \in from..i-1 /\ ms[k].end \in from..i-1
        /\ IsMessage(ms[k].first, ms[k].end)
    BY <2>1, <2>2 DEF Tiled
  <2>4. a = ms[k].first
    <3>1. a \notin ms[k].first+1..ms[k].end-1 /\ a # ms[k].end
      BY <1>4, <2>3 DEF IsMessage, ServiceTags
    <3> QED BY <1>1, <2>2, <2>3, <3>1
  <2>5. ms[k].end \in 1..Len(segs)
    BY <1>1, <2>3
  <2>6. b = ms[k].end
    BY <1>1, <2>3, <2>4, <2>5, NextIsEnd
  <2> QED BY <1>1, <2>3, <2>6
<1>10. CASE segs[i].tag = "UNH"
  BY <1>7, <1>8, <1>10 DEF Refused, Opened, Stayed, Took, h, ServiceTags
<1>11. CASE segs[i].tag = "UNT"
  <2>1. h # 0
    BY <1>4, <1>9, <1>11
  <2> QED BY <1>7, <1>11, <2>1 DEF Refused, Opened, Stayed, Took, h, ServiceTags
<1>12. CASE segs[i].tag \notin ServiceTags
  <2>1. h # 0
    BY <1>4, <1>9, <1>12 DEF ServiceTags
  <2> QED BY <1>7, <1>12, <2>1 DEF Refused, Opened, Stayed, Took, h, ServiceTags
<1> QED BY <1>4, <1>10, <1>11, <1>12

LEMMA GoodMessagesAreRead ==
  ASSUME TypeOK, NEW s0 \in Extraction, ~s0.fatal, s0.unh = 0, s0.refs = RefsOf(s0.messages),
         NEW from \in 1..Len(segs), NEW to \in Nat, from - 1 <= to, to <= Len(segs),
         AllMessages(from, to)
  PROVE  ~ExtractMessages(segs, from, to, s0).fatal
<1> DEFINE x(i) == FlatAfter(segs, from, to, s0)[i]
           F == {i \in from-1..to : ~x(i).fatal}
<1>1. /\ from \in Nat /\ to \in Int /\ from \in Int /\ from-1 \in Int /\ Len(segs) \in Nat
  BY SegmentsAre
<1>2. /\ x(from-1) = s0
      /\ \A i \in from..to : x(i) = ReadFlat(segs, x(i-1), i)
  BY <1>1, FlatStep
<1>3. \A i \in from-1..to : FlatInv(from, i, s0, x(i))
  BY FlatAfterEach
<1>4. \A h \in from..to : segs[h].tag = "UNH" => \E e \in from..to : GoodMessage(h, e)
  <2> SUFFICES ASSUME NEW h \in from..to, segs[h].tag = "UNH"
               PROVE  \E e \in from..to : GoodMessage(h, e)
    OBVIOUS
  <2>1. PICK a, b \in from..to : a <= h /\ h <= b /\ GoodMessage(a, b)
    BY DEF AllMessages
  <2>2. a \in 1..Len(segs) /\ b \in 1..Len(segs) /\ h \in a..b
    BY <1>1, <2>1
  <2>3. h = a
    BY <2>1, <2>2, WithinAMessage
  <2> QED BY <2>1, <2>3
<1>5. from-1 \in F
  <2> HIDE DEF x
  <2> QED BY <1>1, <1>2
<1>6. \A i \in (from-1)+1..to : i-1 \in F => i \in F
  <2> SUFFICES ASSUME NEW i \in from..to, ~x(i-1).fatal
               PROVE  ~x(i).fatal
    BY <1>1
  <2>0. i - 1 \in from-1..to
    BY <1>1
  <2> DEFINE s == x(i-1)
             y == x(i)
  <2>1. y = ReadFlat(segs, s, i) /\ FlatInv(from, i-1, s0, s) /\ ~s.fatal
    BY <1>2, <1>3, <2>0
  <2> HIDE DEF x, s, y
  <2>2. s \in Extraction /\ ReadUpTo(from, i-1, s0, s)
    BY <2>1 DEF FlatInv
  <2>3. i \in from..Len(segs) /\ from..to \subseteq from..Len(segs)
    BY <1>1
  <2>4. PICK a, b \in from..to : a <= i /\ i <= b /\ GoodMessage(a, b)
    BY DEF AllMessages
  <2>5. s.unh # 0 => \E e \in from..Len(segs) : GoodMessage(s.unh, e)
    <3>1. s.unh # 0 => s.unh \in from..i-1 /\ segs[s.unh].tag = "UNH"
      BY <2>2 DEF ReadUpTo
    <3>2. s.unh # 0 => s.unh \in from..to
      BY <1>1, <3>1
    <3> QED BY <1>4, <2>3, <3>1, <3>2
  <2>6. ~y.fatal
    <3>1. a \in from..Len(segs) /\ b \in from..Len(segs) /\ a <= i /\ i <= b /\ GoodMessage(a, b)
      BY <2>3, <2>4
    <3> QED BY <2>1, <2>2, <2>3, <2>5, <3>1, GoodTurns
  <2> QED BY <2>6 DEF y
<1>7. \A i \in from-1..to : i \in F
  <2> HIDE DEF F
  <2> QED BY <1>1, <1>5, <1>6, UpTo, Zenon
<1>8. to \in from-1..to
  OBVIOUS
<1>9. ~x(to).fatal /\ FlatInv(from, to, s0, x(to))
  BY <1>3, <1>7, <1>8
<1>10. ExtractMessages(segs, from, to, s0) =
         IF ~x(to).fatal /\ x(to).unh # 0 THEN Abort(x(to), MissingSegment("UNT")) ELSE x(to)
  BY DEF ExtractMessages
<1> DEFINE y == x(to)
<1> HIDE DEF x
<1>11. ReadUpTo(from, to, s0, y)
  BY <1>9 DEF FlatInv
<1>12. y.unh = 0
  <2> SUFFICES ASSUME y.unh # 0 PROVE FALSE
    OBVIOUS
  <2>1. y.unh \in from..to /\ segs[y.unh].tag = "UNH" /\ Quiet(y.unh, to)
    BY <1>11 DEF ReadUpTo
  <2>2. PICK e \in from..to : GoodMessage(y.unh, e)
    BY <1>4, <2>1
  <2>3. y.unh < e /\ segs[e].tag = "UNT"
    BY <2>2 DEF GoodMessage, Closes
  <2>4. e \in y.unh+1..to
    BY <1>1, <2>1, <2>3
  <2> QED BY <2>1, <2>3, <2>4 DEF Quiet, ServiceTags
<1> QED BY <1>9, <1>10, <1>12

LEMMA TilesAreGood ==
  ASSUME TypeOK, NEW ms, NEW n0 \in Nat, Len(ms) \in Nat,
         NEW from \in 1..Len(segs), NEW to \in Nat, to <= Len(segs),
         AllMessages(from, to), Tiled(ms, n0, from, to)
  PROVE  \A k \in n0+1..Len(ms) : GoodMessage(ms[k].first, ms[k].end)
<1> SUFFICES ASSUME NEW k \in n0+1..Len(ms) PROVE GoodMessage(ms[k].first, ms[k].end)
  OBVIOUS
<1> DEFINE f == ms[k].first
           e == ms[k].end
<1>0. from \in Nat /\ Len(segs) \in Nat
  BY SegmentsAre
<1>1. f \in from..to /\ e \in from..to /\ IsMessage(f, e)
  BY DEF Tiled
<1> HIDE DEF f, e
<1>2. PICK a, b \in from..to : a <= f /\ f <= b /\ GoodMessage(a, b)
  BY <1>1 DEF AllMessages
<1>3. a \in 1..Len(segs) /\ b \in 1..Len(segs) /\ f \in a..b /\ e \in 1..Len(segs)
  BY <1>0, <1>1, <1>2
<1>4. segs[f].tag = "UNH"
  BY <1>1 DEF IsMessage
<1>5. f = a
  BY <1>2, <1>3, <1>4, WithinAMessage
<1>6. b = e
  BY <1>1, <1>2, <1>3, <1>5, NextIsEnd
<1> QED BY <1>2, <1>5, <1>6 DEF f, e

LEMMA GoodIsClean ==
  ASSUME TypeOK, NEW i \in 1..Len(segs), NEW j \in 1..Len(segs)
  PROVE  GoodMessage(i, j) <=>
           IsMessage(i, j) /\ CleanMessage(i, j) /\ Number(segs[j].count) = j - i + 1
<1>1. i \in Int /\ j \in Int
  BY SegmentsAre
<1>2. segs[j].count = j - i + 1 /\ j > i => segs[j].count \in Nat
  BY <1>1
<1>3. segs[j].count \in Nat => Number(segs[j].count) = segs[j].count
  BY DEF Number
<1> QED BY <1>1, <1>2, <1>3 DEF GoodMessage, Closes, IsMessage, CleanMessage

-----------------------------------------------------------------------------
(* Groups, one after the other, which cover what has been read.            *)
GroupOf(ms, f, e) ==
  /\ f < e /\ segs[f].tag = "UNG" /\ segs[e].tag = "UNE"
  /\ \A j \in f+1..e-1 : \E l \in 1..Len(ms) :
       f < ms[l].first /\ ms[l].end < e /\ j \in ms[l].first..ms[l].end

Grouped(ms, gs, i) ==
  /\ \A k \in 1..Len(ms) :
       /\ ms[k].first \in 2..i /\ ms[k].end \in 2..i
       /\ IsMessage(ms[k].first, ms[k].end)
       /\ ms[k].declared = Number(segs[ms[k].end].count)
  /\ \A k, l \in 1..Len(ms) : k < l => ms[k].end < ms[l].first
  /\ \A k \in 1..Len(gs) :
       gs[k].first \in 2..i /\ gs[k].end \in 2..i /\ GroupOf(ms, gs[k].first, gs[k].end)
  /\ \A k, l \in 1..Len(gs) : k < l => gs[k].end < gs[l].first
  /\ \A j \in 2..i : \E k \in 1..Len(gs) : j \in gs[k].first..gs[k].end

CleanGroup(f, e) ==
  /\ segs[f].ref # NoRef /\ segs[e].count \in Nat
  /\ segs[e].ref # NoRef /\ segs[e].ref = segs[f].ref

CleanGroupAt(gs, k) ==
  /\ CleanGroup(gs[k].first, gs[k].end)
  /\ Number(segs[gs[k].end].count) = TrailersIn(gs[k].first + 1, gs[k].end - 1, "UNT")
  /\ \A j \in 1..k-1 : segs[gs[j].first].ref # segs[gs[k].first].ref

CleanGroups(gs) == \A k \in 1..Len(gs) : CleanGroupAt(gs, k)

TookGroup(gs, gt, g, e) ==
  /\ gt \in Seq(Span) /\ Len(gt) = Len(gs) + 1
  /\ \A k \in 1..Len(gs) : gt[k] = gs[k]
  /\ gt[Len(gt)].first = g /\ gt[Len(gt)].end = e

LEMMA GroupedGrows ==
  ASSUME TypeOK, NEW ms \in Seq(MessageSpan), NEW mt \in Seq(MessageSpan),
         NEW gs \in Seq(Span), NEW gt,
         NEW g \in 2..Len(segs), NEW e \in g+1..Len(segs),
         segs[g].tag = "UNG", segs[e].tag = "UNE",
         Grouped(ms, gs, g - 1), Tiled(mt, Len(ms), g + 1, e - 1),
         Len(ms) <= Len(mt), \A k \in 1..Len(ms) : mt[k] = ms[k],
         TookGroup(gs, gt, g, e)
  PROVE  Grouped(mt, gt, e)
<1> DEFINE m == Len(ms)
           n == Len(gs)
<1>1. m \in Nat /\ n \in Nat /\ Len(mt) \in Nat /\ m <= Len(mt) /\ g \in Nat /\ e \in Nat /\ g < e /\ g >= 2
  BY SegmentsAre
<1>0. \A x : (x \in g+1..e-1 => x \in 2..e /\ g < x /\ x < e) /\ (x \in 2..g-1 => x \in 2..e /\ x < g)
  BY <1>1
<1>2. /\ Len(gt) = n + 1 /\ \A k \in 1..n : gt[k] = gs[k]
      /\ gt[n+1].first = g /\ gt[n+1].end = e
  BY DEF TookGroup
<1>3. /\ \A k \in 1..m :
           /\ ms[k].first \in 2..g-1 /\ ms[k].end \in 2..g-1
           /\ IsMessage(ms[k].first, ms[k].end)
           /\ ms[k].declared = Number(segs[ms[k].end].count)
      /\ \A k, l \in 1..m : k < l => ms[k].end < ms[l].first
      /\ \A k \in 1..n :
           gs[k].first \in 2..g-1 /\ gs[k].end \in 2..g-1 /\ GroupOf(ms, gs[k].first, gs[k].end)
      /\ \A k, l \in 1..n : k < l => gs[k].end < gs[l].first
      /\ \A j \in 2..g-1 : \E k \in 1..n : j \in gs[k].first..gs[k].end
  BY DEF Grouped
<1>4. /\ \A k \in m+1..Len(mt) :
           /\ mt[k].first \in g+1..e-1 /\ mt[k].end \in g+1..e-1
           /\ IsMessage(mt[k].first, mt[k].end)
           /\ mt[k].declared = Number(segs[mt[k].end].count)
      /\ \A k, l \in m+1..Len(mt) : k < l => mt[k].end < mt[l].first
      /\ \A j \in g+1..e-1 : \E k \in m+1..Len(mt) : j \in mt[k].first..mt[k].end
  BY DEF Tiled
<1>5. \A k \in 1..m : mt[k] = ms[k]
  OBVIOUS
<1> HIDE DEF m, n
<1>6. ASSUME NEW k \in 1..Len(mt)
      PROVE  /\ mt[k].first \in 2..e /\ mt[k].end \in 2..e
             /\ IsMessage(mt[k].first, mt[k].end)
             /\ mt[k].declared = Number(segs[mt[k].end].count)
  <2>1. CASE k \in 1..m
    <3>1. mt[k] = ms[k]
      BY <1>5, <2>1
    <3>2. ms[k].first \in 2..e /\ ms[k].end \in 2..e
      BY <1>0, <1>3, <2>1
    <3> QED BY <1>3, <2>1, <3>1, <3>2
  <2>2. CASE k \in m+1..Len(mt)
    <3>1. mt[k].first \in 2..e /\ mt[k].end \in 2..e
      BY <1>0, <1>4, <2>2
    <3> QED BY <1>4, <2>2, <3>1
  <2> QED BY <1>1, <2>1, <2>2
<1>7. ASSUME NEW k \in 1..Len(mt), NEW l \in 1..Len(mt), k < l
      PROVE  mt[k].end < mt[l].first
  <2>1. CASE l \in 1..m
    <3>1. k \in 1..m
      BY <1>1, <1>7, <2>1
    <3> QED BY <1>3, <1>5, <1>7, <2>1, <3>1
  <2>2. CASE k \in m+1..Len(mt)
    <3>1. l \in m+1..Len(mt)
      BY <1>1, <1>7, <2>2
    <3> QED BY <1>4, <1>7, <2>2, <3>1
  <2>3. CASE k \in 1..m /\ l \in m+1..Len(mt)
    <3>1. ms[k].end \in 2..g-1 /\ mt[k] = ms[k] /\ mt[l].first \in g+1..e-1
      BY <1>3, <1>4, <1>5, <2>3
    <3>2. \A x, y : x \in 2..g-1 /\ y \in g+1..e-1 => x < y
      BY <1>1
    <3> QED BY <3>1, <3>2
  <2> QED BY <1>1, <2>1, <2>2, <2>3
<1>8. \A f, d : GroupOf(ms, f, d) => GroupOf(mt, f, d)
  <2> SUFFICES ASSUME NEW f, NEW d, GroupOf(ms, f, d), NEW j \in f+1..d-1
               PROVE  \E l \in 1..Len(mt) :
                        f < mt[l].first /\ mt[l].end < d /\ j \in mt[l].first..mt[l].end
    BY DEF GroupOf
  <2>1. PICK l \in 1..m : f < ms[l].first /\ ms[l].end < d /\ j \in ms[l].first..ms[l].end
    BY DEF GroupOf, m
  <2>2. l \in 1..Len(mt) /\ mt[l] = ms[l]
    BY <1>1, <1>5, <2>1
  <2> QED BY <2>1, <2>2
<1>9. GroupOf(mt, g, e)
  <2> SUFFICES ASSUME NEW j \in g+1..e-1
               PROVE  \E l \in 1..Len(mt) :
                        g < mt[l].first /\ mt[l].end < e /\ j \in mt[l].first..mt[l].end
    BY <1>1 DEF GroupOf
  <2>1. PICK l \in m+1..Len(mt) : j \in mt[l].first..mt[l].end
    BY <1>4
  <2>2. l \in 1..Len(mt)
    BY <1>1
  <2>3. g < mt[l].first /\ mt[l].end < e
    BY <1>0, <1>4
  <2> QED BY <2>1, <2>2, <2>3
<1>10. ASSUME NEW k \in 1..n+1
       PROVE  gt[k].first \in 2..e /\ gt[k].end \in 2..e /\ GroupOf(mt, gt[k].first, gt[k].end)
  <2>1. CASE k = n+1
    <3>1. g \in 2..e /\ e \in 2..e
      BY <1>1
    <3> QED BY <1>2, <1>9, <2>1, <3>1
  <2>2. CASE k \in 1..n
    <3>1. gt[k] = gs[k] /\ gs[k].first \in 2..e /\ gs[k].end \in 2..e
      BY <1>0, <1>2, <1>3, <2>2
    <3> QED BY <1>3, <1>8, <2>2, <3>1
  <2>3. k = n+1 \/ k \in 1..n
    BY <1>1
  <2> QED BY <2>1, <2>2, <2>3
<1>11. ASSUME NEW k \in 1..n+1, NEW l \in 1..n+1, k < l
       PROVE  gt[k].end < gt[l].first
  <2>0. k \in 1..n /\ gt[k] = gs[k]
    BY <1>1, <1>2, <1>11
  <2>1. CASE l = n+1
    <3>1. gs[k].end < g
      BY <1>0, <1>3, <2>0
    <3> QED BY <1>2, <2>0, <2>1, <3>1
  <2>2. CASE l \in 1..n
    BY <1>2, <1>3, <1>11, <2>0, <2>2
  <2>3. l = n+1 \/ l \in 1..n
    BY <1>1
  <2> QED BY <2>1, <2>2, <2>3
<1>12. ASSUME NEW j \in 2..e
       PROVE  \E k \in 1..n+1 : j \in gt[k].first..gt[k].end
  <2>1. CASE j \in g..e
    <3>1. n+1 \in 1..n+1 /\ j \in gt[n+1].first..gt[n+1].end
      BY <1>1, <1>2, <2>1
    <3> QED BY <3>1
  <2>2. CASE j \in 2..g-1
    <3>1. PICK k \in 1..n : j \in gs[k].first..gs[k].end
      BY <1>3, <2>2
    <3>2. k \in 1..n+1 /\ gt[k] = gs[k]
      BY <1>1, <1>2, <3>1
    <3> QED BY <3>1, <3>2
  <2>3. j \in g..e \/ j \in 2..g-1
    BY <1>1
  <2> QED BY <2>1, <2>2, <2>3
<1> QED BY <1>2, <1>6, <1>7, <1>10, <1>11, <1>12 DEF Grouped

LEMMA CleanGroupsGrow ==
  ASSUME NEW gs \in Seq(Span), NEW gt, NEW g, NEW e, TookGroup(gs, gt, g, e)
  PROVE  /\ RefsOf(gt) = RefsOf(gs) \cup {segs[g].ref}
         /\ CleanGroups(gt) <=>
              CleanGroups(gs) /\ CleanGroup(g, e) /\ segs[g].ref \notin RefsOf(gs)
                /\ Number(segs[e].count) = TrailersIn(g + 1, e - 1, "UNT")
<1> DEFINE n == Len(gs)
<1>1. n \in Nat /\ Len(gt) = n + 1 /\ \A k \in 1..n : gt[k] = gs[k]
  BY DEF TookGroup
<1>2. gt[n+1].first = g /\ gt[n+1].end = e
  BY <1>1 DEF TookGroup
<1> HIDE DEF n
<1>3. \A k \in 1..n : CleanGroupAt(gt, k) <=> CleanGroupAt(gs, k)
  <2> SUFFICES ASSUME NEW k \in 1..n PROVE CleanGroupAt(gt, k) <=> CleanGroupAt(gs, k)
    OBVIOUS
  <2>1. gt[k] = gs[k] /\ \A j \in 1..k-1 : gt[j] = gs[j]
    BY <1>1
  <2> QED BY <2>1 DEF CleanGroupAt
<1>4. CleanGroupAt(gt, n+1) <=> CleanGroup(g, e) /\ segs[g].ref \notin RefsOf(gs)
                                /\ Number(segs[e].count) = TrailersIn(g + 1, e - 1, "UNT")
  <2>1. (n+1)-1 = n
    BY <1>1
  <2>2. CleanGroupAt(gt, n+1) <=>
          /\ CleanGroup(g, e) /\ Number(segs[e].count) = TrailersIn(g + 1, e - 1, "UNT")
          /\ \A j \in 1..n : segs[gt[j].first].ref # segs[g].ref
    BY <1>2, <2>1 DEF CleanGroupAt
  <2>3. (\A j \in 1..n : segs[gt[j].first].ref # segs[g].ref) <=> segs[g].ref \notin RefsOf(gs)
    BY <1>1 DEF RefsOf, n
  <2> QED BY <2>2, <2>3
<1>5. \A k : k \in 1..n+1 <=> k \in 1..n \/ k = n+1
  BY <1>1
<1>6. CleanGroups(gt) <=> CleanGroups(gs) /\ CleanGroupAt(gt, n+1)
  BY <1>1, <1>3, <1>5 DEF CleanGroups, n
<1>7. RefsOf(gt) = RefsOf(gs) \cup {segs[g].ref}
  BY <1>1, <1>2, <1>5 DEF RefsOf, n
<1> QED BY <1>4, <1>6, <1>7

LEMMA GroupFaultsAre ==
  ASSUME TypeOK, NEW s, NEW g \in 1..Len(segs), NEW e \in 1..Len(segs)
  PROVE  LET f == GroupHeaderFaults(segs, s, g) \o CountFaults(segs, e) \o ReferenceFaults(segs, g, e)
         IN  f \in Seq(FaultSet) /\ (f = <<>> <=> CleanGroup(g, e) /\ segs[g].ref \notin s.groupRefs)
<1> DEFINE p == segs[g].ref = NoRef
           q == segs[g].ref \in s.groupRefs
           a == When(p, Missing("UNG", 6, g))
           b == When(q, At("DuplicateReference", g))
           h == GroupHeaderFaults(segs, s, g)
           c == CountFaults(segs, e)
           d == ReferenceFaults(segs, g, e)
<1>1. g \in Nat /\ "UNG" \in Tags /\ "DuplicateReference" \in EnvelopeKinds
  BY SegmentsAre DEF Tags, EnvelopeKinds
<1>2. h = a \o b
  BY DEF GroupHeaderFaults
<1>3. CleanGroup(g, e) /\ segs[g].ref \notin s.groupRefs <=>
        /\ ~p /\ ~q
        /\ segs[e].count \in Nat /\ segs[e].ref # NoRef /\ segs[e].ref = segs[g].ref
  BY DEF CleanGroup
<1>4. c \in Seq(FaultSet) /\ (c = <<>> <=> segs[e].count \in Nat)
  BY CountFaultsAre
<1>5. d \in Seq(FaultSet) /\ (d = <<>> <=> segs[e].ref # NoRef /\ segs[e].ref = segs[g].ref)
  BY ReferenceFaultsAre
<1> HIDE DEF p, q, c, d, h
<1>6. a \in Seq(FaultSet) /\ (a = <<>> <=> ~p)
  BY <1>1, SixthIsMissing
<1>7. b \in Seq(FaultSet) /\ (b = <<>> <=> ~q)
  BY <1>1, AtIs
<1> HIDE DEF a, b
<1>8. h \in Seq(FaultSet) /\ (h = <<>> <=> a = <<>> /\ b = <<>>)
  BY <1>2, <1>6, <1>7, Joined
<1>9. h \o c \in Seq(FaultSet) /\ (h \o c = <<>> <=> h = <<>> /\ c = <<>>)
  BY <1>4, <1>8, Joined
<1>10. (h \o c) \o d \in Seq(FaultSet) /\ ((h \o c) \o d = <<>> <=> h \o c = <<>> /\ d = <<>>)
  BY <1>5, <1>9, Joined
<1>11. (h \o c) \o d \in Seq(FaultSet)
       /\ ((h \o c) \o d = <<>> <=> CleanGroup(g, e) /\ segs[g].ref \notin s.groupRefs)
  BY <1>3, <1>4, <1>5, <1>6, <1>7, <1>8, <1>9, <1>10
<1> QED BY <1>11 DEF h, c, d

GroupsInv(i, s0, s) ==
  /\ s \in Extraction
  /\ s.fatal => s.errors # <<>>
  /\ ~s.fatal =>
       /\ s.unh = 0 /\ s.refs = RefsOf(s.messages) /\ s.groupRefs = RefsOf(s.groups)
       /\ Grouped(s.messages, s.groups, i)
       /\ s.errors = <<>> <=> s0.errors = <<>> /\ CleanFrom(s.messages, 0) /\ CleanGroups(s.groups)
       /\ Len(s.groups) = TrailersIn(2, i, "UNE")

(* What a group that is right adds to those before. *)
LEMMA GroupIsRead ==
  ASSUME TypeOK, NEW s0, NEW s \in Extraction, ~s.fatal,
         NEW g \in 2..Len(segs), NEW e \in g+1..Len(segs),
         segs[g].tag = "UNG", segs[e].tag = "UNE",
         \A j \in g+1..e-1 : segs[j].tag # "UNE",
         GroupsInv(g - 1, s0, s),
         NEW y, y = ReadGroup(segs, s, g, e)
  PROVE  /\ GroupsInv(e, s0, y)
         /\ AllMessages(g + 1, e - 1) => ~y.fatal
<1> DEFINE ms == s.messages
           gs == s.groups
           f == GroupHeaderFaults(segs, s, g) \o CountFaults(segs, e) \o ReferenceFaults(segs, g, e)
           o == [s EXCEPT !.groupRefs = @ \cup {segs[g].ref}, !.errors = @ \o f]
           r == ExtractMessages(segs, g + 1, e - 1, o)
           held == Len(r.messages) - Len(ms)
           p == Number(segs[e].count) # held
           m == When(p, NoPlace("MessageCountMismatch", e))
           new == [first |-> g, end |-> e]
<1>1. /\ g \in Nat /\ e \in Nat /\ g < e /\ g >= 2 /\ g \in 1..Len(segs) /\ e \in 1..Len(segs) /\ Len(segs) \in Nat
      /\ g+1 \in 1..Len(segs) /\ e-1 \in Nat /\ (g+1)-1 <= e-1 /\ e-1 <= Len(segs)
  BY SegmentsAre
<1>2. /\ s.errors \in Seq(FaultSet) /\ s.fatal \in BOOLEAN /\ ms \in Seq(MessageSpan)
      /\ gs \in Seq(Span) /\ s.refs \in SUBSET Nat /\ s.groupRefs \in SUBSET Nat
      /\ s.unh \in Nat
  BY ExtractionFields
<1>3. /\ s.unh = 0 /\ s.refs = RefsOf(ms) /\ s.groupRefs = RefsOf(gs)
      /\ Grouped(ms, gs, g - 1)
      /\ s.errors = <<>> <=> s0.errors = <<>> /\ CleanFrom(ms, 0) /\ CleanGroups(gs)
      /\ Len(gs) = TrailersIn(2, g - 1, "UNE")
  BY DEF GroupsInv
<1>4. f \in Seq(FaultSet) /\ (f = <<>> <=> CleanGroup(g, e) /\ segs[g].ref \notin s.groupRefs)
  BY <1>1, GroupFaultsAre
<1>5. y = IF r.fatal THEN r ELSE [r EXCEPT !.errors = @ \o m, !.groups = Append(@, new)]
  <2>1. Note([s EXCEPT !.groupRefs = @ \cup {segs[g].ref}], f) = o
    BY DEF Note, Extraction
  <2>4. y = IF r.fatal THEN r ELSE [Note(r, m) EXCEPT !.groups = Append(@, new)]
    BY <2>1 DEF ReadGroup
  <2>5. [Note(r, m) EXCEPT !.groups = Append(@, new)] =
          [r EXCEPT !.errors = @ \o m, !.groups = Append(@, new)]
    BY DEF Note
  <2> QED BY <2>4, <2>5
<1>6. new \in Span /\ new.first = g /\ new.end = e
  BY <1>1 DEF Span
<1> HIDE DEF f, new
<1>7. /\ o \in Extraction /\ ~o.fatal /\ o.unh = 0 /\ o.messages = ms /\ o.groups = gs /\ o.refs = s.refs
      /\ o.groupRefs = s.groupRefs \cup {segs[g].ref}
      /\ o.errors = s.errors \o f
  <2>1. s.errors \o f \in Seq(FaultSet)
    BY <1>2, <1>4, Joined
  <2>2. s.groupRefs \cup {segs[g].ref} \in SUBSET Nat
    BY <1>1, <1>2, SegmentsAre
  <2> QED BY <1>2, <1>3, <2>1, <2>2 DEF Extraction
<1>8. o.errors = <<>> <=> s.errors = <<>> /\ f = <<>>
  BY <1>2, <1>4, <1>7, Joined
<1> HIDE DEF o, gs, ms
<1>9. o.refs = RefsOf(o.messages)
  BY <1>3, <1>7
<1>10. ReadAll(g + 1, e - 1, o, r)
  BY <1>1, <1>7, <1>9, MessagesAreRead
<1>11. AllMessages(g + 1, e - 1) => ~r.fatal
  BY <1>1, <1>7, <1>9, GoodMessagesAreRead
<1> HIDE DEF r
<1>12. r \in Extraction /\ (r.fatal => r.errors # <<>>) /\ (~r.fatal => r.unh = 0 /\ ReadUpTo(g + 1, e - 1, o, r))
  BY <1>10 DEF ReadAll
<1>13. CASE r.fatal
  BY <1>5, <1>11, <1>12, <1>13 DEF GroupsInv
<1>14. CASE ~r.fatal
  <2> DEFINE mt == r.messages
             gt == Append(gs, new)
  <2>1. /\ r.unh = 0 /\ r.groups = gs /\ r.groupRefs = o.groupRefs
        /\ Len(ms) <= Len(mt) /\ \A k \in 1..Len(ms) : mt[k] = ms[k]
        /\ r.refs = RefsOf(mt)
        /\ Tiled(mt, Len(ms), g + 1, e - 1)
        /\ r.errors = <<>> <=> o.errors = <<>> /\ CleanFrom(mt, Len(ms))
        /\ Len(mt) = Len(ms) + TrailersIn(g + 1, e - 1, "UNT")
    BY <1>7, <1>12, <1>14 DEF ReadUpTo
  <2>2. /\ r.errors \in Seq(FaultSet) /\ r.fatal \in BOOLEAN /\ mt \in Seq(MessageSpan)
        /\ r.groups \in Seq(Span) /\ r.refs \in SUBSET Nat /\ r.groupRefs \in SUBSET Nat
    BY <1>12, ExtractionFields
  <2>3. m \in Seq(FaultSet) /\ (m = <<>> <=> ~p)
    <3>1. "MessageCountMismatch" \in EnvelopeKinds
      BY DEF EnvelopeKinds
    <3> HIDE DEF p
    <3> QED BY <1>1, <3>1, NoPlaceIs
  <2>4. p <=> Number(segs[e].count) # TrailersIn(g + 1, e - 1, "UNT")
    <3>1. Len(ms) \in Nat /\ Len(mt) \in Nat
      BY <1>2, <2>2
    <3>2. held = TrailersIn(g + 1, e - 1, "UNT")
      <4>1. TrailersIn(g + 1, e - 1, "UNT") \in Int
        <5>1. IsFiniteSet(g+1..e-1)
          BY <1>1, FS_Interval
        <5>2. IsFiniteSet({k \in g+1..e-1 : segs[k].tag = "UNT"})
          BY <5>1, FS_Subset
        <5> QED BY <5>2, FS_CardinalityType DEF TrailersIn
      <4> QED BY <2>1, <3>1, <4>1
    <3> QED BY <3>2
  <2>5. TookGroup(gs, gt, g, e)
    BY <1>2, <1>6, Appended DEF TookGroup
  <2>6. gt \in Seq(Span)
    BY <2>5 DEF TookGroup
  <2> HIDE DEF gt, mt, m, p
  <2>7. r.errors \o m \in Seq(FaultSet) /\ (r.errors \o m = <<>> <=> r.errors = <<>> /\ m = <<>>)
    BY <2>2, <2>3, Joined
  <2>8. /\ y \in Extraction /\ ~y.fatal /\ y.unh = 0 /\ y.messages = mt /\ y.groups = gt /\ y.refs = r.refs
        /\ y.groupRefs = r.groupRefs /\ y.errors = r.errors \o m
    <3>1. y = [r EXCEPT !.errors = r.errors \o m, !.groups = gt]
      BY <1>5, <1>14, <2>1 DEF gt
    <3> QED BY <1>12, <1>14, <2>1, <2>6, <2>7, <3>1 DEF Extraction, mt
  <2>9. Grouped(mt, gt, e)
    BY <1>2, <1>3, <2>1, <2>2, <2>5, GroupedGrows
  <2>10. /\ RefsOf(gt) = RefsOf(gs) \cup {segs[g].ref}
         /\ CleanGroups(gt) <=>
              CleanGroups(gs) /\ CleanGroup(g, e) /\ segs[g].ref \notin RefsOf(gs)
                /\ Number(segs[e].count) = TrailersIn(g + 1, e - 1, "UNT")
    BY <1>2, <2>5, CleanGroupsGrow
  <2>11. CleanFrom(mt, 0) <=> CleanFrom(ms, 0) /\ CleanFrom(mt, Len(ms))
    <3>1. Len(ms) \in Nat /\ Len(mt) \in Nat
      BY <1>2, <2>2
    <3>2. \A k \in 1..Len(ms) : CleanAt(mt, k) <=> CleanAt(ms, k)
      <4> SUFFICES ASSUME NEW k \in 1..Len(ms) PROVE CleanAt(mt, k) <=> CleanAt(ms, k)
        OBVIOUS
      <4>1. mt[k] = ms[k] /\ \A j \in 1..k-1 : mt[j] = ms[j]
        BY <2>1, <3>1
      <4> QED BY <4>1 DEF CleanAt
    <3>3. \A k : k \in 0+1..Len(mt) <=> k \in 0+1..Len(ms) \/ k \in Len(ms)+1..Len(mt)
      BY <2>1, <3>1
    <3> QED BY <3>2, <3>3 DEF CleanFrom
  <2>12. y.errors = <<>> <=> s0.errors = <<>> /\ CleanFrom(mt, 0) /\ CleanGroups(gt)
    BY <1>3, <1>4, <1>8, <2>1, <2>3, <2>4, <2>7, <2>8, <2>10, <2>11
  <2>13. Len(gt) = TrailersIn(2, e, "UNE")
    <3> DEFINE P(j) == {k \in 2..j : segs[k].tag = "UNE"}
    <3>1. P(e) = P(g - 1) \cup {e} /\ e \notin P(g - 1)
      <4>1. \A k : k \in 2..e <=> k \in 2..g-1 \/ k = g \/ k \in g+1..e-1 \/ k = e
        BY <1>1
      <4>2. e \notin 2..g-1
        BY <1>1
      <4> QED BY <4>1, <4>2
    <3>2. IsFiniteSet(P(g - 1))
      <4>1. IsFiniteSet(2..g-1)
        BY <1>1, FS_Interval
      <4> QED BY <4>1, FS_Subset
    <3>3. Cardinality(P(e)) = Cardinality(P(g - 1)) + 1
      <4> HIDE DEF P
      <4> QED BY <3>1, <3>2, FS_AddElement
    <3> QED BY <1>3, <2>5, <3>3 DEF TookGroup, TrailersIn
  <2>14. y.groupRefs = RefsOf(gt)
    BY <1>3, <1>7, <2>1, <2>8, <2>10
  <2>15. GroupsInv(e, s0, y)
    BY <2>1, <2>8, <2>9, <2>12, <2>13, <2>14 DEF GroupsInv
  <2> QED BY <2>8, <2>15
<1> QED BY <1>13, <1>14

LEMMA NextMarkIs ==
  ASSUME TypeOK, NEW from \in Nat, NEW to \in Nat, NEW mark, mark = NextGroupMark(segs, from, to)
  PROVE  \/ mark = 0 /\ \A j \in from..to : segs[j].tag \notin {"UNE", "UNG"}
         \/ /\ mark \in from..to /\ segs[mark].tag \in {"UNE", "UNG"}
            /\ \A j \in from..mark-1 : segs[j].tag \notin {"UNE", "UNG"}
<1> DEFINE marks == {i \in from..to : segs[i].tag \in {"UNE", "UNG"}}
<1>1. CASE marks = {}
  BY <1>1 DEF NextGroupMark
<1>2. CASE marks # {}
  <2>1. marks \subseteq Nat
    OBVIOUS
  <2>2. \E m \in marks : \A q \in marks : m <= q
    BY <1>2, <2>1, LeastOne
  <2>3. mark \in marks /\ \A q \in marks : mark <= q
    BY <1>2, <2>2 DEF NextGroupMark
  <2>4. ASSUME NEW j \in from..mark-1
        PROVE  segs[j].tag \notin {"UNE", "UNG"}
    <3>1. j \in from..to /\ ~(mark <= j)
      BY <2>1, <2>3
    <3>2. j \notin marks
      BY <2>3, <3>1
    <3> QED BY <3>1, <3>2
  <2> QED BY <2>3, <2>4
<1> QED BY <1>1, <1>2

(* No group holds the tag of another, and no message the tag of a group. *)
LEMMA WithinAGroup ==
  ASSUME TypeOK, NEW a \in 1..Len(segs), NEW b \in 1..Len(segs), GoodGroup(a, b)
  PROVE  /\ a < b /\ segs[a].tag = "UNG" /\ segs[b].tag = "UNE"
         /\ \A j \in a+1..b-1 : segs[j].tag \notin {"UNG", "UNE"}
<1>1. /\ a < b /\ segs[a].tag = "UNG" /\ segs[b].tag = "UNE" /\ AllMessages(a + 1, b - 1)
  BY DEF GoodGroup, Closes
<1>2. ASSUME NEW j \in a+1..b-1
      PROVE  segs[j].tag \notin {"UNG", "UNE"}
  <2>1. PICK f, e \in a+1..b-1 : f <= j /\ j <= e /\ GoodMessage(f, e)
    BY <1>1 DEF AllMessages
  <2>2. f \in 1..Len(segs) /\ e \in 1..Len(segs) /\ j \in f..e
    BY <2>1, SegmentsAre
  <2> QED BY <2>1, <2>2, WithinAMessage DEF ServiceTags
<1> QED BY <1>1, <1>2

LEMMA InnerTags ==
  ASSUME TypeOK, NEW i \in Nat, NEW ms, NEW gs, Grouped(ms, gs, i), NEW k \in 1..Len(gs),
         NEW j \in gs[k].first+1..gs[k].end-1
  PROVE  segs[j].tag \in ServiceTags => segs[j].tag \in {"UNH", "UNT"}
<1>1. GroupOf(ms, gs[k].first, gs[k].end)
  BY DEF Grouped
<1>2. PICK l \in 1..Len(ms) : j \in ms[l].first..ms[l].end
  BY <1>1 DEF GroupOf
<1>3. ms[l].first \in 2..i /\ ms[l].end \in 2..i /\ IsMessage(ms[l].first, ms[l].end)
  BY DEF Grouped
<1>4. j = ms[l].first \/ j = ms[l].end \/ j \in ms[l].first+1..ms[l].end-1
  BY <1>2, <1>3
<1> QED BY <1>3, <1>4 DEF IsMessage

(* One turn of the loop over groups.                                       *)
LEMMA GroupTurns ==
  ASSUME TypeOK, NEW s0, NEW to \in Nat, to <= Len(segs), NEW i \in 2..to, NEW s \in Extraction, ~s.fatal,
         GroupsInv(i - 1, s0, s),
         NEW x, x.i = i, x.s = s, NEW y, y = GroupTurn(segs, to, x)
  PROVE  /\ y.s \in Extraction
         /\ ~y.s.fatal => y.i \in i+2..to+1
         /\ GroupsInv(y.i - 1, s0, y.s)
         /\ (\E a, b \in 2..to : a <= i /\ i <= b /\ GoodGroup(a, b)) => ~y.s.fatal
<1> DEFINE mark == NextGroupMark(segs, i + 1, to)
           Good == \E a, b \in 2..to : a <= i /\ i <= b /\ GoodGroup(a, b)
           Stop(f) == [i |-> i, s |-> Abort(s, f)]
<1>1. /\ i \in Nat /\ i >= 2 /\ i <= to /\ Len(segs) \in Nat /\ i \in 1..Len(segs) /\ i \in 2..Len(segs)
      /\ 2..to \subseteq 1..Len(segs)
  BY SegmentsAre
<1>2. \/ mark = 0 /\ \A j \in i+1..to : segs[j].tag \notin {"UNE", "UNG"}
      \/ /\ mark \in i+1..to /\ segs[mark].tag \in {"UNE", "UNG"}
         /\ \A j \in i+1..mark-1 : segs[j].tag \notin {"UNE", "UNG"}
  BY <1>1, NextMarkIs
<1>3. CASE segs[i].tag = "UNG" /\ mark # 0 /\ segs[mark].tag = "UNE"
  <2>1. y = [i |-> mark + 1, s |-> ReadGroup(segs, s, i, mark)]
    BY <1>1, <1>3 DEF GroupTurn
  <2> DEFINE r == ReadGroup(segs, s, i, mark)
  <2> HIDE DEF r, mark
  <2>2. mark \in i+1..Len(segs) /\ mark \in Nat /\ \A j \in i+1..mark-1 : segs[j].tag # "UNE"
    BY <1>1, <1>2, <1>3
  <2>3. /\ GroupsInv(mark, s0, r)
        /\ AllMessages(i + 1, mark - 1) => ~r.fatal
    BY <1>1, <1>3, <2>2, GroupIsRead DEF r
  <2>4. y.i = mark + 1 /\ y.s = r
    BY <2>1 DEF r
  <2>5. y.i - 1 = mark /\ y.i \in i+2..to+1
    BY <1>1, <1>2, <1>3, <2>4
  <2>6. Good => ~r.fatal
    <3> SUFFICES ASSUME Good PROVE ~r.fatal
      OBVIOUS
    <3>1. PICK a, b \in 2..to : a <= i /\ i <= b /\ GoodGroup(a, b)
      OBVIOUS
    <3>2. /\ a < b /\ segs[a].tag = "UNG" /\ segs[b].tag = "UNE"
          /\ \A j \in a+1..b-1 : segs[j].tag \notin {"UNG", "UNE"}
      BY <1>1, <3>1, WithinAGroup
    <3>3. i = a
      BY <1>1, <1>3, <3>1, <3>2
    <3>4. mark = b
      BY <1>1, <1>2, <1>3, <3>1, <3>2, <3>3
    <3> QED BY <2>3, <3>1, <3>3, <3>4 DEF GoodGroup
  <2> QED BY <2>3, <2>4, <2>5, <2>6 DEF GroupsInv
<1>4. CASE ~(segs[i].tag = "UNG" /\ mark # 0 /\ segs[mark].tag = "UNE")
  <2>1. \/ y = Stop(MissingSegment("UNE"))
        \/ y = Stop(At("InvalidSegmentForMessage", mark)) /\ mark # 0
        \/ y = Stop(At("GroupsAndMessagesMixed", i))
        \/ y = Stop(At("PackageNotSupported", i))
        \/ y = Stop(At("InvalidSegmentForMessage", i))
    BY <1>1, <1>2, <1>4 DEF GroupTurn
  <2>2. /\ MissingSegment("UNE") \in FaultSet /\ At("GroupsAndMessagesMixed", i) \in FaultSet
        /\ At("PackageNotSupported", i) \in FaultSet /\ At("InvalidSegmentForMessage", i) \in FaultSet
        /\ mark # 0 => At("InvalidSegmentForMessage", mark) \in FaultSet
    <3>1. mark # 0 => mark \in Nat
      BY <1>1, <1>2
    <3> HIDE DEF mark
    <3> QED BY <1>1, <3>1 DEF MissingSegment, At, Fault, FaultSet, EnvelopeKinds, NoSpan, Tags
  <2>3. \E f \in FaultSet : y = Stop(f)
    BY <2>1, <2>2
  <2>4. PICK f \in FaultSet : y = [i |-> i, s |-> Abort(s, f)]
    BY <2>3
  <2>5. y.s \in Extraction /\ y.s.fatal /\ y.s.errors # <<>>
    BY <2>4, AbortIs
  <2>6. GroupsInv(y.i - 1, s0, y.s)
    BY <2>5 DEF GroupsInv
  <2>7. ~Good
    <3> SUFFICES ASSUME Good PROVE FALSE
      OBVIOUS
    <3>1. PICK a, b \in 2..to : a <= i /\ i <= b /\ GoodGroup(a, b)
      OBVIOUS
    <3>2. /\ a < b /\ segs[a].tag = "UNG" /\ segs[b].tag = "UNE"
          /\ \A j \in a+1..b-1 : segs[j].tag \notin {"UNG", "UNE"}
      BY <1>1, <3>1, WithinAGroup
    <3> HIDE DEF mark
    <3>3. a = i
      <4> SUFFICES ASSUME a # i PROVE FALSE
        OBVIOUS
      <4>1. a \in 2..i-1 /\ Grouped(s.messages, s.groups, i - 1)
        BY <1>1, <3>1 DEF GroupsInv
      <4>2. PICK k \in 1..Len(s.groups) : a \in s.groups[k].first..s.groups[k].end
        BY <4>1 DEF Grouped
      <4> DEFINE opens == s.groups[k].first
                 closes == s.groups[k].end
      <4>3. opens \in 2..i-1 /\ closes \in 2..i-1 /\ opens < closes /\ segs[closes].tag = "UNE"
        BY <4>1, <4>2 DEF Grouped, GroupOf
      <4>4. a \notin opens+1..closes-1
        <5>1. i - 1 \in Nat
          BY <1>1
        <5> QED BY <3>2, <4>1, <5>1, InnerTags DEF ServiceTags
      <4>5. a \in opens..closes
        BY <4>2
      <4> HIDE DEF opens, closes
      <4>6. a # closes
        BY <3>2, <4>3
      <4>7. a = opens
        BY <4>3, <4>4, <4>5, <4>6
      <4>8. i \in Int /\ a \in Int /\ b \in Int /\ i <= b
        BY <1>1, <3>1
      <4>9. closes \in a+1..b-1
        BY <4>3, <4>7, <4>8
      <4> QED BY <3>2, <4>3, <4>9
    <3>4. mark = b
      BY <1>1, <1>2, <3>1, <3>2, <3>3
    <3> QED BY <1>1, <1>4, <3>1, <3>2, <3>3, <3>4
  <2> QED BY <2>5, <2>6, <2>7
<1> QED BY <1>3, <1>4

LEMMA GroupsStop ==
  ASSUME NEW to \in Int, NEW x, x.s.fatal \/ (x.i \in Int /\ x.i > to)
  PROVE  GroupTurn(segs, to, x) = x
<1>1. CASE x.s.fatal
  BY <1>1 DEF GroupTurn
<1>2. CASE x.i \in Int /\ x.i > to
  <2>1. ~(x.i <= to)
    BY <1>2
  <2> QED BY <1>2, <2>1 DEF GroupTurn
<1> QED BY <1>1, <1>2

(* Extraction starts with nothing read. *)
Fresh(s0) ==
  /\ s0 \in Extraction /\ ~s0.fatal /\ s0.unh = 0
  /\ s0.messages = <<>> /\ s0.groups = <<>> /\ s0.refs = {} /\ s0.groupRefs = {}

LEMMA GroupsStart ==
  ASSUME NEW s0, Fresh(s0)
  PROVE  GroupsInv(1, s0, s0)
<1>1. Len(<<>>) = 0
  OBVIOUS
<1>2. RefsOf(<<>>) = {}
  BY <1>1 DEF RefsOf
<1>3. Grouped(<<>>, <<>>, 1)
  BY <1>1 DEF Grouped
<1>4. CleanFrom(<<>>, 0) /\ CleanGroups(<<>>)
  BY <1>1 DEF CleanFrom, CleanGroups
<1>5. TrailersIn(2, 1, "UNE") = 0
  <2>1. {k \in 2..1 : segs[k].tag = "UNE"} = {}
    OBVIOUS
  <2> QED BY <2>1, FS_EmptySet DEF TrailersIn
<1> QED BY <1>1, <1>2, <1>3, <1>4, <1>5 DEF GroupsInv, Fresh

GroupsLoop(k, to, s0, x) ==
  /\ x.s \in Extraction /\ GroupsInv(x.i - 1, s0, x.s)
  /\ ~x.s.fatal => x.i \in 2..to+1 /\ (x.i > to \/ x.i >= k + 2)

AllGroups(to) == \A j \in 2..to : \E a, b \in 2..to : a <= j /\ j <= b /\ GoodGroup(a, b)

LEMMA GroupsAreRead ==
  ASSUME TypeOK, NEW s0, Fresh(s0), NEW to \in Nat, 2 <= to, to <= Len(segs)
  PROVE  LET y == ExtractGroups(segs, to, s0)
         IN  /\ y \in Extraction /\ GroupsInv(to, s0, y)
             /\ AllGroups(to) => ~y.fatal
<1> DEFINE x(k) == GroupsAfter(segs, to, s0)[k]
           F == {k \in 0..to : GroupsLoop(k, to, s0, x(k)) /\ (AllGroups(to) => ~x(k).s.fatal)}
<1>1. /\ x(0) = [i |-> 2, s |-> s0]
      /\ \A k \in 1..to : x(k) = GroupTurn(segs, to, x(k-1))
  BY GroupsStep
<1>2. 0 \in F
  <2>1. x(0).i = 2 /\ x(0).s = s0
    BY <1>1
  <2> HIDE DEF x
  <2>2. s0 \in Extraction /\ ~s0.fatal
    BY DEF Fresh
  <2>3. GroupsInv(x(0).i - 1, s0, x(0).s)
    BY <2>1, GroupsStart
  <2> QED BY <2>1, <2>2, <2>3 DEF GroupsLoop
<1>3. \A k \in 0+1..to : k-1 \in F => k \in F
  <2> SUFFICES ASSUME NEW k \in 1..to, GroupsLoop(k-1, to, s0, x(k-1)), AllGroups(to) => ~x(k-1).s.fatal
               PROVE  GroupsLoop(k, to, s0, x(k)) /\ (AllGroups(to) => ~x(k).s.fatal)
    OBVIOUS
  <2> DEFINE v == x(k-1)
             y == x(k)
  <2>1. y = GroupTurn(segs, to, v)
    BY <1>1
  <2>2. GroupsLoop(k-1, to, s0, v) /\ (AllGroups(to) => ~v.s.fatal)
    OBVIOUS
  <2> HIDE DEF x, v, y
  <2>3. CASE v.s.fatal \/ v.i > to
    <3>0. v.s.fatal \/ (v.i \in Int /\ v.i > to)
      BY <2>2, <2>3 DEF GroupsLoop
    <3>1. y = v
      BY <2>1, <3>0, GroupsStop
    <3> QED BY <2>2, <2>3, <3>1 DEF GroupsLoop, v, y
  <2>4. CASE ~(v.s.fatal \/ v.i > to)
    <3> DEFINE i == v.i
               s == v.s
    <3>1. i \in 2..to /\ i >= (k-1) + 2 /\ s \in Extraction /\ ~s.fatal /\ GroupsInv(i - 1, s0, s)
      BY <2>2, <2>4 DEF GroupsLoop
    <3>2. v.i = i /\ v.s = s
      OBVIOUS
    <3> HIDE DEF i, s
    <3>3. /\ y.s \in Extraction
          /\ ~y.s.fatal => y.i \in i+2..to+1
          /\ GroupsInv(y.i - 1, s0, y.s)
          /\ (\E a, b \in 2..to : a <= i /\ i <= b /\ GoodGroup(a, b)) => ~y.s.fatal
      BY <2>1, <3>1, <3>2, GroupTurns
    <3>4. AllGroups(to) => ~y.s.fatal
      BY <3>1, <3>3 DEF AllGroups
    <3>5. ~y.s.fatal => y.i \in 2..to+1 /\ y.i >= k + 2
      BY <3>1, <3>3
    <3> QED BY <3>3, <3>4, <3>5 DEF GroupsLoop, y
  <2> QED BY <2>3, <2>4
<1>4. \A k \in 0..to : k \in F
  <2>1. to \in Int /\ 0 \in Int
    OBVIOUS
  <2> HIDE DEF F
  <2> QED BY <1>2, <1>3, <2>1, UpTo, Zenon
<1>5. GroupsLoop(to, to, s0, x(to)) /\ (AllGroups(to) => ~x(to).s.fatal)
  BY <1>4
<1>6. ExtractGroups(segs, to, s0) = x(to).s
  BY DEF ExtractGroups
<1> HIDE DEF x
<1>7. x(to).s \in Extraction /\ GroupsInv(x(to).i - 1, s0, x(to).s)
      /\ (~x(to).s.fatal => x(to).i \in 2..to+1 /\ (x(to).i > to \/ x(to).i >= to + 2))
  BY <1>5 DEF GroupsLoop
<1>8. GroupsInv(to, s0, x(to).s)
  <2>1. CASE x(to).s.fatal
    BY <1>7, <2>1 DEF GroupsInv
  <2>2. CASE ~x(to).s.fatal
    <3>1. x(to).i - 1 = to
      BY <1>7, <2>2
    <3> QED BY <1>7, <3>1
  <2> QED BY <2>1, <2>2
<1> QED BY <1>5, <1>6, <1>7, <1>8

-----------------------------------------------------------------------------
(* The checks around the extraction.                                       *)
MiscountOf(m) == When(m.declared # m.end - m.first + 1, At("SegmentCountMismatch", m.end))

LEMMA MiscountsStep ==
  ASSUME NEW messages, Len(messages) \in Nat
  PROVE  /\ MiscountsAfter(messages)[0] = <<>>
         /\ \A k \in 1..Len(messages) :
              MiscountsAfter(messages)[k] = MiscountsAfter(messages)[k-1] \o MiscountOf(messages[k])
<1> DEFINE Turn(v, k) == v \o MiscountOf(messages[k])
           Is(f, n) == f = [k \in 0..n |-> IF k = 0 THEN <<>> ELSE Turn(f[k-1], k)]
<1>1. \E f : Is(f, 0)
  <2> DEFINE f == [k \in 0..0 |-> <<>>]
  <2>1. Is(f, 0)
    OBVIOUS
  <2> QED BY <2>1
<1>2. ASSUME NEW n \in Nat, n # 0, NEW f, Is(f, n-1)
      PROVE  \E g : Is(g, n)
  <2> HIDE DEF Turn
  <2> DEFINE g == [k \in 0..n |-> IF k = n THEN Turn(f[n-1], n) ELSE f[k]]
  <2>1. \A k \in 0..n-1 : g[k] = f[k]
    OBVIOUS
  <2>2. \A k \in 0..n : g[k] = IF k = 0 THEN <<>> ELSE Turn(g[k-1], k)
    BY <1>2, <2>1
  <2>3. Is(g, n)
    BY <2>2
  <2> QED BY <2>3
<1> DEFINE F == {n \in Nat : \E f : Is(f, n)}
<1>3. \A k \in 0+1..Len(messages) : k-1 \in F => k \in F
  <2> HIDE DEF Is
  <2> SUFFICES ASSUME NEW k \in 1..Len(messages), k-1 \in F PROVE k \in F
    OBVIOUS
  <2>1. PICK f : Is(f, k-1)
    OBVIOUS
  <2>2. \E g : Is(g, k)
    BY <1>2, <2>1
  <2> QED BY <2>2
<1>4. 0 \in F
  BY <1>1
<1>5. \A k \in 0..Len(messages) : k \in F
  <2>1. Len(messages) \in Int /\ 0 \in Int
    OBVIOUS
  <2> HIDE DEF F
  <2> QED BY <1>3, <1>4, <2>1, UpTo, Zenon
<1>6. \E f : Is(f, Len(messages))
  <2> HIDE DEF Is
  <2>1. Len(messages) \in F
    <3> HIDE DEF F
    <3> QED BY <1>5
  <2> QED BY <2>1
<1>7. MiscountsAfter(messages) = CHOOSE f : Is(f, Len(messages))
  BY DEF MiscountsAfter, MiscountOf
<1>8. Is(MiscountsAfter(messages), Len(messages))
  <2> HIDE DEF Is
  <2> QED BY <1>6, <1>7
<1> HIDE DEF Turn
<1>9. /\ MiscountsAfter(messages)[0] = <<>>
      /\ \A k \in 1..Len(messages) :
           MiscountsAfter(messages)[k] = Turn(MiscountsAfter(messages)[k-1], k)
  BY <1>8
<1> QED BY <1>9 DEF Turn

DeclaredRight(m) == m.declared = m.end - m.first + 1

LEMMA MiscountsAre ==
  ASSUME NEW ms, Len(ms) \in Nat, \A k \in 1..Len(ms) : ms[k].end \in Nat
  PROVE  /\ Miscounts(ms) \in Seq(FaultSet)
         /\ Miscounts(ms) = <<>> <=> \A k \in 1..Len(ms) : DeclaredRight(ms[k])
<1> DEFINE x(k) == MiscountsAfter(ms)[k]
           F == {k \in 0..Len(ms) : /\ x(k) \in Seq(FaultSet)
                                    /\ x(k) = <<>> <=> \A j \in 1..k : DeclaredRight(ms[j])}
<1>1. 0 \in F
  <2>1. x(0) = <<>>
    BY MiscountsStep
  <2>2. x(0) \in Seq(FaultSet) /\ x(0) = <<>>
    <3> HIDE DEF x
    <3>1. <<>> \in Seq(FaultSet)
      OBVIOUS
    <3> QED BY <2>1, <3>1
  <2>3. \A j \in 1..0 : DeclaredRight(ms[j])
    OBVIOUS
  <2> HIDE DEF x
  <2> QED BY <2>2, <2>3
<1>2. \A k \in 0+1..Len(ms) : k-1 \in F => k \in F
  <2> SUFFICES ASSUME NEW k \in 1..Len(ms), x(k-1) \in Seq(FaultSet),
                      x(k-1) = <<>> <=> \A j \in 1..k-1 : DeclaredRight(ms[j])
               PROVE  /\ x(k) \in Seq(FaultSet)
                      /\ x(k) = <<>> <=> \A j \in 1..k : DeclaredRight(ms[j])
    OBVIOUS
  <2> DEFINE p == ms[k].declared # ms[k].end - ms[k].first + 1
             m == When(p, At("SegmentCountMismatch", ms[k].end))
             v == x(k-1)
  <2>1. x(k) = v \o m
    BY MiscountsStep DEF MiscountOf
  <2>2. p <=> ~DeclaredRight(ms[k])
    BY DEF DeclaredRight
  <2>3. v \in Seq(FaultSet) /\ (v = <<>> <=> \A j \in 1..k-1 : DeclaredRight(ms[j]))
    OBVIOUS
  <2> HIDE DEF p, x, v
  <2>4. m \in Seq(FaultSet) /\ (m = <<>> <=> ~p)
    <3>1. "SegmentCountMismatch" \in EnvelopeKinds /\ ms[k].end \in Nat
      BY DEF EnvelopeKinds
    <3> QED BY <3>1, AtIs
  <2> HIDE DEF m
  <2>5. v \o m \in Seq(FaultSet) /\ (v \o m = <<>> <=> v = <<>> /\ m = <<>>)
    BY <2>3, <2>4, Joined
  <2>6. \A j : j \in 1..k <=> j \in 1..k-1 \/ j = k
    OBVIOUS
  <2> QED BY <2>1, <2>2, <2>3, <2>4, <2>5, <2>6
<1>3. \A k \in 0..Len(ms) : k \in F
  <2>1. Len(ms) \in Int /\ 0 \in Int
    OBVIOUS
  <2> HIDE DEF F
  <2> QED BY <1>1, <1>2, <2>1, UpTo, Zenon
<1>4. Len(ms) \in F
  BY <1>3
<1> QED BY <1>4 DEF Miscounts

CleanInterchange ==
  LET z == Len(segs)
  IN  /\ segs[1].whole /\ segs[1].ref # NoRef /\ segs[1].syntax = Resolved
      /\ segs[z].ref # NoRef /\ segs[z].ref = segs[1].ref
      /\ segs[z].count \in Nat

LEMMA InterchangeFaultsAre ==
  ASSUME TypeOK, Len(segs) >= 2
  PROVE  /\ InterchangeFaults(segs) \in Seq(FaultSet)
         /\ InterchangeFaults(segs) = <<>> <=> CleanInterchange
<1> DEFINE z == Len(segs)
           o == segs[1].syntax \in SyntaxFaults
           p == ~segs[1].whole
           q == segs[1].ref = NoRef
           x == When(o, NoPlace(segs[1].syntax, 1))
           a == When(p, Missing("UNB", 3, 1))
           b == When(q, Missing("UNB", 6, 1))
           c == ReferenceFaults(segs, 1, z)
           d == CountFaults(segs, z)
<1>1. z \in 1..Len(segs) /\ 1 \in 1..Len(segs) /\ "UNB" \in Tags /\ segs[1].whole \in BOOLEAN
  BY SegmentsAre DEF Tags
<1>2. InterchangeFaults(segs) = x \o a \o b \o c \o d
  BY DEF InterchangeFaults
<1>0. (segs[1].syntax = Resolved <=> ~o)
  BY <1>1, SegmentsAre DEF SyntaxFaults, Resolved
<1>3. CleanInterchange <=> /\ ~o /\ ~p /\ ~q /\ segs[z].ref # NoRef /\ segs[z].ref = segs[1].ref
                           /\ segs[z].count \in Nat
  BY <1>0, <1>1 DEF CleanInterchange
<1>4. c \in Seq(FaultSet) /\ (c = <<>> <=> segs[z].ref # NoRef /\ segs[z].ref = segs[1].ref)
  BY <1>1, ReferenceFaultsAre
<1>5. d \in Seq(FaultSet) /\ (d = <<>> <=> segs[z].count \in Nat)
  BY <1>1, CountFaultsAre
<1> DEFINE one == 1
<1>6. one \in Nat /\ a = When(p, Missing("UNB", 3, one)) /\ b = When(q, Missing("UNB", 6, one))
  OBVIOUS
<1>13. x \in Seq(FaultSet) /\ (x = <<>> <=> ~o)
  <2>1. CASE o
    <3>1. segs[1].syntax \in EnvelopeKinds
      BY <2>1 DEF EnvelopeKinds
    <3> QED BY <1>6, <3>1, NoPlaceIs
  <2>2. CASE ~o
    BY <2>2 DEF When
  <2> QED BY <2>1, <2>2
<1> HIDE DEF o, p, q, c, d, x, a, b, one
<1>7. a \in Seq(FaultSet) /\ (a = <<>> <=> ~p)
  BY <1>1, <1>6, ThirdIsMissing
<1>8. b \in Seq(FaultSet) /\ (b = <<>> <=> ~q)
  BY <1>1, <1>6, SixthIsMissing
<1> DEFINE xa == x \o a
           ab == xa \o b
           abc == ab \o c
<1>14. xa \in Seq(FaultSet) /\ (xa = <<>> <=> x = <<>> /\ a = <<>>)
  BY <1>7, <1>13, Joined
<1> HIDE DEF xa
<1>9. ab \in Seq(FaultSet) /\ (ab = <<>> <=> xa = <<>> /\ b = <<>>)
  BY <1>14, <1>8, Joined
<1> HIDE DEF ab
<1>10. abc \in Seq(FaultSet) /\ (abc = <<>> <=> ab = <<>> /\ c = <<>>)
  BY <1>4, <1>9, Joined
<1> HIDE DEF abc
<1>11. abc \o d \in Seq(FaultSet) /\ (abc \o d = <<>> <=> abc = <<>> /\ d = <<>>)
  BY <1>5, <1>10, Joined
<1>12. InterchangeFaults(segs) = abc \o d
  BY <1>2 DEF xa, ab, abc
<1> QED BY <1>3, <1>4, <1>5, <1>7, <1>8, <1>9, <1>10, <1>11, <1>12, <1>13, <1>14

Units(s) == IF s.groups = <<>> THEN Len(s.messages) ELSE Len(s.groups)

LEMMA Concluded ==
  ASSUME TypeOK, Len(segs) >= 2, NEW s \in Extraction, ~s.fatal,
         \A k \in 1..Len(s.messages) : s.messages[k].end \in Nat,
         NEW y, y = Conclude(segs, s)
  PROVE  /\ ~y.fatal /\ y.messages = s.messages /\ y.groups = s.groups
         /\ y.errors = <<>> <=>
              /\ s.errors = <<>>
              /\ ~(s.groups = <<>> /\ s.messages = <<>>)
              /\ Number(segs[Len(segs)].count) = Units(s)
              /\ \A k \in 1..Len(s.messages) : DeclaredRight(s.messages[k])
<1> DEFINE z == Len(segs)
           p == s.groups = <<>> /\ s.messages = <<>>
           q == Number(segs[z].count) # Units(s)
           a == When(p, NoPlace("EmptyInterchange", 0))
           b == When(q, NoPlace("MessageCountMismatch", z))
           c == Miscounts(s.messages)
<1>1. s.errors \in Seq(FaultSet) /\ s.messages \in Seq(MessageSpan)
  BY ExtractionFields
<1>2. Len(s.messages) \in Nat /\ z \in Nat
  BY <1>1, SegmentsAre
<1>3. y = [s EXCEPT !.errors = @ \o (a \o b \o c)]
  BY DEF Conclude, Note, Units
<1>4. c \in Seq(FaultSet) /\ (c = <<>> <=> \A k \in 1..Len(s.messages) : DeclaredRight(s.messages[k]))
  BY <1>2, MiscountsAre
<1> DEFINE none == 0
<1>5. none \in Nat /\ a = When(p, NoPlace("EmptyInterchange", none))
  OBVIOUS
<1> HIDE DEF p, q, c, z, a, none
<1>6. "EmptyInterchange" \in EnvelopeKinds /\ "MessageCountMismatch" \in EnvelopeKinds
  BY DEF EnvelopeKinds
<1>7. a \in Seq(FaultSet) /\ (a = <<>> <=> ~p)
  BY <1>5, <1>6, NoPlaceIs
<1>8. b \in Seq(FaultSet) /\ (b = <<>> <=> ~q)
  BY <1>2, <1>6, NoPlaceIs
<1> HIDE DEF b
<1> DEFINE ab == a \o b
           abc == ab \o c
<1>9. ab \in Seq(FaultSet) /\ (ab = <<>> <=> a = <<>> /\ b = <<>>)
  BY <1>7, <1>8, Joined
<1> HIDE DEF ab
<1>10. abc \in Seq(FaultSet) /\ (abc = <<>> <=> ab = <<>> /\ c = <<>>)
  BY <1>4, <1>9, Joined
<1>11. y = [s EXCEPT !.errors = s.errors \o abc]
  BY <1>3 DEF ab
<1> HIDE DEF abc
<1>12. s.errors \o abc \in Seq(FaultSet) /\ (s.errors \o abc = <<>> <=> s.errors = <<>> /\ abc = <<>>)
  BY <1>1, <1>10, Joined
<1> DEFINE e == s.errors \o abc
<1> HIDE DEF e
<1>13. y.errors = e /\ y.fatal = s.fatal /\ y.messages = s.messages /\ y.groups = s.groups
  BY <1>11 DEF Extraction, e
<1>14. e = <<>> <=> s.errors = <<>> /\ abc = <<>>
  BY <1>12 DEF e
<1> QED BY <1>4, <1>7, <1>8, <1>9, <1>10, <1>13, <1>14 DEF p, q, z

(* An interchange with its header and its trailer. *)
Framed == Len(segs) >= 2 /\ segs[1].tag = "UNB" /\ segs[Len(segs)].tag = "UNZ"

FlatOutcome(v) ==
  LET z == Len(segs)
  IN  /\ v.groups = <<>> /\ v.messages \in Seq(MessageSpan)
      /\ Tiled(v.messages, 0, 2, z - 1)
      /\ v.errors = <<>> <=>
           /\ CleanInterchange /\ CleanFrom(v.messages, 0)
           /\ v.messages # <<>> /\ Number(segs[z].count) = TrailersIn(2, z - 1, "UNT")
           /\ \A k \in 1..Len(v.messages) : DeclaredRight(v.messages[k])

GroupOutcome(v) ==
  LET z == Len(segs)
  IN  /\ z > 2 /\ v.messages \in Seq(MessageSpan) /\ v.groups \in Seq(Span)
      /\ Grouped(v.messages, v.groups, z - 1)
      /\ v.errors = <<>> <=>
           /\ CleanInterchange /\ CleanFrom(v.messages, 0) /\ CleanGroups(v.groups)
           /\ Number(segs[z].count) = TrailersIn(2, z - 1, "UNE")
           /\ \A k \in 1..Len(v.messages) : DeclaredRight(v.messages[k])

LEMMA FlatContent ==
  ASSUME TypeOK, Framed, NEW s0, Fresh(s0), NEW r, r = ExtractMessages(segs, 2, Len(segs) - 1, s0),
         s0.errors = <<>> <=> CleanInterchange
  PROVE  /\ r.fatal => r.errors # <<>>
         /\ ~r.fatal => ~Conclude(segs, r).fatal /\ FlatOutcome(Conclude(segs, r))
         /\ AllMessages(2, Len(segs) - 1) => ~r.fatal
<1> DEFINE z == Len(segs)
           y == Conclude(segs, r)
<1>1. /\ z \in Nat /\ z >= 2 /\ 2 \in 1..Len(segs) /\ z - 1 \in Nat /\ 2 - 1 <= z - 1 /\ z - 1 <= Len(segs)
  BY SegmentsAre DEF Framed
<1>2. /\ s0 \in Extraction /\ ~s0.fatal /\ s0.unh = 0 /\ s0.messages = <<>> /\ s0.groups = <<>>
      /\ s0.refs = RefsOf(s0.messages) /\ Len(s0.messages) = 0
  <2>1. Len(<<>>) = 0
    OBVIOUS
  <2>2. RefsOf(<<>>) = {}
    BY <2>1 DEF RefsOf
  <2> QED BY <2>1, <2>2 DEF Fresh
<1>3. ReadAll(2, z - 1, s0, r)
  BY <1>1, <1>2, MessagesAreRead
<1>4. AllMessages(2, z - 1) => ~r.fatal
  BY <1>1, <1>2, GoodMessagesAreRead
<1>5. r \in Extraction /\ (r.fatal => r.errors # <<>>)
  BY <1>3 DEF ReadAll
<1>6. ASSUME ~r.fatal PROVE ~y.fatal /\ FlatOutcome(y)
  <2>1. ReadUpTo(2, z - 1, s0, r) /\ r.unh = 0
    BY <1>3, <1>6 DEF ReadAll
  <2>2. r.messages \in Seq(MessageSpan) /\ Len(r.messages) \in Nat
    BY <1>5, ExtractionFields
  <2>3. /\ r.groups = <<>> /\ Tiled(r.messages, 0, 2, z - 1)
        /\ r.errors = <<>> <=> CleanInterchange /\ CleanFrom(r.messages, 0)
        /\ Len(r.messages) = 0 + TrailersIn(2, z - 1, "UNT")
    BY <1>2, <2>1 DEF ReadUpTo
  <2>4. \A k \in 1..Len(r.messages) : r.messages[k].end \in Nat
    <3>1. \A k \in 0+1..Len(r.messages) : r.messages[k].end \in 2..z-1
      BY <2>3 DEF Tiled
    <3> QED BY <3>1
  <2>5. /\ ~y.fatal /\ y.messages = r.messages /\ y.groups = r.groups
        /\ y.errors = <<>> <=>
              /\ r.errors = <<>>
              /\ ~(r.groups = <<>> /\ r.messages = <<>>)
              /\ Number(segs[Len(segs)].count) = Units(r)
              /\ \A k \in 1..Len(r.messages) : DeclaredRight(r.messages[k])
    BY <1>1, <1>5, <1>6, <2>4, Concluded
  <2>6. Units(r) = Len(r.messages)
    BY <2>3 DEF Units
  <2>7. Len(r.messages) = TrailersIn(2, z - 1, "UNT")
    <3>1. TrailersIn(2, z - 1, "UNT") \in Nat
      <4>1. IsFiniteSet(2..z-1)
        BY <1>1, FS_Interval
      <4>2. IsFiniteSet({k \in 2..z-1 : segs[k].tag = "UNT"})
        BY <4>1, FS_Subset
      <4> QED BY <4>2, FS_CardinalityType DEF TrailersIn
    <3> QED BY <2>3, <3>1
  <2>8. y.errors = <<>> <=>
           /\ CleanInterchange /\ CleanFrom(y.messages, 0)
           /\ y.messages # <<>> /\ Number(segs[z].count) = TrailersIn(2, z - 1, "UNT")
           /\ \A k \in 1..Len(y.messages) : DeclaredRight(y.messages[k])
    BY <2>3, <2>5, <2>6, <2>7
  <2>9. y.groups = <<>> /\ y.messages \in Seq(MessageSpan) /\ Tiled(y.messages, 0, 2, z - 1)
    BY <2>2, <2>3, <2>5
  <2> HIDE DEF y
  <2> QED BY <2>5, <2>8, <2>9 DEF FlatOutcome
<1> QED BY <1>4, <1>5, <1>6

LEMMA GroupContent ==
  ASSUME TypeOK, Framed, Len(segs) > 2, NEW s0, Fresh(s0), NEW r, r = ExtractGroups(segs, Len(segs) - 1, s0),
         s0.errors = <<>> <=> CleanInterchange
  PROVE  /\ r.fatal => r.errors # <<>>
         /\ ~r.fatal => ~Conclude(segs, r).fatal /\ GroupOutcome(Conclude(segs, r))
         /\ AllGroups(Len(segs) - 1) => ~r.fatal
<1> DEFINE z == Len(segs)
           y == Conclude(segs, r)
<1>1. z \in Nat /\ z > 2 /\ z - 1 \in Nat /\ 2 <= z - 1 /\ z - 1 <= Len(segs)
  BY SegmentsAre
<1>2. r \in Extraction /\ GroupsInv(z - 1, s0, r) /\ (AllGroups(z - 1) => ~r.fatal)
  BY <1>1, GroupsAreRead
<1>3. r.fatal => r.errors # <<>>
  BY <1>2 DEF GroupsInv
<1>4. ASSUME ~r.fatal PROVE ~y.fatal /\ GroupOutcome(y)
  <2>1. /\ Grouped(r.messages, r.groups, z - 1)
        /\ r.errors = <<>> <=> CleanInterchange /\ CleanFrom(r.messages, 0) /\ CleanGroups(r.groups)
        /\ Len(r.groups) = TrailersIn(2, z - 1, "UNE")
    BY <1>2, <1>4 DEF GroupsInv
  <2>2. r.messages \in Seq(MessageSpan) /\ Len(r.messages) \in Nat /\ r.groups \in Seq(Span)
    BY <1>2, ExtractionFields
  <2>3. \A k \in 1..Len(r.messages) : r.messages[k].end \in Nat
    <3>1. \A k \in 1..Len(r.messages) : r.messages[k].end \in 2..z-1
      BY <2>1 DEF Grouped
    <3> QED BY <3>1
  <2>4. /\ ~y.fatal /\ y.messages = r.messages /\ y.groups = r.groups
        /\ y.errors = <<>> <=>
              /\ r.errors = <<>>
              /\ ~(r.groups = <<>> /\ r.messages = <<>>)
              /\ Number(segs[Len(segs)].count) = Units(r)
              /\ \A k \in 1..Len(r.messages) : DeclaredRight(r.messages[k])
    BY <1>1, <1>2, <1>4, <2>3, Concluded
  <2>5. r.groups # <<>>
    <3>1. 2 \in 2..z-1
      BY <1>1
    <3>2. \E k \in 1..Len(r.groups) : 2 \in r.groups[k].first..r.groups[k].end
      BY <2>1, <3>1 DEF Grouped
    <3>3. Len(<<>>) = 0
      OBVIOUS
    <3> QED BY <3>2, <3>3
  <2>6. Units(r) = Len(r.groups)
    BY <2>5 DEF Units
  <2>7. y.errors = <<>> <=>
           /\ CleanInterchange /\ CleanFrom(y.messages, 0) /\ CleanGroups(y.groups)
           /\ Number(segs[z].count) = TrailersIn(2, z - 1, "UNE")
           /\ \A k \in 1..Len(y.messages) : DeclaredRight(y.messages[k])
    BY <2>1, <2>4, <2>5, <2>6
  <2>8. /\ y.messages \in Seq(MessageSpan) /\ y.groups \in Seq(Span)
        /\ Grouped(y.messages, y.groups, z - 1)
    BY <2>1, <2>2, <2>4
  <2> HIDE DEF y
  <2> QED BY <1>1, <2>4, <2>7, <2>8 DEF GroupOutcome
<1> QED BY <1>2, <1>3, <1>4

(* What validation makes of an interchange.                                *)
LEMMA Validated ==
  ASSUME TypeOK, NEW v, v = Validate(segs)
  PROVE  /\ v.fatal => v.errors # <<>>
         /\ ~v.fatal => Framed /\ (FlatOutcome(v) \/ GroupOutcome(v))
         /\ ~v.fatal /\ Len(segs) > 2 /\ segs[2].tag # "UNG" => FlatOutcome(v)
         /\ ~v.fatal /\ Len(segs) > 2 /\ segs[2].tag = "UNG" => GroupOutcome(v)
         /\ Framed /\ Len(segs) > 2 /\ (AllMessages(2, Len(segs) - 1) \/ AllGroups(Len(segs) - 1)) => ~v.fatal
<1> DEFINE z == Len(segs)
           header == segs # <<>> /\ segs[1].tag = "UNB"
           trailer == segs # <<>> /\ segs[Len(segs)].tag = "UNZ"
           s0 == Note(Start, InterchangeFaults(segs))
           read == ExtractContent(segs, s0)
<1>1. /\ z \in Nat /\ (segs # <<>> <=> z # 0)
  <2>1. segs \in Seq(Segment)
    BY DEF TypeOK
  <2> QED BY <2>1
<1>2. header /\ trailer <=> Framed
  <2>1. header /\ trailer => z # 1
    OBVIOUS
  <2> QED BY <1>1, <2>1 DEF Framed
<1>3. /\ ~header => v = Abort(Start, MissingSegment("UNB"))
      /\ header /\ ~trailer => v = Abort(Start, MissingSegment("UNZ"))
      /\ header /\ trailer => v = IF read.fatal THEN read ELSE Conclude(segs, read)
  BY DEF Validate
<1>4. /\ read = IF z - 1 >= 2 /\ segs[2].tag = "UNG" THEN ExtractGroups(segs, z - 1, s0)
                ELSE ExtractMessages(segs, 2, z - 1, s0)
  BY DEF ExtractContent
<1> HIDE DEF header, trailer, read
<1>5. ASSUME ~Framed PROVE v.fatal /\ v.errors # <<>>
  <2>1. v = Abort(Start, MissingSegment("UNB")) \/ v = Abort(Start, MissingSegment("UNZ"))
    BY <1>2, <1>3, <1>5
  <2>2. Start \in Extraction
    BY DEF Start, Extraction
  <2>3. MissingSegment("UNB") \in FaultSet /\ MissingSegment("UNZ") \in FaultSet
    BY DEF MissingSegment, Fault, FaultSet, EnvelopeKinds, NoSpan, Tags
  <2> QED BY <2>1, <2>2, <2>3, AbortIs
<1>6. ASSUME Framed
      PROVE  Fresh(s0) /\ (s0.errors = <<>> <=> CleanInterchange)
  <2> DEFINE f == InterchangeFaults(segs)
  <2>1. f \in Seq(FaultSet) /\ (f = <<>> <=> CleanInterchange)
    BY <1>6, InterchangeFaultsAre DEF Framed
  <2> HIDE DEF f
  <2>2. <<>> \o f = f
    BY <2>1
  <2>3. s0 = [Start EXCEPT !.errors = f]
    <3>1. Start.errors = <<>>
      BY DEF Start
    <3>2. s0 = [Start EXCEPT !.errors = Start.errors \o f]
      BY DEF Note, f
    <3> QED BY <2>2, <3>1, <3>2
  <2> HIDE DEF s0
  <2>4. Fresh(s0)
    <3>1. Start \in Extraction
      BY DEF Start, Extraction
    <3>2. s0 \in Extraction
      BY <2>1, <2>3, <3>1 DEF Extraction
    <3>3. /\ ~s0.fatal /\ s0.unh = 0
          /\ s0.messages = <<>> /\ s0.groups = <<>> /\ s0.refs = {} /\ s0.groupRefs = {}
      BY <2>3 DEF Start
    <3> QED BY <3>2, <3>3 DEF Fresh
  <2>5. s0.errors = f
    BY <2>3 DEF Start
  <2> QED BY <2>1, <2>4, <2>5
<1> HIDE DEF s0
<1>7. CASE Framed /\ z > 2 /\ segs[2].tag = "UNG"
  <2>1. read = ExtractGroups(segs, z - 1, s0)
    BY <1>1, <1>4, <1>7
  <2>2. /\ read.fatal => read.errors # <<>>
        /\ ~read.fatal => ~Conclude(segs, read).fatal /\ GroupOutcome(Conclude(segs, read))
        /\ AllGroups(z - 1) => ~read.fatal
    BY <1>6, <1>7, <2>1, GroupContent
  <2>3. ~AllMessages(2, z - 1)
    <3> SUFFICES ASSUME AllMessages(2, z - 1) PROVE FALSE
      OBVIOUS
    <3>1. 2 \in 2..z-1
      BY <1>1, <1>7
    <3>2. PICK a, b \in 2..z-1 : a <= 2 /\ 2 <= b /\ GoodMessage(a, b)
      BY <3>1 DEF AllMessages
    <3>3. a = 2
      BY <3>2
    <3> QED BY <1>7, <3>2, <3>3 DEF GoodMessage, Closes
  <2> QED BY <1>2, <1>3, <1>7, <2>2, <2>3
<1>8. CASE Framed /\ ~(z > 2 /\ segs[2].tag = "UNG")
  <2>1. read = ExtractMessages(segs, 2, z - 1, s0)
    BY <1>1, <1>4, <1>8
  <2>2. /\ read.fatal => read.errors # <<>>
        /\ ~read.fatal => ~Conclude(segs, read).fatal /\ FlatOutcome(Conclude(segs, read))
        /\ AllMessages(2, z - 1) => ~read.fatal
    BY <1>6, <1>8, <2>1, FlatContent
  <2>3. z > 2 => ~AllGroups(z - 1)
    <3> SUFFICES ASSUME z > 2, AllGroups(z - 1) PROVE FALSE
      OBVIOUS
    <3>1. 2 \in 2..z-1
      BY <1>1
    <3>2. PICK a, b \in 2..z-1 : a <= 2 /\ 2 <= b /\ GoodGroup(a, b)
      BY <3>1 DEF AllGroups
    <3>3. a = 2
      BY <3>2
    <3> QED BY <1>8, <3>2, <3>3 DEF GoodGroup, Closes
  <2> QED BY <1>2, <1>3, <1>8, <2>2, <2>3
<1> QED BY <1>5, <1>7, <1>8

-----------------------------------------------------------------------------
(* Either way, each header has been read into a message or group of its    *)
(* own, which ends at the trailer that follows.                            *)
Outline(ms, gs) ==
  /\ Len(ms) \in Nat /\ Len(gs) \in Nat
  /\ \A k \in 1..Len(ms) :
       /\ ms[k].first \in 2..Len(segs)-1 /\ ms[k].end \in 2..Len(segs)-1
       /\ IsMessage(ms[k].first, ms[k].end)
       /\ ms[k].declared = Number(segs[ms[k].end].count)
  /\ \A k, l \in 1..Len(ms) : k < l => ms[k].end < ms[l].first
  /\ \A k \in 1..Len(gs) :
       /\ gs[k].first \in 2..Len(segs)-1 /\ gs[k].end \in 2..Len(segs)-1 /\ gs[k].first < gs[k].end
       /\ segs[gs[k].first].tag = "UNG" /\ segs[gs[k].end].tag = "UNE"
       /\ \A j \in gs[k].first+1..gs[k].end-1 :
            segs[j].tag \in ServiceTags => segs[j].tag \in {"UNH", "UNT"}
  /\ \A k, l \in 1..Len(gs) : k < l => gs[k].end < gs[l].first
  /\ \A j \in 1..Len(segs) : segs[j].tag = "UNH" => \E k \in 1..Len(ms) : ms[k].first = j
  /\ \A j \in 1..Len(segs) : segs[j].tag = "UNG" => \E k \in 1..Len(gs) : gs[k].first = j

LEMMA WithinIsMessage ==
  ASSUME NEW f \in Int, NEW e \in Int, IsMessage(f, e), NEW j \in f..e
  PROVE  /\ segs[j].tag \in ServiceTags => segs[j].tag \in {"UNH", "UNT"}
         /\ segs[j].tag = "UNH" => j = f
<1>1. j = f \/ j = e \/ j \in f+1..e-1
  OBVIOUS
<1> QED BY <1>1 DEF IsMessage, ServiceTags

LEMMA FlatOutline ==
  ASSUME TypeOK, Framed, NEW v, FlatOutcome(v)
  PROVE  Outline(v.messages, v.groups)
<1> DEFINE ms == v.messages
           z == Len(segs)
<1>1. /\ v.groups = <<>> /\ ms \in Seq(MessageSpan) /\ Tiled(ms, 0, 2, z - 1)
      /\ Len(ms) \in Nat /\ Len(<<>>) = 0 /\ z \in Nat /\ z >= 2
  BY SegmentsAre DEF FlatOutcome, Framed
<1> HIDE DEF ms
<1>2. /\ \A k \in 1..Len(ms) :
           /\ ms[k].first \in 2..z-1 /\ ms[k].end \in 2..z-1
           /\ IsMessage(ms[k].first, ms[k].end)
           /\ ms[k].declared = Number(segs[ms[k].end].count)
      /\ \A k, l \in 1..Len(ms) : k < l => ms[k].end < ms[l].first
      /\ \A j \in 2..z-1 : \E k \in 1..Len(ms) : j \in ms[k].first..ms[k].end
  <2>1. 0 + 1 = 1
    OBVIOUS
  <2> QED BY <1>1, <2>1 DEF Tiled
<1>3. \A j \in 1..z : j = 1 \/ j = z \/ j \in 2..z-1
  BY <1>1
<1>4. ASSUME NEW j \in 1..z, segs[j].tag \in {"UNH", "UNG"}
      PROVE  \E k \in 1..Len(ms) : ms[k].first = j /\ segs[j].tag = "UNH"
  <2>1. j \in 2..z-1
    BY <1>3, <1>4 DEF Framed
  <2>2. PICK k \in 1..Len(ms) : j \in ms[k].first..ms[k].end
    BY <1>2, <2>1
  <2>3. ms[k].first \in Int /\ ms[k].end \in Int /\ IsMessage(ms[k].first, ms[k].end)
    BY <1>2
  <2> QED BY <1>4, <2>2, <2>3, WithinIsMessage DEF ServiceTags
<1>5. /\ \A j \in 1..z : segs[j].tag = "UNH" => \E k \in 1..Len(ms) : ms[k].first = j
      /\ \A j \in 1..z : segs[j].tag # "UNG"
  BY <1>4
<1> DEFINE gs == <<>>
<1>6. Len(gs) = 0 /\ v.groups = gs
  BY <1>1
<1> HIDE DEF gs
<1>7. Outline(ms, gs)
  <2>1. \A k : k \notin 1..Len(gs)
    BY <1>6
  <2> QED BY <1>1, <1>2, <1>5, <1>6, <2>1 DEF Outline
<1> QED BY <1>6, <1>7 DEF ms

LEMMA GroupOutline ==
  ASSUME TypeOK, Framed, NEW v, GroupOutcome(v)
  PROVE  Outline(v.messages, v.groups)
<1> DEFINE ms == v.messages
           gs == v.groups
           z == Len(segs)
<1>1. /\ ms \in Seq(MessageSpan) /\ gs \in Seq(Span) /\ Grouped(ms, gs, z - 1)
      /\ Len(ms) \in Nat /\ Len(gs) \in Nat /\ z \in Nat /\ z > 2 /\ z - 1 \in Nat
  BY SegmentsAre DEF GroupOutcome
<1> HIDE DEF ms, gs
<1>2. /\ \A k \in 1..Len(ms) :
           /\ ms[k].first \in 2..z-1 /\ ms[k].end \in 2..z-1
           /\ IsMessage(ms[k].first, ms[k].end)
           /\ ms[k].declared = Number(segs[ms[k].end].count)
      /\ \A k, l \in 1..Len(ms) : k < l => ms[k].end < ms[l].first
      /\ \A k \in 1..Len(gs) :
           gs[k].first \in 2..z-1 /\ gs[k].end \in 2..z-1 /\ GroupOf(ms, gs[k].first, gs[k].end)
      /\ \A k, l \in 1..Len(gs) : k < l => gs[k].end < gs[l].first
      /\ \A j \in 2..z-1 : \E k \in 1..Len(gs) : j \in gs[k].first..gs[k].end
  BY <1>1 DEF Grouped
<1>3. \A j \in 1..z : j = 1 \/ j = z \/ j \in 2..z-1
  BY <1>1
<1>4. ASSUME NEW k \in 1..Len(gs)
      PROVE  /\ gs[k].first < gs[k].end
             /\ segs[gs[k].first].tag = "UNG" /\ segs[gs[k].end].tag = "UNE"
             /\ \A j \in gs[k].first+1..gs[k].end-1 :
                  segs[j].tag \in ServiceTags => segs[j].tag \in {"UNH", "UNT"}
  <2>1. GroupOf(ms, gs[k].first, gs[k].end)
    BY <1>2
  <2>2. \A j \in gs[k].first+1..gs[k].end-1 :
          segs[j].tag \in ServiceTags => segs[j].tag \in {"UNH", "UNT"}
    BY <1>1, InnerTags
  <2> QED BY <2>1, <2>2 DEF GroupOf
<1>5. ASSUME NEW j \in 1..z, segs[j].tag \in {"UNH", "UNG"}
      PROVE  /\ segs[j].tag = "UNH" => \E k \in 1..Len(ms) : ms[k].first = j
             /\ segs[j].tag = "UNG" => \E k \in 1..Len(gs) : gs[k].first = j
  <2>1. j \in 2..z-1
    BY <1>3, <1>5 DEF Framed
  <2>2. PICK k \in 1..Len(gs) : j \in gs[k].first..gs[k].end
    BY <1>2, <2>1
  <2> DEFINE f == gs[k].first
             e == gs[k].end
  <2>3. f \in 2..z-1 /\ e \in 2..z-1 /\ GroupOf(ms, f, e) /\ j \in f..e
    BY <1>2, <2>2
  <2>4. \A i \in f+1..e-1 : segs[i].tag \in ServiceTags => segs[i].tag \in {"UNH", "UNT"}
    BY <1>4
  <2>5. f = gs[k].first
    OBVIOUS
  <2> HIDE DEF f, e
  <2>6. f < e /\ segs[f].tag = "UNG" /\ segs[e].tag = "UNE"
    BY <2>3 DEF GroupOf
  <2>7. j = f \/ j = e \/ j \in f+1..e-1
    BY <2>3, <2>6
  <2>8. CASE j = f
    BY <2>5, <2>6, <2>8
  <2>9. CASE j \in f+1..e-1
    <3>1. segs[j].tag = "UNH"
      BY <1>5, <2>4, <2>9 DEF ServiceTags
    <3>2. PICK l \in 1..Len(ms) : j \in ms[l].first..ms[l].end
      BY <2>3, <2>9 DEF GroupOf
    <3>3. ms[l].first \in Int /\ ms[l].end \in Int /\ IsMessage(ms[l].first, ms[l].end)
      BY <1>2
    <3>4. ms[l].first = j
      BY <3>1, <3>2, <3>3, WithinIsMessage
    <3> QED BY <3>1, <3>4
  <2>10. j # e
    BY <1>5, <2>6
  <2> QED BY <2>7, <2>8, <2>9, <2>10
<1> QED BY <1>1, <1>2, <1>4, <1>5 DEF Outline, ms, gs

LEMMA Outlined ==
  ASSUME TypeOK, ~Validate(segs).fatal
  PROVE  LET v == Validate(segs)
         IN  /\ Framed /\ (FlatOutcome(v) \/ GroupOutcome(v))
             /\ Outline(v.messages, v.groups)
<1> DEFINE v == Validate(segs)
<1>1. v = Validate(segs) /\ ~v.fatal
  OBVIOUS
<1> HIDE DEF v
<1>2. Framed /\ (FlatOutcome(v) \/ GroupOutcome(v))
  BY <1>1, Validated
<1>3. Outline(v.messages, v.groups)
  BY <1>2, FlatOutline, GroupOutline
<1> QED BY <1>2, <1>3 DEF v

-----------------------------------------------------------------------------
(* No component of a UNG is missing that the code requires.                *)
GroupsWhole == \A i \in DOMAIN segs : segs[i].tag = "UNG" => segs[i].whole

LEMMA TrailersAreNumbers ==
  ASSUME NEW from \in Int, NEW to \in Int, NEW tag
  PROVE  TrailersIn(from, to, tag) \in Nat
<1>1. IsFiniteSet(from..to)
  BY FS_Interval
<1>2. IsFiniteSet({k \in from..to : segs[k].tag = tag})
  BY <1>1, FS_Subset
<1> QED BY <1>2, FS_CardinalityType DEF TrailersIn

(* Clean messages are good ones with references of their own.              *)
LEMMA CleanAreGood ==
  ASSUME TypeOK, NEW ms, NEW gs, Outline(ms, gs)
  PROVE  CleanFrom(ms, 0) /\ (\A k \in 1..Len(ms) : DeclaredRight(ms[k]))
           <=> (\A k \in 1..Len(ms) : GoodMessage(ms[k].first, ms[k].end)) /\ UniqueRefs("UNH")
<1> DEFINE n == Len(ms)
           Good(k) == GoodMessage(ms[k].first, ms[k].end)
<1>0. DOMAIN segs = 1..Len(segs) /\ Len(segs) \in Nat /\ n \in Nat
  BY SegmentsAre DEF Outline
<1>1. /\ \A k \in 1..n :
           /\ ms[k].first \in 2..Len(segs)-1 /\ ms[k].end \in 2..Len(segs)-1
           /\ IsMessage(ms[k].first, ms[k].end)
           /\ ms[k].declared = Number(segs[ms[k].end].count)
      /\ \A k, l \in 1..n : k < l => ms[k].end < ms[l].first
      /\ \A j \in 1..Len(segs) : segs[j].tag = "UNH" => \E k \in 1..n : ms[k].first = j
  BY DEF Outline
<1>2. \A k \in 1..n : /\ ms[k].first \in Int /\ ms[k].end \in Int /\ ms[k].first < ms[k].end
                      /\ ms[k].first \in 1..Len(segs) /\ ms[k].end \in 1..Len(segs)
                      /\ segs[ms[k].first].tag = "UNH"
  BY <1>0, <1>1 DEF IsMessage
<1>3. ASSUME NEW k \in 1..n
      PROVE  Good(k) <=> CleanMessage(ms[k].first, ms[k].end) /\ DeclaredRight(ms[k])
  <2>1. GoodMessage(ms[k].first, ms[k].end) <=>
          /\ IsMessage(ms[k].first, ms[k].end) /\ CleanMessage(ms[k].first, ms[k].end)
          /\ Number(segs[ms[k].end].count) = ms[k].end - ms[k].first + 1
    <3> DEFINE f == ms[k].first
               e == ms[k].end
    <3>1. f \in 1..Len(segs) /\ e \in 1..Len(segs)
      BY <1>2
    <3> HIDE DEF f, e
    <3>2. GoodMessage(f, e) <=> IsMessage(f, e) /\ CleanMessage(f, e) /\ Number(segs[e].count) = e - f + 1
      BY <3>1, GoodIsClean
    <3> QED BY <3>2 DEF f, e
  <2> QED BY <1>1, <2>1 DEF DeclaredRight
<1> DEFINE Distinct == \A k \in 1..n : \A j \in 1..k-1 : segs[ms[j].first].ref # segs[ms[k].first].ref
<1>4. CleanFrom(ms, 0) <=> (\A k \in 1..n : CleanMessage(ms[k].first, ms[k].end)) /\ Distinct
  <2>1. 0 + 1 = 1
    OBVIOUS
  <2> QED BY <2>1 DEF CleanFrom, CleanAt
<1>5. Distinct => UniqueRefs("UNH")
  <2> SUFFICES ASSUME Distinct, NEW i \in 1..Len(segs), NEW j \in 1..Len(segs), i # j,
                      segs[i].tag = "UNH", segs[j].tag = "UNH"
               PROVE  segs[i].ref # segs[j].ref
    BY <1>0 DEF UniqueRefs
  <2>1. PICK k \in 1..n : ms[k].first = i
    BY <1>1
  <2>2. PICK l \in 1..n : ms[l].first = j
    BY <1>1
  <2>3. k < l \/ l < k
    BY <2>1, <2>2
  <2>4. k < l => k \in 1..l-1
    OBVIOUS
  <2>5. l < k => l \in 1..k-1
    OBVIOUS
  <2> QED BY <2>1, <2>2, <2>3, <2>4, <2>5
<1>6. UniqueRefs("UNH") => Distinct
  <2> SUFFICES ASSUME UniqueRefs("UNH"), NEW k \in 1..n, NEW j \in 1..k-1
               PROVE  segs[ms[j].first].ref # segs[ms[k].first].ref
    OBVIOUS
  <2>1. j \in 1..n /\ j # k /\ j < k
    BY <1>0
  <2>2. ms[j].first # ms[k].first
    BY <1>1, <1>2, <2>1
  <2> QED BY <1>0, <1>2, <2>1, <2>2 DEF UniqueRefs
<1> HIDE DEF Good, Distinct
<1>7. CleanFrom(ms, 0) /\ (\A k \in 1..n : DeclaredRight(ms[k])) <=> (\A k \in 1..n : Good(k)) /\ UniqueRefs("UNH")
  BY <1>3, <1>4, <1>5, <1>6
<1> QED BY <1>7 DEF Good

LEMMA GroupRefs ==
  ASSUME TypeOK, NEW ms, NEW gs, Outline(ms, gs)
  PROVE  (\A k \in 1..Len(gs) : \A j \in 1..k-1 : segs[gs[j].first].ref # segs[gs[k].first].ref)
           <=> UniqueRefs("UNG")
<1> DEFINE n == Len(gs)
           Distinct == \A k \in 1..n : \A j \in 1..k-1 : segs[gs[j].first].ref # segs[gs[k].first].ref
<1>0. DOMAIN segs = 1..Len(segs) /\ Len(segs) \in Nat /\ n \in Nat
  BY SegmentsAre DEF Outline
<1>1. /\ \A k \in 1..n :
           /\ gs[k].first \in 2..Len(segs)-1 /\ gs[k].end \in 2..Len(segs)-1
           /\ gs[k].first < gs[k].end /\ segs[gs[k].first].tag = "UNG"
      /\ \A k, l \in 1..n : k < l => gs[k].end < gs[l].first
      /\ \A j \in 1..Len(segs) : segs[j].tag = "UNG" => \E k \in 1..n : gs[k].first = j
  BY DEF Outline
<1>5. ASSUME Distinct PROVE UniqueRefs("UNG")
  <2> SUFFICES ASSUME NEW i \in 1..Len(segs), NEW j \in 1..Len(segs), i # j,
                      segs[i].tag = "UNG", segs[j].tag = "UNG"
               PROVE  segs[i].ref # segs[j].ref
    BY <1>0 DEF UniqueRefs
  <2>1. PICK k \in 1..n : gs[k].first = i
    BY <1>1
  <2>2. PICK l \in 1..n : gs[l].first = j
    BY <1>1
  <2>3. k < l \/ l < k
    BY <2>1, <2>2
  <2>4. k < l => k \in 1..l-1
    OBVIOUS
  <2>5. l < k => l \in 1..k-1
    OBVIOUS
  <2> QED BY <1>5, <2>1, <2>2, <2>3, <2>4, <2>5
<1>6. ASSUME UniqueRefs("UNG") PROVE Distinct
  <2> SUFFICES ASSUME NEW k \in 1..n, NEW j \in 1..k-1
               PROVE  segs[gs[j].first].ref # segs[gs[k].first].ref
    OBVIOUS
  <2>1. j \in 1..n /\ j # k /\ j < k
    BY <1>0
  <2>2. gs[j].first # gs[k].first
    BY <1>1, <2>1
  <2>3. /\ gs[j].first \in 1..Len(segs) /\ gs[k].first \in 1..Len(segs)
        /\ segs[gs[j].first].tag = "UNG" /\ segs[gs[k].first].tag = "UNG"
    BY <1>0, <1>1, <2>1
  <2> QED BY <1>0, <1>6, <2>2, <2>3 DEF UniqueRefs
<1> QED BY <1>5, <1>6

(* An interchange that nothing is noted about is correct. *)
LEMMA FlatIsGood ==
  ASSUME TypeOK, Framed, NEW v, FlatOutcome(v), v.errors = <<>>
  PROVE  GoodInterchange
<1> DEFINE ms == v.messages
           gs == v.groups
           z == Len(segs)
<1>1. /\ ms \in Seq(MessageSpan) /\ Tiled(ms, 0, 2, z - 1)
      /\ CleanInterchange /\ CleanFrom(ms, 0) /\ ms # <<>>
      /\ Number(segs[z].count) = TrailersIn(2, z - 1, "UNT")
      /\ \A k \in 1..Len(ms) : DeclaredRight(ms[k])
      /\ gs = <<>> /\ Outline(ms, gs)
  BY FlatOutline DEF FlatOutcome
<1> HIDE DEF ms
<1>2. /\ \A k \in 1..Len(ms) : GoodMessage(ms[k].first, ms[k].end)
      /\ UniqueRefs("UNH")
  BY <1>1, CleanAreGood
<1>3. UniqueRefs("UNG")
  <2>1. Len(gs) = 0
    BY <1>1
  <2> HIDE DEF gs
  <2> QED BY <1>1, <2>1, GroupRefs
<1>4. \A k \in 1..Len(ms) : ms[k].first \in 2..z-1 /\ ms[k].end \in 2..z-1
  BY <1>1 DEF Outline
<1>5. AllMessages(2, z - 1)
  <2> SUFFICES ASSUME NEW j \in 2..z-1
               PROVE  \E a, b \in 2..z-1 : a <= j /\ j <= b /\ GoodMessage(a, b)
    BY DEF AllMessages
  <2>1. \A k \in 0+1..Len(ms) : k \in 1..Len(ms)
    OBVIOUS
  <2>2. PICK k \in 1..Len(ms) : j \in ms[k].first..ms[k].end
    BY <1>1, <2>1 DEF Tiled
  <2>3. ms[k].first <= j /\ j <= ms[k].end
    BY <1>4, <2>2
  <2> QED BY <1>2, <1>4, <2>3
<1>6. z > 2 /\ z \in Nat
  <2>1. 1 \in 1..Len(ms)
    BY <1>1
  <2>2. ms[1].first \in 2..z-1 /\ z \in Nat
    BY <1>4, <2>1, SegmentsAre
  <2> QED BY <2>2
<1>7. Closes(1, z, "UNB", "UNZ")
  BY <1>1, <1>6 DEF Framed, CleanInterchange, Closes
<1>9. segs[1].syntax = Resolved
  BY <1>1 DEF CleanInterchange
<1>8. segs[z].count = TrailersIn(2, z - 1, "UNT")
  BY <1>1 DEF CleanInterchange, Number
<1> QED BY <1>2, <1>3, <1>5, <1>6, <1>7, <1>8, <1>9 DEF GoodInterchange

LEMMA GroupedIsGood ==
  ASSUME TypeOK, GroupsWhole, Framed, NEW v, GroupOutcome(v), v.errors = <<>>
  PROVE  GoodInterchange
<1> DEFINE ms == v.messages
           gs == v.groups
           z == Len(segs)
<1>1. /\ z > 2 /\ Grouped(ms, gs, z - 1)
      /\ CleanInterchange /\ CleanFrom(ms, 0) /\ CleanGroups(gs)
      /\ Number(segs[z].count) = TrailersIn(2, z - 1, "UNE")
      /\ \A k \in 1..Len(ms) : DeclaredRight(ms[k])
      /\ Outline(ms, gs)
      /\ z \in Nat /\ DOMAIN segs = 1..z
  BY GroupOutline, SegmentsAre DEF GroupOutcome
<1> HIDE DEF ms, gs
<1>2. /\ \A k \in 1..Len(ms) : GoodMessage(ms[k].first, ms[k].end)
      /\ UniqueRefs("UNH")
  BY <1>1, CleanAreGood
<1>3. UniqueRefs("UNG")
  <2>1. \A k \in 1..Len(gs) : \A j \in 1..k-1 : segs[gs[j].first].ref # segs[gs[k].first].ref
    BY <1>1 DEF CleanGroups, CleanGroupAt
  <2> QED BY <1>1, <2>1, GroupRefs
<1>4. /\ \A k \in 1..Len(ms) : ms[k].first \in Int /\ ms[k].end \in Int
      /\ \A k \in 1..Len(gs) : /\ gs[k].first \in 2..z-1 /\ gs[k].end \in 2..z-1
                               /\ GroupOf(ms, gs[k].first, gs[k].end)
      /\ \A j \in 2..z-1 : \E k \in 1..Len(gs) : j \in gs[k].first..gs[k].end
  <2> HIDE DEF z
  <2>1. Grouped(ms, gs, z - 1)
    BY <1>1
  <2>2. \A k \in 1..Len(ms) : ms[k].first \in Int /\ ms[k].end \in Int
    <3>1. \A k \in 1..Len(ms) : ms[k].first \in 2..z-1 /\ ms[k].end \in 2..z-1
      BY <2>1 DEF Grouped
    <3> QED BY <3>1
  <2>3. \A k \in 1..Len(gs) : gs[k].first \in 2..z-1 /\ gs[k].end \in 2..z-1
                               /\ GroupOf(ms, gs[k].first, gs[k].end)
    BY <2>1, Zenon DEF Grouped
  <2>4. \A j \in 2..z-1 : \E k \in 1..Len(gs) : j \in gs[k].first..gs[k].end
    BY <2>1, Zenon DEF Grouped
  <2> QED BY <2>2, <2>3, <2>4
<1>5. ASSUME NEW k \in 1..Len(gs)
      PROVE  GoodGroup(gs[k].first, gs[k].end)
  <2> DEFINE f == gs[k].first
             e == gs[k].end
  <2>1. f \in 2..z-1 /\ e \in 2..z-1 /\ GroupOf(ms, f, e)
    BY <1>4
  <2>2. CleanGroup(f, e) /\ Number(segs[e].count) = TrailersIn(f + 1, e - 1, "UNT")
    BY <1>1 DEF CleanGroups, CleanGroupAt
  <2> HIDE DEF f, e
  <2>3. f < e /\ segs[f].tag = "UNG" /\ segs[e].tag = "UNE" /\ f \in DOMAIN segs
    BY <1>1, <2>1 DEF GroupOf
  <2>4. Closes(f, e, "UNG", "UNE")
    BY <2>2, <2>3 DEF Closes, CleanGroup, GroupsWhole
  <2>5. ASSUME NEW j \in f+1..e-1
        PROVE  \E a, b \in f+1..e-1 : a <= j /\ j <= b /\ GoodMessage(a, b)
    <3>1. PICK l \in 1..Len(ms) : f < ms[l].first /\ ms[l].end < e /\ j \in ms[l].first..ms[l].end
      BY <2>1 DEF GroupOf
    <3>2. /\ ms[l].first \in Int /\ ms[l].end \in Int
          /\ f \in Int /\ e \in Int /\ j \in Int
          /\ f < ms[l].first /\ ms[l].end < e /\ ms[l].first <= j /\ j <= ms[l].end
      BY <1>4, <2>1, <3>1
    <3>3. ms[l].first \in f+1..e-1 /\ ms[l].end \in f+1..e-1
      BY <3>2
    <3>4. GoodMessage(ms[l].first, ms[l].end)
      BY <1>2
    <3> QED BY <3>2, <3>3, <3>4
  <2>6. AllMessages(f + 1, e - 1)
    BY <2>5 DEF AllMessages
  <2>7. segs[e].count = TrailersIn(f + 1, e - 1, "UNT")
    BY <2>2 DEF CleanGroup, Number
  <2>8. GoodGroup(f, e)
    BY <2>4, <2>6, <2>7 DEF GoodGroup
  <2> QED BY <2>8 DEF f, e
<1>6. ASSUME NEW j \in 2..z-1
      PROVE  \E a, b \in 2..z-1 : a <= j /\ j <= b /\ GoodGroup(a, b)
  <2>1. PICK k \in 1..Len(gs) : j \in gs[k].first..gs[k].end
    BY <1>4
  <2>2. gs[k].first <= j /\ j <= gs[k].end /\ gs[k].first \in 2..z-1 /\ gs[k].end \in 2..z-1
    BY <1>4, <2>1
  <2> QED BY <1>5, <2>2
<1>7. Closes(1, z, "UNB", "UNZ")
  BY <1>1 DEF Framed, CleanInterchange, Closes
<1>9. segs[1].syntax = Resolved
  BY <1>1 DEF CleanInterchange
<1>8. segs[z].count = TrailersIn(2, z - 1, "UNE")
  BY <1>1 DEF CleanInterchange, Number
<1> QED BY <1>1, <1>2, <1>3, <1>6, <1>7, <1>8, <1>9 DEF GoodInterchange

(* Nothing is noted about a correct interchange. *)
LEMMA GoodMessagesAccepted ==
  ASSUME TypeOK, Framed, Len(segs) > 2, AllMessages(2, Len(segs) - 1), CleanInterchange,
         segs[Len(segs)].count = TrailersIn(2, Len(segs) - 1, "UNT"),
         UniqueRefs("UNH"), NEW v, FlatOutcome(v)
  PROVE  v.errors = <<>>
<1> DEFINE ms == v.messages
           z == Len(segs)
<1>1. /\ ms \in Seq(MessageSpan) /\ Tiled(ms, 0, 2, z - 1) /\ Outline(ms, v.groups)
      /\ z \in Nat /\ z - 1 \in Nat /\ 2 \in 1..z /\ z - 1 <= z /\ Len(ms) \in Nat
  BY FlatOutline, SegmentsAre DEF FlatOutcome
<1>2. v.errors = <<>> <=>
           /\ CleanInterchange /\ CleanFrom(ms, 0)
           /\ ms # <<>> /\ Number(segs[z].count) = TrailersIn(2, z - 1, "UNT")
           /\ \A k \in 1..Len(ms) : DeclaredRight(ms[k])
  BY DEF FlatOutcome
<1> HIDE DEF ms
<1>3. \A k \in 0+1..Len(ms) : GoodMessage(ms[k].first, ms[k].end)
  BY <1>1, TilesAreGood
<1>4. CleanFrom(ms, 0) /\ \A k \in 1..Len(ms) : DeclaredRight(ms[k])
  <2>1. \A k \in 1..Len(ms) : GoodMessage(ms[k].first, ms[k].end)
    BY <1>3
  <2> QED BY <1>1, <2>1, CleanAreGood
<1>5. ms # <<>>
  <2>1. 2 \in 2..z-1
    BY <1>1
  <2>2. \E k \in 0+1..Len(ms) : 2 \in ms[k].first..ms[k].end
    BY <1>1, <2>1 DEF Tiled
  <2>3. Len(<<>>) = 0
    OBVIOUS
  <2> QED BY <2>2, <2>3
<1>6. Number(segs[z].count) = TrailersIn(2, z - 1, "UNT")
  BY DEF CleanInterchange, Number
<1> QED BY <1>2, <1>4, <1>5, <1>6

LEMMA GoodGroupsAccepted ==
  ASSUME TypeOK, Framed, AllGroups(Len(segs) - 1), CleanInterchange,
         segs[Len(segs)].count = TrailersIn(2, Len(segs) - 1, "UNE"),
         UniqueRefs("UNH"), UniqueRefs("UNG"), NEW v, GroupOutcome(v)
  PROVE  v.errors = <<>>
<1> DEFINE ms == v.messages
           gs == v.groups
           z == Len(segs)
<1>1. /\ Grouped(ms, gs, z - 1) /\ Outline(ms, gs) /\ z \in Nat
  BY GroupOutline, SegmentsAre DEF GroupOutcome
<1>2. v.errors = <<>> <=>
           /\ CleanInterchange /\ CleanFrom(ms, 0) /\ CleanGroups(gs)
           /\ Number(segs[z].count) = TrailersIn(2, z - 1, "UNE")
           /\ \A k \in 1..Len(ms) : DeclaredRight(ms[k])
  BY DEF GroupOutcome
<1> HIDE DEF ms, gs
<1>3. /\ \A k \in 1..Len(ms) : /\ ms[k].first \in 2..z-1 /\ ms[k].end \in 2..z-1
                               /\ IsMessage(ms[k].first, ms[k].end)
      /\ \A k \in 1..Len(gs) :
           /\ gs[k].first \in 2..z-1 /\ gs[k].end \in 2..z-1 /\ gs[k].first < gs[k].end
           /\ segs[gs[k].first].tag = "UNG" /\ segs[gs[k].end].tag = "UNE"
           /\ \A j \in gs[k].first+1..gs[k].end-1 :
                segs[j].tag \in ServiceTags => segs[j].tag \in {"UNH", "UNT"}
      /\ \A j \in 2..z-1 : \E k \in 1..Len(gs) : j \in gs[k].first..gs[k].end
  BY <1>1 DEF Outline, Grouped
<1>4. ASSUME NEW k \in 1..Len(gs)
      PROVE  GoodGroup(gs[k].first, gs[k].end)
  <2> DEFINE f == gs[k].first
             e == gs[k].end
  <2>1. /\ f \in 2..z-1 /\ e \in 2..z-1 /\ f < e
        /\ segs[f].tag = "UNG" /\ segs[e].tag = "UNE"
        /\ \A j \in f+1..e-1 : segs[j].tag \in ServiceTags => segs[j].tag \in {"UNH", "UNT"}
    BY <1>3
  <2> HIDE DEF f, e
  <2>2. PICK a, b \in 2..z-1 : a <= f /\ f <= b /\ GoodGroup(a, b)
    BY <2>1 DEF AllGroups
  <2>3. /\ a < b /\ segs[a].tag = "UNG" /\ segs[b].tag = "UNE"
        /\ \A j \in a+1..b-1 : segs[j].tag \notin {"UNG", "UNE"}
    <3>1. a \in 1..Len(segs) /\ b \in 1..Len(segs)
      BY <1>1
    <3> QED BY <2>2, <3>1, WithinAGroup
  <2>4. f = a
    <3>1. f \notin a+1..b-1 /\ f # b
      BY <2>1, <2>3
    <3> QED BY <1>1, <2>1, <2>2, <3>1
  <2>5. e = b
    <3>1. e \notin a+1..b-1 /\ b \notin f+1..e-1
      BY <2>1, <2>3 DEF ServiceTags
    <3> QED BY <1>1, <2>1, <2>2, <2>3, <2>4, <3>1
  <2> QED BY <2>2, <2>4, <2>5 DEF f, e
<1>5. ASSUME NEW l \in 1..Len(ms)
      PROVE  GoodMessage(ms[l].first, ms[l].end)
  <2> DEFINE mf == ms[l].first
             me == ms[l].end
  <2>1. mf \in 2..z-1 /\ me \in 2..z-1 /\ IsMessage(mf, me)
    BY <1>3
  <2> HIDE DEF mf, me
  <2>2. PICK k \in 1..Len(gs) : mf \in gs[k].first..gs[k].end
    BY <1>3, <2>1
  <2> DEFINE f == gs[k].first
             e == gs[k].end
  <2>3. /\ f \in 2..z-1 /\ e \in 2..z-1 /\ mf \in f..e
        /\ segs[f].tag = "UNG" /\ segs[e].tag = "UNE" /\ GoodGroup(f, e)
    BY <1>3, <1>4, <2>2
  <2> HIDE DEF f, e
  <2>4. mf \in f+1..e-1
    <3>1. mf # f /\ mf # e
      BY <2>1, <2>3 DEF IsMessage
    <3> QED BY <1>1, <2>3, <3>1
  <2>5. PICK a, b \in f+1..e-1 : a <= mf /\ mf <= b /\ GoodMessage(a, b)
    BY <2>3, <2>4 DEF GoodGroup, AllMessages
  <2>6. a \in 1..Len(segs) /\ b \in 1..Len(segs) /\ mf \in a..b /\ me \in 1..Len(segs)
    <3>1. f \in Int /\ e \in Int /\ a \in Int /\ b \in Int /\ mf \in Int /\ me \in Int /\ z \in Int
      BY <1>1, <2>1, <2>3
    <3>2. 2 <= f /\ f < a /\ a <= mf /\ mf <= b /\ b < e /\ e <= z - 1 /\ 2 <= me /\ me <= z - 1
      BY <2>1, <2>3, <2>5, <3>1
    <3> HIDE DEF z
    <3>3. a \in 1..z /\ b \in 1..z /\ mf \in a..b /\ me \in 1..z
      BY <3>1, <3>2
    <3> QED BY <3>3 DEF z
  <2>7. mf = a
    <3>1. segs[mf].tag = "UNH"
      BY <2>1 DEF IsMessage
    <3> QED BY <2>5, <2>6, <3>1, WithinAMessage
  <2>8. b = me
    BY <2>1, <2>5, <2>6, <2>7, NextIsEnd
  <2> QED BY <2>5, <2>7, <2>8 DEF mf, me
<1>6. CleanFrom(ms, 0) /\ \A k \in 1..Len(ms) : DeclaredRight(ms[k])
  BY <1>1, <1>5, CleanAreGood
<1>7. CleanGroups(gs)
  <2> SUFFICES ASSUME NEW k \in 1..Len(gs) PROVE CleanGroupAt(gs, k)
    BY DEF CleanGroups
  <2>1. CleanGroup(gs[k].first, gs[k].end)
        /\ Number(segs[gs[k].end].count) = TrailersIn(gs[k].first + 1, gs[k].end - 1, "UNT")
    <3> DEFINE f == gs[k].first
               e == gs[k].end
    <3>1. GoodGroup(f, e) /\ f \in Int /\ e \in Int
      BY <1>3, <1>4
    <3> HIDE DEF f, e
    <3>2. segs[e].count = TrailersIn(f + 1, e - 1, "UNT") /\ segs[e].count \in Nat
      <4>1. f + 1 \in Int /\ e - 1 \in Int
        BY <3>1
      <4> QED BY <3>1, <4>1, TrailersAreNumbers DEF GoodGroup
    <3>3. CleanGroup(f, e)
      BY <3>1, <3>2 DEF GoodGroup, Closes, CleanGroup
    <3>4. Number(segs[e].count) = TrailersIn(f + 1, e - 1, "UNT")
      BY <3>2 DEF Number
    <3> QED BY <3>3, <3>4 DEF f, e
  <2>2. \A j \in 1..k-1 : segs[gs[j].first].ref # segs[gs[k].first].ref
    BY <1>1, GroupRefs
  <2> QED BY <2>1, <2>2 DEF CleanGroupAt
<1>8. Number(segs[z].count) = TrailersIn(2, z - 1, "UNE")
  BY DEF CleanInterchange, Number
<1> QED BY <1>2, <1>6, <1>7, <1>8

LEMMA GoodIsAccepted ==
  ASSUME TypeOK, GoodInterchange, NEW v, v = Validate(segs)
  PROVE  v.errors = <<>>
<1> DEFINE z == Len(segs)
<1>1. /\ z > 2 /\ z \in Nat /\ Closes(1, z, "UNB", "UNZ") /\ segs[1].syntax = Resolved
      /\ \/ AllMessages(2, z - 1) /\ segs[z].count = TrailersIn(2, z - 1, "UNT")
         \/ AllGroups(z - 1) /\ segs[z].count = TrailersIn(2, z - 1, "UNE")
      /\ UniqueRefs("UNH") /\ UniqueRefs("UNG")
  BY SegmentsAre DEF GoodInterchange, AllGroups
<1>2. Framed
  BY <1>1 DEF Closes, Framed
<1>3. CleanInterchange
  <2>1. segs[z].count \in Nat
    <3>1. 2 \in Int /\ z - 1 \in Int
      BY <1>1
    <3> QED BY <1>1, <3>1, TrailersAreNumbers
  <2> QED BY <1>1, <2>1 DEF Closes, CleanInterchange
<1>4. ~v.fatal
  BY <1>1, <1>2, Validated
<1>5. 2 \in 2..z-1
  BY <1>1
<1>6. CASE AllMessages(2, z - 1) /\ segs[z].count = TrailersIn(2, z - 1, "UNT")
  <2>1. segs[2].tag = "UNH"
    <3>1. PICK a, b \in 2..z-1 : a <= 2 /\ 2 <= b /\ GoodMessage(a, b)
      BY <1>5, <1>6 DEF AllMessages
    <3>2. a = 2
      BY <3>1
    <3> QED BY <3>1, <3>2 DEF GoodMessage, Closes
  <2>2. FlatOutcome(v)
    BY <1>1, <1>4, <2>1, Validated
  <2> QED BY <1>1, <1>2, <1>3, <1>6, <2>2, GoodMessagesAccepted
<1>7. CASE AllGroups(z - 1) /\ segs[z].count = TrailersIn(2, z - 1, "UNE")
  <2>1. segs[2].tag = "UNG"
    <3>1. PICK a, b \in 2..z-1 : a <= 2 /\ 2 <= b /\ GoodGroup(a, b)
      BY <1>5, <1>7 DEF AllGroups
    <3>2. a = 2
      BY <3>1
    <3> QED BY <3>1, <3>2 DEF GoodGroup, Closes
  <2>2. GroupOutcome(v)
    BY <1>1, <1>4, <2>1, Validated
  <2> QED BY <1>1, <1>2, <1>3, <1>7, <2>2, GoodGroupsAccepted
<1> QED BY <1>1, <1>6, <1>7

(* The code asks for no other component of a UNG: none is missing.         *)
LEMMA GroupsStayWhole ==
  Spec => []GroupsWhole
<1>1. Init => GroupsWhole
  BY DEF Init, GroupsWhole
<1>2. TypeOK /\ GroupsWhole /\ [Next]_vars => GroupsWhole'
  <2> SUFFICES ASSUME TypeOK, GroupsWhole, [Next]_vars PROVE GroupsWhole'
    OBVIOUS
  <2>1. ASSUME NEW tag, NEW ref, NEW count, NEW whole, NEW syntax, NEW slip,
               Read(tag, ref, count, whole, syntax, slip),
               tag = "UNG" => whole = TRUE
        PROVE  GroupsWhole'
    <3> DEFINE x == [tag |-> tag, ref |-> ref, count |-> count, whole |-> whole, syntax |-> syntax]
    <3>1. segs' = Append(segs, x) /\ (x.tag = "UNG" => x.whole = TRUE)
      BY <2>1 DEF Read
    <3> HIDE DEF x
    <3>2. segs \in Seq(Segment)
      BY DEF TypeOK
    <3>3. /\ \A i \in DOMAIN segs' : (i \in DOMAIN segs /\ segs'[i] = segs[i]) \/ segs'[i] = x
      BY <3>1, <3>2
    <3> QED BY <3>1, <3>3 DEF GroupsWhole
  <2>2. ASSUME NEW tag \in {"UNB", "UNG", "UNH"}, ReadHeader(tag)
        PROVE  GroupsWhole'
    BY <2>1, <2>2 DEF ReadHeader
  <2>3. ASSUME NEW tag \in {"UNT", "UNE", "UNZ"}, ReadTrailer(tag)
        PROVE  GroupsWhole'
    BY <2>1, <2>3 DEF ReadTrailer
  <2>4. ASSUME NEW tag \in {"BGM", "UNO"}, ReadOther(tag)
        PROVE  GroupsWhole'
    BY <2>1, <2>4 DEF ReadOther
  <2>5. CASE UNCHANGED vars
    BY <2>5 DEF vars, GroupsWhole
  <2> QED BY <2>2, <2>3, <2>4, <2>5 DEF Next
<1> QED BY <1>1, <1>2, SegmentsTyped, PTL DEF Spec

(***************************************************************************)
(* Validation accepts the correct interchanges and no other, whatever they *)
(* hold and however long they are (validate_envelope, envelope.rs).        *)
(***************************************************************************)
THEOREM CorrectIsAccepted ==
  Spec => []AcceptsTheCorrect
<1>1. TypeOK /\ GroupsWhole => AcceptsTheCorrect
  <2> SUFFICES ASSUME TypeOK, GroupsWhole PROVE AcceptsTheCorrect
    OBVIOUS
  <2> DEFINE v == Validate(segs)
  <2>1. v = Validate(segs) /\ (AcceptsTheCorrect <=> (v.errors = <<>> <=> GoodInterchange))
    BY DEF AcceptsTheCorrect
  <2> HIDE DEF v
  <2>2. ASSUME v.errors = <<>> PROVE GoodInterchange
    <3>1. Framed /\ (FlatOutcome(v) \/ GroupOutcome(v))
      BY <2>1, <2>2, Validated
    <3> QED BY <2>2, <3>1, FlatIsGood, GroupedIsGood
  <2>3. GoodInterchange => v.errors = <<>>
    BY <2>1, GoodIsAccepted
  <2> QED BY <2>1, <2>2, <2>3
<1> QED BY <1>1, SegmentsTyped, GroupsStayWhole, PTL

-----------------------------------------------------------------------------
(* Windows from every opening tag to the first of the stops that follows,  *)
(* which is the closing one.                                               *)
Paired(tags, ws, open, stops, close) ==
  /\ Len(ws) \in Nat
  /\ \A k \in 1..Len(ws) :
       /\ ws[k].first \in 1..Len(tags) /\ ws[k].end \in ws[k].first+1..Len(tags)
       /\ tags[ws[k].first] = open /\ tags[ws[k].end] = close
       /\ \A j \in ws[k].first+1..ws[k].end-1 : tags[j] \notin stops
  /\ \A k, l \in 1..Len(ws) : k < l => ws[k].end < ws[l].first
  /\ \A f \in 1..Len(tags) : tags[f] = open => \E k \in 1..Len(ws) : ws[k].first = f

LEMMA PairedIncrease ==
  ASSUME NEW tags, Len(tags) \in Nat, NEW ws, NEW open, NEW stops, NEW close,
         Paired(tags, ws, open, stops, close)
  PROVE  Increasing(ws)
<1>1. \A k \in 1..Len(ws) : ws[k].first \in Int /\ ws[k].end \in Int /\ ws[k].first < ws[k].end
  BY DEF Paired
<1>2. ASSUME NEW k \in 1..Len(ws), NEW l \in 1..Len(ws), k < l
      PROVE  ws[k].first < ws[l].first
  <2>1. ws[k].end < ws[l].first
    BY <1>2 DEF Paired
  <2> QED BY <1>1, <2>1
<1> QED BY <1>1, <1>2 DEF Paired, Increasing

LEMMA WalkIsPaired ==
  ASSUME NEW tags, Len(tags) \in Nat, NEW ws, NEW open, NEW stops, NEW close, close \in stops,
         Paired(tags, ws, open, stops, close),
         NEW vs, Len(vs) \in Nat, NEW o, Walked(tags, Len(tags), vs, o, open, stops, close)
  PROVE  Bounds(ws) = Bounds(vs)
<1> DEFINE n == Len(tags)
<1>1. Increasing(ws)
  BY PairedIncrease
<1>2. \A k \in 1..Len(vs) : /\ vs[k].first \in 1..n /\ tags[vs[k].first] = open
                            /\ vs[k].end \in vs[k].first..n
                            /\ EndsAt(tags, n, vs[k].first, vs[k].end, stops, close)
  BY DEF Walked
<1>3. Increasing(vs)
  <2>1. \A k, l \in 1..Len(vs) : k < l => vs[k].end < vs[l].first
    BY DEF Walked
  <2>2. \A k \in 1..Len(vs) : vs[k].first \in Int /\ vs[k].end \in Int /\ vs[k].first <= vs[k].end
    BY <1>2
  <2> QED BY <2>1, <2>2 DEF Increasing
<1>4. BeginsWith(ws, vs)
  BY DEF Paired, Walked, BeginsWith
<1>5. BeginsWith(vs, ws)
  BY <1>2 DEF Paired, BeginsWith
<1>6. ASSUME NEW k \in 1..Len(ws), NEW l \in 1..Len(vs), ws[k].first = vs[l].first
      PROVE  ws[k].end = vs[l].end
  <2> DEFINE f == ws[k].first
             e == ws[k].end
             d == vs[l].end
  <2>1. /\ f \in 1..n /\ e \in f+1..n /\ tags[e] = close
        /\ \A j \in f+1..e-1 : tags[j] \notin stops
    BY DEF Paired
  <2>2. EndsAt(tags, n, f, d, stops, close)
    BY <1>2, <1>6
  <2> HIDE DEF f, e, d
  <2>3. ~Clear(tags, f, n, stops)
    BY <2>1 DEF Clear
  <2>4. PICK j \in f+1..n : /\ tags[j] \in stops /\ Clear(tags, f, j-1, stops)
                            /\ d = IF tags[j] = close THEN j ELSE j-1
    BY <2>2, <2>3 DEF EndsAt
  <2>5. j = e
    <3>1. j \notin f+1..e-1 /\ e \notin f+1..j-1
      BY <2>1, <2>4 DEF Clear
    <3> QED BY <2>1, <2>4, <3>1
  <2>6. d = e
    BY <2>1, <2>4, <2>5
  <2> QED BY <2>6 DEF d, e
<1> QED BY <1>1, <1>3, <1>4, <1>5, <1>6, SameBounds

LEMMA SpansArePaired ==
  ASSUME NEW tags, Len(tags) \in Nat, NEW ws, NEW open, NEW stops, NEW close,
         open \in stops, close \in stops, open # close,
         Paired(tags, ws, open, stops, close)
  PROVE  Bounds(ws) = Bounds(SpansBetween(tags, open, close))
<1> DEFINE n == Len(tags)
           vs == SpansBetween(tags, open, close)
           st == SpansAfter(tags, open, close)[n].start
<1>1. SpansInv(tags, n, st, vs, open, close)
  <2>1. n \in 0..Len(tags)
    OBVIOUS
  <2> QED BY <2>1, SpansAfterEach DEF SpansBetween
<1> HIDE DEF vs, st
<1>2. Increasing(ws)
  BY PairedIncrease
<1>3. vs \in Seq(Span) /\ Len(vs) \in Nat
  BY <1>1 DEF SpansInv
<1>4. \A k \in 1..Len(vs) : /\ vs[k].first \in 1..n /\ vs[k].end \in vs[k].first+1..n
                            /\ Joins(tags, vs[k].first, vs[k].end, open, close)
  BY <1>1 DEF SpansInv
<1>5. Increasing(vs)
  BY <1>1, <1>3, <1>4 DEF SpansInv, Increasing
<1>6. BeginsWith(ws, vs)
  <2> SUFFICES ASSUME NEW k \in 1..Len(ws)
               PROVE  \E l \in 1..Len(vs) : vs[l].first = ws[k].first
    BY DEF BeginsWith
  <2> DEFINE f == ws[k].first
             e == ws[k].end
  <2>1. /\ f \in 1..n /\ e \in f+1..n /\ tags[f] = open /\ tags[e] = close
        /\ \A j \in f+1..e-1 : tags[j] \notin stops
    BY DEF Paired
  <2> HIDE DEF f, e
  <2>2. Joins(tags, f, e, open, close)
    BY <2>1 DEF Joins, Clear
  <2>3. \E l \in 1..Len(vs) : vs[l].first = f
    BY <1>1, <2>1, <2>2 DEF SpansInv
  <2> QED BY <2>3 DEF f
<1>7. BeginsWith(vs, ws)
  BY <1>4 DEF Joins, Paired, BeginsWith
<1>8. ASSUME NEW k \in 1..Len(ws), NEW l \in 1..Len(vs), ws[k].first = vs[l].first
      PROVE  ws[k].end = vs[l].end
  <2> DEFINE f == ws[k].first
             e == ws[k].end
             d == vs[l].end
  <2>1. /\ f \in 1..n /\ e \in f+1..n /\ tags[e] = close
        /\ \A j \in f+1..e-1 : tags[j] \notin stops
    BY DEF Paired
  <2>2. d \in f+1..n /\ Joins(tags, f, d, open, close)
    BY <1>4, <1>8
  <2> HIDE DEF f, e, d
  <2>3. d \notin f+1..e-1 /\ e \notin f+1..d-1
    BY <2>1, <2>2 DEF Joins, Clear
  <2>4. d = e
    BY <2>1, <2>2, <2>3
  <2> QED BY <2>4 DEF d, e
<1>9. Bounds(ws) = Bounds(vs)
  BY <1>2, <1>5, <1>6, <1>7, <1>8, SameBounds
<1> QED BY <1>9 DEF vs

(* The messages and groups that validation finds are such windows.         *)
LEMMA OutlineIsPaired ==
  ASSUME TypeOK, NEW ms, NEW gs, Outline(ms, gs)
  PROVE  /\ Paired(TagsOf(segs), ms, "UNH", MessageStops, "UNT")
         /\ Paired(TagsOf(segs), gs, "UNG", GroupStops, "UNE")
<1> DEFINE tags == TagsOf(segs)
           z == Len(segs)
<1>1. z \in Nat /\ Len(tags) = z /\ \A i \in 1..z : tags[i] = segs[i].tag
  BY SegmentsAre DEF TagsOf
<1> HIDE DEF tags
<1>2. ASSUME NEW k \in 1..Len(ms)
      PROVE  /\ ms[k].first \in 1..z /\ ms[k].end \in ms[k].first+1..z
             /\ tags[ms[k].first] = "UNH" /\ tags[ms[k].end] = "UNT"
             /\ \A j \in ms[k].first+1..ms[k].end-1 : tags[j] \notin MessageStops
  <2> DEFINE f == ms[k].first
             e == ms[k].end
  <2>1. f \in 2..z-1 /\ e \in 2..z-1 /\ IsMessage(f, e)
    BY DEF Outline
  <2> HIDE DEF f, e
  <2>2. /\ f \in 1..z /\ e \in f+1..z /\ e \in 1..z /\ \A j \in f+1..e-1 : j \in 1..z
    BY <1>1, <2>1 DEF IsMessage
  <2>3. \A j \in f+1..e-1 : tags[j] \notin MessageStops
    BY <1>1, <2>1, <2>2 DEF IsMessage, MessageStops, ServiceTags
  <2>4. tags[f] = "UNH" /\ tags[e] = "UNT"
    BY <1>1, <2>1, <2>2 DEF IsMessage
  <2> QED BY <2>2, <2>3, <2>4 DEF f, e
<1>3. ASSUME NEW k \in 1..Len(gs)
      PROVE  /\ gs[k].first \in 1..z /\ gs[k].end \in gs[k].first+1..z
             /\ tags[gs[k].first] = "UNG" /\ tags[gs[k].end] = "UNE"
             /\ \A j \in gs[k].first+1..gs[k].end-1 : tags[j] \notin GroupStops
  <2> DEFINE f == gs[k].first
             e == gs[k].end
  <2>1. /\ f \in 2..z-1 /\ e \in 2..z-1 /\ f < e /\ segs[f].tag = "UNG" /\ segs[e].tag = "UNE"
        /\ \A j \in f+1..e-1 : segs[j].tag \in ServiceTags => segs[j].tag \in {"UNH", "UNT"}
    BY DEF Outline
  <2> HIDE DEF f, e
  <2>2. /\ f \in 1..z /\ e \in f+1..z /\ e \in 1..z /\ \A j \in f+1..e-1 : j \in 1..z
    BY <1>1, <2>1
  <2>3. \A j \in f+1..e-1 : tags[j] \notin GroupStops
    BY <1>1, <2>1, <2>2 DEF GroupStops, ServiceTags
  <2>4. tags[f] = "UNG" /\ tags[e] = "UNE"
    BY <1>1, <2>1, <2>2
  <2> QED BY <2>2, <2>3, <2>4 DEF f, e
<1>4. /\ Len(ms) \in Nat /\ Len(gs) \in Nat
      /\ \A k, l \in 1..Len(ms) : k < l => ms[k].end < ms[l].first
      /\ \A k, l \in 1..Len(gs) : k < l => gs[k].end < gs[l].first
      /\ \A j \in 1..z : tags[j] = "UNH" => \E k \in 1..Len(ms) : ms[k].first = j
      /\ \A j \in 1..z : tags[j] = "UNG" => \E k \in 1..Len(gs) : gs[k].first = j
  BY <1>1 DEF Outline
<1>5. Paired(tags, ms, "UNH", MessageStops, "UNT")
  BY <1>1, <1>2, <1>4 DEF Paired
<1>6. Paired(tags, gs, "UNG", GroupStops, "UNE")
  BY <1>1, <1>3, <1>4 DEF Paired
<1> QED BY <1>5, <1>6 DEF tags

LEMMA WalksDoAgree ==
  ASSUME TypeOK
  PROVE  WalksAgree
<1> DEFINE v == Validate(segs)
           tags == TagsOf(segs)
           w == Windows(tags)
<1> SUFFICES ASSUME ~v.fatal
             PROVE  /\ Bounds(v.messages) = Bounds(w.messages)
                    /\ Bounds(v.groups) = Bounds(w.groups)
                    /\ Bounds(v.messages) = Bounds(SpansBetween(tags, "UNH", "UNT"))
                    /\ Bounds(v.groups) = Bounds(SpansBetween(tags, "UNG", "UNE"))
  BY DEF WalksAgree
<1>1. Outline(v.messages, v.groups)
  BY Outlined
<1>2. Len(tags) \in Nat /\ tags = TagsOf(segs)
  BY SegmentsAre DEF TagsOf
<1>3. /\ Paired(tags, v.messages, "UNH", MessageStops, "UNT")
      /\ Paired(tags, v.groups, "UNG", GroupStops, "UNE")
  <2> HIDE DEF v
  <2> QED BY <1>1, OutlineIsPaired
<1>4. WindowsInv(tags, Len(tags), w)
  <2> HIDE DEF tags
  <2>1. Len(tags) \in 0..Len(tags)
    BY <1>2
  <2> QED BY <1>2, <2>1, WindowsAfterEach DEF Windows
<1> HIDE DEF v, tags, w
<1>5. /\ Walked(tags, Len(tags), w.messages, w.message, "UNH", MessageStops, "UNT")
      /\ Walked(tags, Len(tags), w.groups, w.group, "UNG", GroupStops, "UNE")
      /\ Len(w.messages) \in Nat /\ Len(w.groups) \in Nat
  <2>1. w.messages \in Seq(MessageWindow) /\ w.groups \in Seq(GroupWindow)
    BY <1>4, WindowsFields DEF WindowsInv
  <2> QED BY <1>4, <2>1 DEF WindowsInv
<1>6. /\ "UNH" \in MessageStops /\ "UNT" \in MessageStops /\ "UNH" # "UNT"
      /\ "UNG" \in GroupStops /\ "UNE" \in GroupStops /\ "UNG" # "UNE"
  BY DEF MessageStops, GroupStops
<1> QED BY <1>2, <1>3, <1>5, <1>6, WalkIsPaired, SpansArePaired

(***************************************************************************)
(* Where validation can interpret the structure, the three walks over the  *)
(* segments find the same messages and groups, at the same indices         *)
(* (envelope.rs, recover.rs, contrl.rs), however long the interchange is.  *)
(***************************************************************************)
THEOREM WalksAlwaysAgree ==
  Spec => []WalksAgree
BY SegmentsTyped, WalksDoAgree, PTL

-----------------------------------------------------------------------------
(* A place is one that its code may have, whatever the target it is for.   *)
LEMMA OnInterchangeIsWell ==
  ASSUME NEW t, NEW service, NEW element, NEW code,
         service \in {NoService, "UNA", "UNB", "UNZ"}
  PROVE  WellPlaced(OnInterchange(t, service, element, code))
<1> DEFINE stated == IF Permitted(code, Interchange) THEN code ELSE "18"
<1>1. Permitted(stated, Interchange)
  <2>1. Permitted("18", Interchange)
    BY DEF Permitted, LevelsOf
  <2> QED BY <2>1
<1> HIDE DEF stated
<1>2. OnInterchange(t, service, element, code) =
        Location(Interchange, NoOrdinal, NoOrdinal, NoOrdinal, service, element, stated, t.exact)
  BY DEF OnInterchange, stated
<1> QED BY <1>1, <1>2 DEF WellPlaced, Location, Interchange, SegmentLevel, DataElement

LEMMA OnGroupIsWell ==
  ASSUME NEW t, NEW service, NEW code, Permitted(code, Group), service \in {NoService, "UNG", "UNE"}
  PROVE  WellPlaced(OnGroup(t, service, code))
BY DEF WellPlaced, OnGroup, Location, Group, SegmentLevel, DataElement

LEMMA OnMessageIsWell ==
  ASSUME NEW t, NEW service, NEW code, Permitted(code, Message), service \in {NoService, "UNH", "UNT"}
  PROVE  WellPlaced(OnMessage(t, service, code))
BY DEF WellPlaced, OnMessage, Location, Message, SegmentLevel, DataElement

LEMMA ClimbIsWell ==
  ASSUME NEW t, NEW code
  PROVE  WellPlaced(Climb(t, code))
BY OnInterchangeIsWell, OnGroupIsWell DEF Climb

LEMMA BodyIsWell ==
  ASSUME NEW t, NEW code, NEW stable, t.message # NoOrdinal, t.position # NoOrdinal
  PROVE  WellPlaced(PlaceInBody(t, code, stable))
<1> DEFINE tagFault == stable \in {"E006", "E028"}
           stated == IF tagFault THEN "12" ELSE code
           element == IF tagFault THEN 1 ELSE t.element
           onData == element # NoElement /\ Permitted(stated, DataElement)
           onSegment == (element = NoElement \/ ~Permitted(stated, DataElement))
                          /\ Permitted(stated, SegmentLevel)
           At0(level, e) == Location(level, t.group, t.message, t.position, NoService, e, stated, t.exact)
<1>1. /\ onData => PlaceInBody(t, code, stable) = At0(DataElement, element)
      /\ onSegment => PlaceInBody(t, code, stable) = At0(SegmentLevel, NoElement)
      /\ ~onData /\ ~onSegment =>
           PlaceInBody(t, code, stable) = IF Permitted(stated, Message) THEN OnMessage(t, NoService, stated)
                                          ELSE Climb(t, stated)
  BY DEF PlaceInBody
<1>2. CASE onData
  <2>1. WellPlaced(At0(DataElement, element))
    <3> HIDE DEF stated, element
    <3> QED BY <1>2 DEF WellPlaced, Location
  <2> QED BY <1>1, <1>2, <2>1
<1>3. CASE onSegment
  <2>1. WellPlaced(At0(SegmentLevel, NoElement))
    <3> HIDE DEF stated, element
    <3> QED BY <1>3 DEF WellPlaced, Location, SegmentLevel, DataElement
  <2> QED BY <1>1, <1>3, <2>1
<1>4. CASE ~onData /\ ~onSegment
  <2> HIDE DEF stated, onData, onSegment
  <2> QED BY <1>1, <1>4, OnMessageIsWell, ClimbIsWell
<1> QED BY <1>2, <1>3, <1>4

LEMMA PlaceIsWell ==
  ASSUME NEW t, NEW code, NEW stable
  PROVE  WellPlaced(Place(t, code, stable))
<1>1. CASE stable = "E007"
  <2>1. Place(t, code, stable) =
          Location(Interchange, NoOrdinal, NoOrdinal, NoOrdinal, "UNA", NoElement, "20", t.exact)
    BY <1>1 DEF Place
  <2>2. Permitted("20", Interchange)
    BY DEF Permitted, LevelsOf
  <2> QED BY <2>1, <2>2 DEF WellPlaced, Location, Interchange, SegmentLevel, DataElement
<1>2. CASE stable # "E007" /\ t.message # NoOrdinal /\ (t.position = NoOrdinal \/ t.tag \in {"UNH", "UNT"})
  <2> DEFINE missing == IF stable = "E043" THEN "13" ELSE code
             service == ServiceIn(t.tag, {"UNH", "UNT"})
  <2>1. Place(t, code, stable) = PlaceOnMessage(t, code, stable)
    BY <1>2 DEF Place
  <2>2. Place(t, code, stable) =
          IF Permitted(missing, Message) THEN OnMessage(t, service, missing) ELSE Climb(t, missing)
    BY <2>1 DEF PlaceOnMessage
  <2>3. service \in {NoService, "UNH", "UNT"}
    BY DEF ServiceIn
  <2> HIDE DEF missing, service
  <2> QED BY <2>2, <2>3, OnMessageIsWell, ClimbIsWell
<1>3. CASE stable # "E007" /\ t.message # NoOrdinal /\ ~(t.position = NoOrdinal \/ t.tag \in {"UNH", "UNT"})
  BY <1>3, BodyIsWell DEF Place
<1>4. CASE stable # "E007" /\ t.message = NoOrdinal /\ t.group # NoOrdinal
  <2> DEFINE service == ServiceIn(t.tag, {"UNG", "UNE"})
  <2>1. Place(t, code, stable) = IF Permitted(code, Group) THEN OnGroup(t, service, code)
                                 ELSE OnInterchange(t, NoService, NoElement, code)
    BY <1>4 DEF Place, PlaceInGroup
  <2>2. service \in {NoService, "UNG", "UNE"}
    BY DEF ServiceIn
  <2> HIDE DEF service
  <2> QED BY <2>1, <2>2, OnInterchangeIsWell, OnGroupIsWell
<1>5. CASE stable # "E007" /\ t.message = NoOrdinal /\ t.group = NoOrdinal
  <2> DEFINE service == ServiceIn(t.tag, {"UNA", "UNB", "UNZ"})
  <2>1. Place(t, code, stable) = OnInterchange(t, service, ElementOf(t, service), code)
    BY <1>5 DEF Place, PlaceInInterchange
  <2>2. service \in {NoService, "UNA", "UNB", "UNZ"}
    BY DEF ServiceIn
  <2> HIDE DEF service
  <2> QED BY <2>1, <2>2, OnInterchangeIsWell
<1> QED BY <1>1, <1>2, <1>3, <1>4, <1>5

LEMMA AllIsWellPlaced == PlacedWherePermitted
BY PlaceIsWell, Zenon DEF PlacedWherePermitted, Locate, LocateIssue, LocateFault

-----------------------------------------------------------------------------
(* An error with a span has the code of its issue, and its target.         *)
LEMMA SpannedStableCodes ==
  /\ StableCodes["InvalidComponentCount"] = "E013"
  /\ StableCodes["InvalidCodeValue"] = "E014"
  /\ StableCodes["ConditionalRequirementNotMet"] = "E017"
  /\ StableCodes["TooManyRepetitions"] = "E047"
  /\ StableCodes["TrailingSeparator"] = "E051"
  /\ StableCodes["BlankDataElementValue"] = "E045"
  /\ StableCodes["InvalidCharacterType"] = "E048"
  /\ StableCodes["DataElementTooLong"] = "E049"
  /\ StableCodes["DataElementTooShort"] = "E050"
  /\ StableCodes["InsignificantCharacters"] = "E053"
  /\ StableCodes["SegmentCountMismatch"] = "E005"
  /\ StableCodes["InvalidSegmentForMessage"] = "E011"
  /\ StableCodes["InvalidElementCount"] = "E012"
  /\ StableCodes["QualifierMismatch"] = "E016"
  /\ StableCodes["DuplicateReference"] = "E032"
  /\ StableCodes["EmptyMessage"] = "E043"
  /\ StableCodes["PackageNotSupported"] = "E044"
  /\ StableCodes["SegmentWithoutDataElements"] = "E046"
  /\ StableCodes["SegmentNotPlaced"] = "E068"
  /\ StableCodes["TooManySegmentOccurrences"] = "E069"
  /\ StableCodes["TooManyGroupOccurrences"] = "E070"
  /\ StableCodes["GroupsAndMessagesMixed"] = "E052"
BY DEF Kinds, StableCodes

LEMMA SpannedCodes ==
  ASSUME NEW kind \in Spanned
  PROVE  ForIssue(StableCodes[kind]) = ForError(kind)
BY SpannedStableCodes DEF Spanned, SegmentSpanned, ElementSpanned, ComponentSpanned, ForIssue, ForError

LEMMA SameWithin ==
  ASSUME NEW ws, NEW vs, Len(ws) \in Nat, Len(vs) \in Nat, Bounds(ws) = Bounds(vs), NEW i
  PROVE  /\ FirstWithin(ws, i) = FirstWithin(vs, i)
         /\ FirstWithin(ws, i) # 0 => /\ FirstWithin(ws, i) \in 1..Len(ws)
                                      /\ Within(ws[FirstWithin(ws, i)], i)
                                      /\ ws[FirstWithin(ws, i)].first = vs[FirstWithin(ws, i)].first
<1> DEFINE H(us) == {k \in 1..Len(us) : Within(us[k], i)}
<1>1. Len(ws) = Len(vs)
  <2>1. DOMAIN Bounds(ws) = 1..Len(ws) /\ DOMAIN Bounds(vs) = 1..Len(vs)
    BY DEF Bounds
  <2>2. 1..Len(ws) = 1..Len(vs)
    BY <2>1
  <2> QED BY <2>2
<1>2. \A k \in 1..Len(ws) : ws[k].first = vs[k].first /\ ws[k].end = vs[k].end
  <2> SUFFICES ASSUME NEW k \in 1..Len(ws)
               PROVE  ws[k].first = vs[k].first /\ ws[k].end = vs[k].end
    OBVIOUS
  <2>1. Bounds(ws)[k] = <<ws[k].first, ws[k].end>> /\ Bounds(vs)[k] = <<vs[k].first, vs[k].end>>
    BY <1>1 DEF Bounds
  <2> QED BY <2>1
<1>3. H(ws) = H(vs)
  BY <1>1, <1>2 DEF Within
<1>4. /\ FirstWithin(ws, i) = IF H(ws) = {} THEN 0 ELSE CHOOSE k \in H(ws) : \A j \in H(ws) : k <= j
      /\ FirstWithin(vs, i) = IF H(vs) = {} THEN 0 ELSE CHOOSE k \in H(vs) : \A j \in H(vs) : k <= j
  BY DEF FirstWithin, NoOrdinal
<1>5. H(ws) # {} => \E k \in H(ws) : \A j \in H(ws) : k <= j
  <2>1. H(ws) \subseteq Nat
    OBVIOUS
  <2> HIDE DEF H
  <2> QED BY <2>1, LeastOne
<1>6. FirstWithin(ws, i) # 0 => FirstWithin(ws, i) \in H(ws)
  <2> HIDE DEF H
  <2> QED BY <1>4, <1>5
<1> QED BY <1>2, <1>3, <1>4, <1>6

(* The item a span lies in is the segment that its issue is about.         *)
LEMMA SameTarget ==
  ASSUME TypeOK, ~Validate(segs).fatal, NEW i \in DOMAIN segs
  PROVE  SegmentTarget(TagsOf(segs), i) = ItemTarget(Windows(TagsOf(segs)), TagsOf(segs), i)
<1> DEFINE tags == TagsOf(segs)
           w == Windows(tags)
           ms == SpansBetween(tags, "UNH", "UNT")
           gs == SpansBetween(tags, "UNG", "UNE")
           m == FirstWithin(ms, i)
           g == FirstWithin(gs, i)
<1>1. Bounds(ms) = Bounds(w.messages) /\ Bounds(gs) = Bounds(w.groups)
  <2>1. WalksAgree
    BY WalksDoAgree
  <2> QED BY <2>1 DEF WalksAgree
<1>2. \A k \in 1..Len(w.messages) :
        \A j \in w.messages[k].first..w.messages[k].end : FirstWithin(w.groups, j) = w.messages[k].group
  <2>1. \A u \in Range(w.messages) : \A j \in u.first..u.end : FirstWithin(w.groups, j) = u.group
    BY WindowsAreDeclared DEF WindowsAsDeclared
  <2> HIDE DEF w
  <2>2. DOMAIN w.messages = 1..Len(w.messages)
    <3>1. Len(tags) \in Nat /\ Len(tags) \in 0..Len(tags)
      BY SegmentsAre DEF TagsOf
    <3>2. WindowsInv(tags, Len(tags), w)
      BY <3>1, WindowsAfterEach DEF Windows, w
    <3>3. w.messages \in Seq(MessageWindow)
      BY <3>2, WindowsFields DEF WindowsInv
    <3> QED BY <3>3
  <2> QED BY <2>1, <2>2 DEF Range
<1>3. Len(ms) \in Nat /\ Len(gs) \in Nat /\ Len(w.messages) \in Nat /\ Len(w.groups) \in Nat
  <2>1. Len(tags) \in Nat /\ Len(tags) \in 0..Len(tags)
    BY SegmentsAre DEF TagsOf
  <2>2. WindowsInv(tags, Len(tags), w)
    BY <2>1, WindowsAfterEach DEF Windows
  <2>3. w.messages \in Seq(MessageWindow) /\ w.groups \in Seq(GroupWindow)
    BY <2>2, WindowsFields DEF WindowsInv
  <2>4. ms \in Seq(Span) /\ gs \in Seq(Span)
    <3> HIDE DEF tags
    <3>1. /\ SpansInv(tags, Len(tags), SpansAfter(tags, "UNH", "UNT")[Len(tags)].start, ms, "UNH", "UNT")
          /\ SpansInv(tags, Len(tags), SpansAfter(tags, "UNG", "UNE")[Len(tags)].start, gs, "UNG", "UNE")
      BY <2>1, SpansAfterEach DEF SpansBetween
    <3> QED BY <3>1 DEF SpansInv
  <2> HIDE DEF tags, w, ms, gs
  <2> QED BY <2>3, <2>4
<1>4. /\ SegmentTarget(tags, i) =
           Target(tags[i], m, IF m = 0 THEN 0 ELSE i - ms[m].first + 1, g, NoElement, TRUE)
      /\ FirstWithin(w.messages, i) # 0 =>
           ItemTarget(w, tags, i) =
             Target(tags[i], FirstWithin(w.messages, i),
                    i - w.messages[FirstWithin(w.messages, i)].first + 1,
                    w.messages[FirstWithin(w.messages, i)].group, NoElement, TRUE)
      /\ FirstWithin(w.messages, i) = 0 =>
           ItemTarget(w, tags, i) = Target(tags[i], 0, 0, FirstWithin(w.groups, i), NoElement, TRUE)
  BY DEF SegmentTarget, ItemTarget, NoOrdinal
<1> HIDE DEF ms, gs, w, tags
<1>5. /\ m = FirstWithin(w.messages, i) /\ g = FirstWithin(w.groups, i)
      /\ m # 0 => /\ m \in 1..Len(ms) /\ Within(ms[m], i) /\ ms[m].first = w.messages[m].first
                  /\ m \in 1..Len(w.messages) /\ Within(w.messages[m], i)
  BY <1>1, <1>3, SameWithin
<1>6. m # 0 => w.messages[m].group = g
  BY <1>2, <1>5 DEF Within
<1> HIDE DEF m, g
<1>7. SegmentTarget(tags, i) = ItemTarget(w, tags, i)
  BY <1>4, <1>5, <1>6
<1> QED BY <1>7 DEF tags, w

LEMMA SameLocation ==
  ASSUME TypeOK, ~Validate(segs).fatal,
         NEW kind \in Spanned, NEW i \in DOMAIN segs, NEW e \in Elements(kind)
  PROVE  LET tags == TagsOf(segs)
             x == ErrorAt(kind, i, e)
         IN  LocateIssue(tags, x) = Locate(Windows(tags), tags, x, NoOrdinal)
<1> DEFINE tags == TagsOf(segs)
           w == Windows(tags)
           x == ErrorAt(kind, i, e)
           t == ItemTarget(w, tags, i)
           stable == StableCodes[kind]
<1>1. x.kind = kind /\ x.at = i /\ x.element = e
  BY DEF ErrorAt, Fault
<1>2. SegmentTarget(tags, i) = t
  BY SameTarget
<1>3. /\ IssueHasSpan(kind)
      /\ (IF IssueHasElement(kind) THEN e ELSE NoElement) = e
  BY DEF IssueHasSpan, IssueHasElement, Elements, Spanned, SegmentSpanned, ElementSpanned,
         ComponentSpanned, OffsetAnchored, NoElement
<1>4. /\ kind # "SegmentTooLong" /\ kind \in OffsetAnchored \cup Spanned /\ kind \notin TagAnchored
      /\ kind # "MissingSegment" /\ kind \notin ServiceAnchored /\ kind \notin InterchangeAnchored
      /\ kind \notin Unplaced
  BY DEF Spanned, SegmentSpanned, ElementSpanned, ComponentSpanned, TagAnchored, ServiceAnchored,
         InterchangeAnchored, Unplaced
<1>5. ForIssue(stable) = ForError(kind)
  BY SpannedCodes
<1>6. LocateIssue(tags, x) =
        Place([SegmentTarget(tags, i) EXCEPT !.element = IF IssueHasElement(kind) THEN e ELSE NoElement],
              ForIssue(stable), stable)
  <2> HIDE DEF x, tags
  <2> QED BY <1>1, <1>3 DEF LocateIssue
<1>7. Locate(w, tags, x, NoOrdinal) = Place([t EXCEPT !.element = e], ForError(kind), stable)
  <2>1. TargetOf(w, tags, x, NoOrdinal) = [t EXCEPT !.element = e]
    <3> HIDE DEF x, tags, w
    <3> QED BY <1>1, <1>4 DEF TargetOf
  <2> HIDE DEF x, tags, w, t
  <2> QED BY <1>1, <2>1 DEF Locate
<1> HIDE DEF x, tags, w, t, stable
<1>8. LocateIssue(tags, x) = Locate(w, tags, x, NoOrdinal)
  BY <1>2, <1>3, <1>5, <1>6, <1>7
<1> QED BY <1>8 DEF x, tags, w

(***************************************************************************)
(* RecoveredInterchange::locate and from_report place an error with a span *)
(* alike, and both only where the code may be (recover.rs, contrl.rs), in  *)
(* an interchange of any length.                                           *)
(***************************************************************************)
THEOREM LocationsAlwaysAgree ==
  Spec => []LocationsAgree
<1>1. TypeOK => LocationsAgree
  BY AllIsWellPlaced, SameLocation DEF LocationsAgree
<1> QED BY <1>1, SegmentsTyped, PTL

-----------------------------------------------------------------------------
(* The reply: the loops over the findings have a value after every turn.   *)
LEMMA AppendIs ==
  ASSUME NEW X, NEW s \in Seq(X), NEW x \in X
  PROVE  /\ Append(s, x) \in Seq(X)
         /\ Range(Append(s, x)) = Range(s) \cup {x}
<1> DEFINE t == Append(s, x)
<1>1. /\ t \in Seq(X) /\ Len(t) = Len(s) + 1 /\ t[Len(s) + 1] = x
      /\ \A i \in 1..Len(s) : t[i] = s[i]
  BY AppendProperties
<1>2. Len(s) \in Nat /\ DOMAIN s = 1..Len(s) /\ DOMAIN t = 1..Len(t)
  BY <1>1, LenProperties
<1> HIDE DEF t
<1>3. DOMAIN t = DOMAIN s \cup {Len(s) + 1}
  BY <1>1, <1>2
<1>4. Range(t) = {t[i] : i \in DOMAIN s} \cup {x}
  BY <1>1, <1>3 DEF Range
<1>5. {t[i] : i \in DOMAIN s} = Range(s)
  BY <1>1, <1>2 DEF Range
<1> QED BY <1>1, <1>4, <1>5 DEF t

LEMMA EmptyRange == Range(<<>>) = {}
BY DEF Range

LEMMA AmongStep ==
  ASSUME NEW s, Len(s) \in Nat, NEW S
  PROVE  /\ AmongAfter(s, S)[0] = <<>>
         /\ \A k \in 1..Len(s) : AmongAfter(s, S)[k] = IF s[k] \in S THEN Append(AmongAfter(s, S)[k-1], s[k]) ELSE AmongAfter(s, S)[k-1]
<1> DEFINE Turn(v, k) == IF s[k] \in S THEN Append(v, s[k]) ELSE v
           Is(f, n) == f = [k \in 0..n |-> IF k = 0 THEN <<>> ELSE Turn(f[k-1], k)]
<1> HIDE DEF Turn
<1>1. \E f : Is(f, 0)
  <2> DEFINE f == [k \in 0..0 |-> <<>>]
  <2>1. Is(f, 0)
    OBVIOUS
  <2> QED BY <2>1
<1>2. ASSUME NEW n \in Nat, n # 0, NEW f, Is(f, n-1)
      PROVE  \E g : Is(g, n)
  <2> DEFINE g == [k \in 0..n |-> IF k = n THEN Turn(f[n-1], n) ELSE f[k]]
  <2>1. \A k \in 0..n-1 : g[k] = f[k]
    OBVIOUS
  <2>2. \A k \in 0..n : g[k] = IF k = 0 THEN <<>> ELSE Turn(g[k-1], k)
    BY <1>2, <2>1
  <2>3. Is(g, n)
    BY <2>2
  <2> QED BY <2>3
<1> DEFINE F == {n \in Nat : \E f : Is(f, n)}
<1>3. \A i \in 0+1..Len(s) : i-1 \in F => i \in F
  <2> HIDE DEF Is
  <2>1. SUFFICES ASSUME NEW i \in 0+1..Len(s), i-1 \in F PROVE i \in F
    OBVIOUS
  <2>2. i \in Nat /\ i # 0
    OBVIOUS
  <2>3. PICK f : Is(f, i-1)
    BY <2>1
  <2>4. \E g : Is(g, i)
    BY <1>2, <2>2, <2>3
  <2> QED BY <2>2, <2>4
<1>4. 0 \in F
  BY <1>1
<1>5. \A i \in 0..Len(s) : i \in F
  <2>1. Len(s) \in Int /\ 0 \in Int
    OBVIOUS
  <2> HIDE DEF F
  <2> QED BY <1>3, <1>4, <2>1, UpTo, Zenon
<1>6. \E f : Is(f, Len(s))
  BY <1>5
<1>7. AmongAfter(s, S) = CHOOSE f : Is(f, Len(s))
  BY DEF AmongAfter, Turn
<1>8. Is(AmongAfter(s, S), Len(s))
  <2> HIDE DEF Is
  <2> QED BY <1>6, <1>7
<1>9. /\ AmongAfter(s, S)[0] = <<>>
      /\ \A k \in 1..Len(s) : AmongAfter(s, S)[k] = Turn(AmongAfter(s, S)[k-1], k)
  <2> DEFINE f == AmongAfter(s, S)
  <2> HIDE DEF f
  <2>1. f = [k \in 0..Len(s) |-> IF k = 0 THEN <<>> ELSE Turn(f[k-1], k)]
    BY <1>8 DEF f
  <2>2. f[0] = <<>> /\ \A k \in 1..Len(s) : f[k] = Turn(f[k-1], k)
    BY <2>1
  <2> QED BY <2>2 DEF f
<1> QED BY <1>9 DEF Turn

(* Filtering keeps what is in the set, and nothing else.                   *)
LEMMA AmongIs ==
  ASSUME NEW X, NEW s \in Seq(X), NEW S
  PROVE  /\ Among(s, S) \in Seq(X)
         /\ Range(Among(s, S)) = Range(s) \cap S
<1> DEFINE n == Len(s)
           A(k) == AmongAfter(s, S)[k]
           Upto(k) == {s[i] : i \in 1..k}
           F == {k \in 0..n : A(k) \in Seq(X) /\ Range(A(k)) = Upto(k) \cap S}
<1>1. n \in Nat /\ n \in Int /\ 0 \in Int /\ \A k \in 1..n : s[k] \in X
  OBVIOUS
<1>2. A(0) = <<>> /\ \A k \in 1..n : A(k) = IF s[k] \in S THEN Append(A(k-1), s[k]) ELSE A(k-1)
  BY <1>1, AmongStep
<1>3. Upto(0) = {} /\ Range(s) = Upto(n)
  BY LenProperties DEF Range
<1>4. \A k \in 1..n : Upto(k) = Upto(k-1) \cup {s[k]}
  BY <1>1
<1> HIDE DEF A, n, Upto
<1>5. 0 \in F
  <2>1. <<>> \in Seq(X) /\ 0 \in 0..n
    BY <1>1, EmptySeq
  <2> QED BY <1>2, <1>3, <2>1, EmptyRange
<1>6. \A k \in 0+1..n : k-1 \in F => k \in F
  <2>1. SUFFICES ASSUME NEW k \in 1..n, A(k-1) \in Seq(X), Range(A(k-1)) = Upto(k-1) \cap S
                 PROVE  A(k) \in Seq(X) /\ Range(A(k)) = Upto(k) \cap S
    BY <1>1
  <2>2. CASE s[k] \in S
    <3>1. A(k) = Append(A(k-1), s[k]) /\ s[k] \in X
      BY <1>1, <1>2, <2>2
    <3>2. A(k) \in Seq(X) /\ Range(A(k)) = Range(A(k-1)) \cup {s[k]}
      BY <2>1, <3>1, AppendIs
    <3> QED BY <1>4, <2>1, <2>2, <3>2
  <2>3. CASE s[k] \notin S
    BY <1>2, <1>4, <2>1, <2>3
  <2> QED BY <2>2, <2>3
<1>7. \A k \in 0..n : k \in F
  <2> HIDE DEF F
  <2> QED BY <1>1, <1>5, <1>6, UpTo, Zenon
<1>8. n \in F
  <2>1. n \in 0..n
    BY <1>1
  <2> QED BY <1>7, <2>1
<1> QED BY <1>3, <1>8 DEF Among, A, n

-----------------------------------------------------------------------------
(* assemble's first loop: a finding is kept for the levels below, or tells *)
(* against the interchange, or has no level to be reported at.             *)
Kept(f) == Reported(f) /\ f.location.level # Interchange /\ Nameable(shape, f)

Lost(f) == f.rejects /\ f.location.level # Interchange /\ ~Nameable(shape, f)

Fatal(f) == f.rejects /\ f.location.level = Interchange

States(f) == Reported(f) /\ f.location.level = Interchange /\ f.states

TakenWith(u, r, e, w) == [unattributed |-> u, rejected |-> r, error |-> e, lower |-> w]

LEMMA TakeIs ==
  ASSUME NEW f, f.rejects \in BOOLEAN, NEW u \in BOOLEAN, NEW r \in BOOLEAN, NEW e, NEW w
  PROVE  \E u2, r2, e2 :
           /\ u2 \in BOOLEAN /\ r2 \in BOOLEAN
           /\ TakeFinding(TakenWith(u, r, e, w), f) =
                TakenWith(u2, r2, e2, IF Kept(f) THEN Append(w, f) ELSE w)
           /\ u2 <=> u \/ Lost(f)
           /\ r2 <=> r \/ Fatal(f)
           /\ e2 = e \/ (States(f) /\ e2 = LevelError(f.location))
<1> DEFINE acc == TakenWith(u, r, e, w)
           l == f.location.level
           b == f.rejects
           stated == LevelError(f.location)
<1>1. acc = [unattributed |-> u, rejected |-> r, error |-> e, lower |-> w]
  BY DEF TakenWith
<1> HIDE DEF acc, stated
<1>6. acc.unattributed = u /\ acc.rejected = r /\ acc.error = e /\ acc.lower = w
  BY <1>1
<1>7. \A x : [acc EXCEPT !.lower = x] = TakenWith(u, r, e, x)
  BY <1>1 DEF TakenWith
<1>8. \A x : [acc EXCEPT !.unattributed = x] = TakenWith(x, r, e, w)
  BY <1>1 DEF TakenWith
<1>9. ASSUME NEW x, NEW y
      PROVE  [acc EXCEPT !.rejected = x, !.error = y] = TakenWith(u, x, y, w)
  <2>1. [acc EXCEPT !.rejected = x, !.error = y] = [[acc EXCEPT !.rejected = x] EXCEPT !.error = y]
    BY <1>1
  <2>2. [acc EXCEPT !.rejected = x] = TakenWith(u, x, e, w)
    BY <1>1 DEF TakenWith
  <2>3. [TakenWith(u, x, e, w) EXCEPT !.error = y] = TakenWith(u, x, y, w)
    BY DEF TakenWith
  <2> QED BY <2>1, <2>2, <2>3
<1>2. CASE ~Reported(f)
  <2>1. TakeFinding(acc, f) = acc
    BY <1>2 DEF TakeFinding
  <2>2. ~f.rejects
    BY <1>2 DEF Reported
  <2> QED BY <1>2, <2>1, <2>2 DEF Kept, Lost, Fatal, acc
<1>3. CASE Reported(f) /\ l = Interchange
  <2> DEFINE e2 == IF e = NoError /\ f.states THEN stated ELSE e
  <2>1. TakeFinding(acc, f) = [acc EXCEPT !.rejected = r \/ b, !.error = e2]
    BY <1>6, <1>3 DEF TakeFinding, stated
  <2> HIDE DEF e2
  <2>2. TakeFinding(acc, f) = TakenWith(u, r \/ b, e2, w)
    BY <1>7, <1>8, <1>9, <2>1
  <2>3. e2 = e \/ (States(f) /\ e2 = stated)
    BY <1>3 DEF e2, States
  <2>4. PICK r2 \in BOOLEAN : r2 = (r \/ b)
    OBVIOUS
  <2>5. ~Kept(f) /\ ~Lost(f) /\ (Fatal(f) <=> b)
    BY <1>3 DEF Kept, Lost, Fatal
  <2>6. TakeFinding(acc, f) = TakenWith(u, r2, e2, w) /\ (r2 <=> r \/ Fatal(f))
    BY <2>2, <2>4, <2>5
  <2> QED BY <2>3, <2>5, <2>6 DEF acc, stated
<1>4. CASE Reported(f) /\ l # Interchange /\ Nameable(shape, f)
  <2>1. TakeFinding(acc, f) = [acc EXCEPT !.lower = Append(w, f)]
    BY <1>6, <1>4 DEF TakeFinding
  <2>2. TakeFinding(acc, f) = TakenWith(u, r, e, Append(w, f))
    BY <1>7, <1>8, <1>9, <2>1
  <2>3. Kept(f) /\ ~Lost(f) /\ ~Fatal(f)
    BY <1>4 DEF Kept, Lost, Fatal
  <2> QED BY <2>2, <2>3 DEF acc
<1>5. CASE Reported(f) /\ l # Interchange /\ ~Nameable(shape, f)
  <2>1. TakeFinding(acc, f) = [acc EXCEPT !.unattributed = u \/ b]
    BY <1>6, <1>5 DEF TakeFinding
  <2>2. TakeFinding(acc, f) = TakenWith(u \/ b, r, e, w)
    BY <1>7, <1>8, <1>9, <2>1
  <2>3. PICK u2 \in BOOLEAN : u2 = (u \/ b)
    OBVIOUS
  <2>4. ~Kept(f) /\ (Lost(f) <=> b) /\ ~Fatal(f)
    BY <1>5 DEF Kept, Lost, Fatal
  <2>5. TakeFinding(acc, f) = TakenWith(u2, r, e, w) /\ (u2 <=> u \/ Lost(f))
    BY <2>2, <2>3, <2>4
  <2> QED BY <2>4, <2>5 DEF acc
<1> QED BY <1>2, <1>3, <1>4, <1>5

(* The loop has a value after every finding.                               *)
LEMMA TakenStep ==
  ASSUME Len(raised) \in Nat
  PROVE  /\ TakenAfter[0] = Untaken
         /\ \A k \in 1..Len(raised) : TakenAfter[k] = TakeFinding(TakenAfter[k-1], raised[k])
<1> DEFINE Turn(v, k) == TakeFinding(v, raised[k])
           Is(f, n) == f = [k \in 0..n |-> IF k = 0 THEN Untaken ELSE Turn(f[k-1], k)]
<1> HIDE DEF Turn
<1>1. \E f : Is(f, 0)
  <2> DEFINE f == [k \in 0..0 |-> Untaken]
  <2>1. Is(f, 0)
    OBVIOUS
  <2> QED BY <2>1
<1>2. ASSUME NEW n \in Nat, n # 0, NEW f, Is(f, n-1)
      PROVE  \E g : Is(g, n)
  <2> DEFINE g == [k \in 0..n |-> IF k = n THEN Turn(f[n-1], n) ELSE f[k]]
  <2>1. \A k \in 0..n-1 : g[k] = f[k]
    OBVIOUS
  <2>2. \A k \in 0..n : g[k] = IF k = 0 THEN Untaken ELSE Turn(g[k-1], k)
    BY <1>2, <2>1
  <2>3. Is(g, n)
    BY <2>2
  <2> QED BY <2>3
<1> DEFINE F == {n \in Nat : \E f : Is(f, n)}
<1>3. \A i \in 0+1..Len(raised) : i-1 \in F => i \in F
  <2> HIDE DEF Is
  <2>1. SUFFICES ASSUME NEW i \in 0+1..Len(raised), i-1 \in F PROVE i \in F
    OBVIOUS
  <2>2. i \in Nat /\ i # 0
    OBVIOUS
  <2>3. PICK f : Is(f, i-1)
    BY <2>1
  <2>4. \E g : Is(g, i)
    BY <1>2, <2>2, <2>3
  <2> QED BY <2>2, <2>4
<1>4. 0 \in F
  BY <1>1
<1>5. \A i \in 0..Len(raised) : i \in F
  <2>1. Len(raised) \in Int /\ 0 \in Int
    OBVIOUS
  <2> HIDE DEF F
  <2> QED BY <1>3, <1>4, <2>1, UpTo, Zenon
<1>6. \E f : Is(f, Len(raised))
  BY <1>5
<1>7. TakenAfter = CHOOSE f : Is(f, Len(raised))
  BY DEF TakenAfter, Turn
<1>8. Is(TakenAfter, Len(raised))
  <2> HIDE DEF Is
  <2> QED BY <1>6, <1>7
<1>9. /\ TakenAfter[0] = Untaken
      /\ \A k \in 1..Len(raised) : TakenAfter[k] = Turn(TakenAfter[k-1], k)
  <2> DEFINE f == TakenAfter
  <2> HIDE DEF f
  <2>1. f = [k \in 0..Len(raised) |-> IF k = 0 THEN Untaken ELSE Turn(f[k-1], k)]
    BY <1>8 DEF f
  <2>2. f[0] = Untaken /\ \A k \in 1..Len(raised) : f[k] = Turn(f[k-1], k)
    BY <2>1
  <2> QED BY <2>2 DEF f
<1> QED BY <1>9 DEF Turn

(* The findings have a verdict, and the options are switches.              *)
FindingsTyped ==
  /\ raised \in Seq(Raisable)
  /\ options \in [recovered : BOOLEAN, forced : BOOLEAN, interchange : BOOLEAN, warnings : BOOLEAN]
  /\ shape \in Shapes

LEMMA RaisableIs ==
  ASSUME NEW f \in Raisable
  PROVE  f.rejects \in BOOLEAN
BY DEF Raisable

(* What the first loop leaves: the findings kept, in order, and what those *)
(* it did not keep tell.                                                   *)
TakenIsWhatWasFound(u, r, e, w) ==
  /\ Taken = TakenWith(u, r, e, w)
  /\ u <=> options.forced \/ \E f \in Range(raised) : Lost(f)
  /\ r <=> \E f \in Range(raised) : Fatal(f)
  /\ e = NoError \/ \E f \in Range(raised) : States(f) /\ e = LevelError(f.location)
  /\ w \in Seq(Raisable)
  /\ Range(w) = {f \in Range(raised) : Kept(f)}

LEMMA TakenIs ==
  ASSUME FindingsTyped
  PROVE  \E u, r, e, w : u \in BOOLEAN /\ r \in BOOLEAN /\ TakenIsWhatWasFound(u, r, e, w)
<1> DEFINE n == Len(raised)
           T(k) == TakenAfter[k]
           Upto(k) == {raised[i] : i \in 1..k}
           So(u, r, e, w, k) ==
             /\ T(k) = TakenWith(u, r, e, w)
             /\ u <=> options.forced \/ \E f \in Upto(k) : Lost(f)
             /\ r <=> \E f \in Upto(k) : Fatal(f)
             /\ e = NoError \/ \E f \in Upto(k) : States(f) /\ e = LevelError(f.location)
             /\ w \in Seq(Raisable)
             /\ Range(w) = {f \in Upto(k) : Kept(f)}
           F == {k \in 0..n : \E u, r, e, w : u \in BOOLEAN /\ r \in BOOLEAN /\ So(u, r, e, w, k)}
<1>1. n \in Nat /\ n \in Int /\ 0 \in Int /\ \A k \in 1..n : raised[k] \in Raisable
  BY DEF FindingsTyped
<1>2. T(0) = Untaken /\ \A k \in 1..n : T(k) = TakeFinding(T(k-1), raised[k])
  BY <1>1, TakenStep
<1>3. Upto(0) = {} /\ Range(raised) = Upto(n)
  BY LenProperties DEF Range, FindingsTyped
<1>4. \A k \in 1..n : Upto(k) = Upto(k-1) \cup {raised[k]}
  BY <1>1
<1>5. options.forced \in BOOLEAN
  BY DEF FindingsTyped
<1> HIDE DEF T, n, Upto
<1>6. 0 \in F
  <2>1. So(options.forced, FALSE, NoError, <<>>, 0)
    BY <1>2, <1>3, EmptyRange, EmptySeq DEF Untaken, TakenWith
  <2>2. 0 \in 0..n
    BY <1>1
  <2> HIDE DEF So
  <2> QED BY <1>5, <2>1, <2>2
<1>7. \A k \in 0+1..n : k-1 \in F => k \in F
  <2>1. SUFFICES ASSUME NEW k \in 1..n, k-1 \in F PROVE k \in F
    BY <1>1
  <2>2. PICK u, r, e, w : u \in BOOLEAN /\ r \in BOOLEAN /\ So(u, r, e, w, k-1)
    BY <2>1
  <2> DEFINE f == raised[k]
             w2 == IF Kept(f) THEN Append(w, f) ELSE w
  <2>3. f \in Raisable /\ f.rejects \in BOOLEAN
    BY <1>1, RaisableIs
  <2>4. T(k) = TakeFinding(TakenWith(u, r, e, w), f)
    BY <1>2, <2>2
  <2>5. Upto(k) = Upto(k-1) \cup {f}
    BY <1>4
  <2> HIDE DEF f, w2, So
  <2>11. u \in BOOLEAN /\ r \in BOOLEAN
    BY <2>2
  <2>6. PICK u2, r2, e2 :
          /\ u2 \in BOOLEAN /\ r2 \in BOOLEAN
          /\ T(k) = TakenWith(u2, r2, e2, w2)
          /\ u2 <=> u \/ Lost(f)
          /\ r2 <=> r \/ Fatal(f)
          /\ e2 = e \/ (States(f) /\ e2 = LevelError(f.location))
    BY <2>3, <2>4, <2>11, TakeIs DEF w2
  <2>7. w2 \in Seq(Raisable) /\ Range(w2) = {x \in Upto(k) : Kept(x)}
    <3>1. CASE Kept(f)
      <4>1. w2 \in Seq(Raisable) /\ Range(w2) = Range(w) \cup {f}
        BY <2>2, <2>3, <3>1, AppendIs DEF w2, So
      <4> QED BY <2>2, <2>5, <3>1, <4>1 DEF So
    <3>2. CASE ~Kept(f)
      BY <2>2, <2>5, <3>2 DEF w2, So
    <3> QED BY <3>1, <3>2
  <2>8. So(u2, r2, e2, w2, k)
    <3>1. u2 <=> options.forced \/ \E x \in Upto(k) : Lost(x)
      BY <2>2, <2>5, <2>6 DEF So
    <3>2. r2 <=> \E x \in Upto(k) : Fatal(x)
      BY <2>2, <2>5, <2>6 DEF So
    <3>3. e2 = NoError \/ \E x \in Upto(k) : States(x) /\ e2 = LevelError(x.location)
      BY <2>2, <2>5, <2>6 DEF So
    <3> QED BY <2>6, <2>7, <3>1, <3>2, <3>3 DEF So
  <2>9. k \in 0..n
    BY <1>1
  <2>10. u2 \in BOOLEAN /\ r2 \in BOOLEAN
    BY <2>6
  <2> HIDE DEF So
  <2> QED BY <2>8, <2>9, <2>10
<1>8. \A k \in 0..n : k \in F
  <2> HIDE DEF F
  <2> QED BY <1>1, <1>6, <1>7, UpTo, Zenon
<1>9. PICK u, r, e, w : u \in BOOLEAN /\ r \in BOOLEAN /\ So(u, r, e, w, n)
  <2>1. n \in 0..n
    BY <1>1
  <2> HIDE DEF So
  <2> QED BY <1>8, <2>1
<1> QED BY <1>3, <1>9 DEF TakenIsWhatWasFound, Taken, T, n

-----------------------------------------------------------------------------
(* The levels of the reply.                                                *)
LEMMA EmptyIsNone ==
  ASSUME NEW X, NEW s \in Seq(X)
  PROVE  s = <<>> <=> Range(s) = {}
<1>1. Len(s) \in Nat /\ DOMAIN s = 1..Len(s)
  BY LenProperties
<1>2. Len(s) = 0 <=> s = <<>>
  BY EmptySeq
<1>3. CASE Len(s) = 0
  BY <1>2, <1>3, EmptyRange
<1>4. CASE Len(s) # 0
  <2>1. 1 \in DOMAIN s
    BY <1>1, <1>4
  <2>2. s[1] \in Range(s)
    BY <2>1 DEF Range
  <2> QED BY <1>2, <1>4, <2>2
<1> QED BY <1>3, <1>4

(* Whether something kept rejects the message. *)
Rejects(w, m) == \E f \in Range(w) : MessageIndex(f) = m /\ f.rejects

LEMMA MessageVerdictIs ==
  ASSUME NEW w \in Seq(Raisable), NEW m
  PROVE  /\ MessageVerdict(w, m).index = m
         /\ MessageVerdict(w, m).action = Rejected <=> Rejects(w, m)
         /\ MessageVerdict(w, m).action = Verdict(Rejects(w, m))
<1> DEFINE own == MessageFindings(w, m)
<1>1. Range(own) = Range(w) \cap {f \in Range(w) : MessageIndex(f) = m}
  BY AmongIs DEF MessageFindings
<1>2. AnyRejects(own) <=> Rejects(w, m)
  BY <1>1 DEF AnyRejects, Rejects
<1>3. /\ MessageVerdict(w, m).index = m
      /\ MessageVerdict(w, m).action = Verdict(AnyRejects(own))
  BY DEF MessageVerdict
<1> HIDE DEF own
<1>4. Verdict(AnyRejects(own)) = Rejected <=> AnyRejects(own)
  BY DEF Verdict, Rejected, Acknowledged
<1>5. Verdict(AnyRejects(own)) = Verdict(Rejects(w, m))
  BY <1>2 DEF Verdict
<1> QED BY <1>2, <1>3, <1>4, <1>5

(* The messages that a level lists, and what it says of them.              *)
Listed(w, uci, among) ==
  {m \in among \cap DOMAIN shape.messages :
     HasFindings(w, m) /\ (uci => MessageVerdict(w, m).action = Rejected)}

LEMMA MessageReportsAre ==
  ASSUME IsShape(shape), NEW w, NEW uci, NEW among
  PROVE  \E X : /\ MessageReports(w, uci, among) \in Seq(X)
                /\ Range(MessageReports(w, uci, among)) = {MessageVerdict(w, m) : m \in Listed(w, uci, among)}
<1> DEFINE n == Len(shape.messages)
           shown == {m \in among : /\ HasFindings(w, m)
                                   /\ uci => MessageVerdict(w, m).action = Rejected}
           indices == Among(MessageIndices, shown)
           reports == [k \in 1..Len(indices) |-> MessageVerdict(w, indices[k])]
           X == {MessageVerdict(w, m) : m \in Listed(w, uci, among)}
<1>1. n \in Nat /\ DOMAIN shape.messages = 1..n
  BY LenProperties DEF IsShape
<1>2. MessageReports(w, uci, among) = reports
  BY DEF MessageReports
<1>3. MessageIndices \in Seq(1..n) /\ Range(MessageIndices) = 1..n
  <2>1. MessageIndices = [m \in 1..n |-> m]
    BY DEF MessageIndices
  <2> HIDE DEF n
  <2> QED BY <1>1, <2>1 DEF Range
<1>4. indices \in Seq(1..n) /\ Range(indices) = 1..n \cap shown
  <2> DEFINE D == 1..n
  <2>1. MessageIndices \in Seq(D) /\ Range(MessageIndices) = D
    BY <1>3
  <2> HIDE DEF D, shown
  <2>2. Among(MessageIndices, shown) \in Seq(D) /\ Range(Among(MessageIndices, shown)) = D \cap shown
    BY <2>1, AmongIs
  <2> QED BY <2>2 DEF D
<1>5. Range(indices) = Listed(w, uci, among)
  BY <1>1, <1>4 DEF Listed
<1>6. Len(indices) \in Nat /\ DOMAIN indices = 1..Len(indices)
  BY <1>4, LenProperties
<1> HIDE DEF indices
<1>7. DOMAIN reports = 1..Len(indices) /\ \A k \in 1..Len(indices) : reports[k] = MessageVerdict(w, indices[k])
  OBVIOUS
<1>8. Range(reports) = {MessageVerdict(w, i) : i \in Range(indices)}
  BY <1>6, <1>7 DEF Range
<1>9. reports \in Seq(X)
  <2>1. \A k \in 1..Len(indices) : MessageVerdict(w, indices[k]) \in X
    BY <1>5, <1>6 DEF Range
  <2> HIDE DEF X
  <2> QED BY <1>6, <2>1
<1> QED BY <1>2, <1>5, <1>8, <1>9

(* What is found about the group itself.                                   *)
AboutGroup(w, g) == {f \in Range(w) : f.location.level = Group /\ f.location.group = g}

GroupRejects(w, g) == \E f \in AboutGroup(w, g) : f.rejects

(* A group is rejected for itself, and then lists no messages, or for one  *)
(* of its messages.                                                        *)
GroupSays(a, w, whole, uci, g) ==
  /\ a.index = g
  /\ GroupRejects(w, g) => a.action = Rejected /\ a.messages = <<>>
  /\ ~GroupRejects(w, g) =>
       /\ a.messages = MessageReports(w, uci, MessagesOf(g))
       /\ a.action = Rejected <=> whole /\ \E m \in Listed(w, uci, MessagesOf(g)) : Rejects(w, m)
       /\ a.action = Rejected => a.error = NoError
  /\ a.shown <=> /\ shape.groups[g]
                 /\ AboutGroup(w, g) # {} \/ a.messages # <<>>
                 /\ uci => a.action = Rejected

LEMMA GroupReportIs ==
  ASSUME IsShape(shape), NEW w \in Seq(Raisable), NEW whole, NEW uci, NEW g
  PROVE  GroupSays(GroupReport(w, whole, uci, g), w, whole, uci, g)
<1> DEFINE faults == GroupFindings(w, g)
           own == AnyRejects(faults)
           inside == MessageReports(w, uci, MessagesOf(g))
           messages == IF own THEN <<>> ELSE inside
           rejects == own \/ (whole /\ \E m \in Range(messages) : m.action = Rejected)
           error == IF own \/ ~rejects THEN FirstError(faults) ELSE NoError
           shown == /\ shape.groups[g]
                    /\ faults # <<>> \/ messages # <<>>
                    /\ uci => rejects
           a == GroupReport(w, whole, uci, g)
<1>1. faults \in Seq(Raisable) /\ Range(faults) = AboutGroup(w, g)
  BY AmongIs DEF GroupFindings, AboutGroup
<1>2. /\ a.index = g /\ a.action = Verdict(rejects) /\ a.error = error
      /\ a.messages = messages /\ a.shown = shown
  BY DEF GroupReport
<1>3. faults # <<>> <=> AboutGroup(w, g) # {}
  BY <1>1, EmptyIsNone
<1>4. own <=> GroupRejects(w, g)
  BY <1>1 DEF AnyRejects, GroupRejects
<1>5. Range(inside) = {MessageVerdict(w, m) : m \in Listed(w, uci, MessagesOf(g))}
  BY MessageReportsAre
<1>6. (\E m \in Range(inside) : m.action = Rejected)
        <=> \E m \in Listed(w, uci, MessagesOf(g)) : Rejects(w, m)
  BY <1>5, MessageVerdictIs
<1> HIDE DEF faults, own, inside, a
<1>7. a.action = Rejected <=> rejects
  BY <1>2 DEF Verdict, Rejected, Acknowledged
<1>8. a.shown <=> shown
  BY <1>2
<1>9. CASE own
  BY <1>2, <1>3, <1>4, <1>7, <1>8, <1>9 DEF GroupSays, a
<1>10. CASE ~own
  <2>1. a.messages = inside /\ (rejects <=> whole /\ \E m \in Range(inside) : m.action = Rejected)
    BY <1>2, <1>10
  <2>2. rejects => a.error = NoError
    BY <1>2, <1>10
  <2> HIDE DEF rejects, error
  <2>3. shown <=> /\ shape.groups[g]
                  /\ AboutGroup(w, g) # {} \/ a.messages # <<>>
                  /\ uci => a.action = Rejected
    BY <1>2, <1>3, <1>7
  <2> HIDE DEF shown
  <2> QED BY <1>2, <1>4, <1>6, <1>7, <1>8, <1>10, <2>1, <2>2, <2>3 DEF GroupSays, a, inside
<1> QED BY <1>9, <1>10

LEMMA GroupReportsAre ==
  ASSUME IsShape(shape), NEW w, NEW whole, NEW uci
  PROVE  \A a : a \in Range(GroupReports(w, whole, uci)) <=>
           \E g \in DOMAIN shape.groups : a = GroupReport(w, whole, uci, g) /\ a.shown
<1> DEFINE n == Len(shape.groups)
           reports == [g \in 1..n |-> GroupReport(w, whole, uci, g)]
           X == Range(reports)
<1>1. n \in Nat /\ DOMAIN shape.groups = 1..n
  BY LenProperties DEF IsShape
<1>2. GroupReports(w, whole, uci) = Among(reports, {r \in X : r.shown})
  BY DEF GroupReports
<1> HIDE DEF n
<1>3. X = {GroupReport(w, whole, uci, g) : g \in 1..n}
  BY DEF Range
<1>4. reports \in Seq(X)
  <2>1. \A g \in 1..n : GroupReport(w, whole, uci, g) \in X
    BY <1>3
  <2> HIDE DEF X
  <2> QED BY <1>1, <2>1
<1>5. Range(GroupReports(w, whole, uci)) = X \cap {r \in X : r.shown}
  <2> HIDE DEF reports
  <2> QED BY <1>2, <1>4, AmongIs
<1> HIDE DEF reports
<1> QED BY <1>1, <1>3, <1>5

-----------------------------------------------------------------------------
(* The reply as a whole, for what the first loop left.                     *)
Replies(a, u, r, e, w, whole, uci) ==
  /\ whole <=> options.interchange \/ u
  /\ uci <=> whole /\ (u \/ \E f \in Range(w) : f.rejects)
  /\ r => /\ a.action = Rejected
          /\ a.messages = <<>> /\ a.groups = <<>> /\ a.findings = <<>>
          /\ a.error = e
  /\ ~r => /\ a.action = Rejected <=> uci
           /\ a.error = IF uci THEN NoError ELSE e
           /\ a.messages = IF shape.groups # <<>> THEN <<>>
                           ELSE MessageReports(w, uci, DOMAIN shape.messages)
           /\ a.groups = GroupReports(w, whole, uci)
           /\ a.findings = w

LEMMA AssembledIs ==
  ASSUME FindingsTyped, NEW a, a = Assembled
  PROVE  \E u, r, e, w, whole, uci :
           /\ u \in BOOLEAN /\ r \in BOOLEAN
           /\ TakenIsWhatWasFound(u, r, e, w)
           /\ Replies(a, u, r, e, w, whole, uci)
<1>1. PICK u, r, e, w : u \in BOOLEAN /\ r \in BOOLEAN /\ TakenIsWhatWasFound(u, r, e, w)
  BY TakenIs
<1> DEFINE lower == Taken.lower
           whole == options.interchange \/ Taken.unattributed
           uci == whole /\ (Taken.unattributed \/ AnyRejects(lower))
<1>2. Taken.lower = w /\ Taken.unattributed = u /\ Taken.rejected = r /\ Taken.error = e
  BY <1>1 DEF TakenIsWhatWasFound, TakenWith
<1>3. whole <=> options.interchange \/ u
  BY <1>2
<1>4. uci <=> whole /\ (u \/ \E f \in Range(w) : f.rejects)
  BY <1>2 DEF AnyRejects
<1>5. Assembled =
        IF Taken.rejected
        THEN [action |-> Rejected, error |-> Taken.error, messages |-> <<>>, groups |-> <<>>,
              findings |-> <<>>]
        ELSE [action |-> Verdict(uci),
              error |-> IF uci THEN NoError ELSE Taken.error,
              messages |-> IF shape.groups # <<>> THEN <<>>
                           ELSE MessageReports(lower, uci, DOMAIN shape.messages),
              groups |-> GroupReports(lower, whole, uci),
              findings |-> lower]
  BY DEF Assembled
<1> DEFINE messages == IF shape.groups # <<>> THEN <<>>
                       ELSE MessageReports(lower, uci, DOMAIN shape.messages)
           groups == GroupReports(lower, whole, uci)
           error == IF uci THEN NoError ELSE Taken.error
<1>6. messages = (IF shape.groups # <<>> THEN <<>> ELSE MessageReports(w, uci, DOMAIN shape.messages))
      /\ groups = GroupReports(w, whole, uci)
  <2> HIDE DEF uci, whole
  <2> QED BY <1>2
<1>7. Verdict(uci) = Rejected <=> uci
  BY DEF Verdict, Rejected, Acknowledged
<1>8. error = IF uci THEN NoError ELSE e
  <2> HIDE DEF uci
  <2> QED BY <1>2
<1> HIDE DEF lower, whole, uci, messages, groups, error
<1>9. Taken.rejected => a = [action |-> Rejected, error |-> Taken.error, messages |-> <<>>, groups |-> <<>>,
                             findings |-> <<>>]
  BY <1>5
<1>10. ~Taken.rejected => a = [action |-> Verdict(uci), error |-> error, messages |-> messages,
                               groups |-> groups, findings |-> lower]
  BY <1>5 DEF messages, groups, error
<1>11. lower = w
  BY <1>2 DEF lower
<1>12. CASE r
  <2>1. a.action = Rejected /\ a.messages = <<>> /\ a.groups = <<>> /\ a.findings = <<>> /\ a.error = e
    BY <1>2, <1>9, <1>12
  <2>2. Replies(a, u, r, e, w, whole, uci)
    BY <1>3, <1>4, <1>12, <2>1 DEF Replies
  <2> QED BY <1>1, <2>2
<1>13. CASE ~r
  <2>1. a = [action |-> Verdict(uci), error |-> error, messages |-> messages,
             groups |-> groups, findings |-> lower]
    BY <1>2, <1>10, <1>13
  <2>2. a.action = Verdict(uci) /\ a.error = error /\ a.messages = messages /\ a.groups = groups /\ a.findings = w
    BY <2>1, <1>11
  <2>3. Replies(a, u, r, e, w, whole, uci)
    BY <2>2, <1>3, <1>4, <1>6, <1>7, <1>8, <1>13 DEF Replies
  <2> QED BY <1>1, <2>3
<1> QED BY <1>12, <1>13

-----------------------------------------------------------------------------
(* The verdicts in a reply are those of the findings.                      *)
RejectedIn(a, m) ==
  \/ a.action = Rejected
  \/ \E r \in Range(a.messages) : r.index = m /\ r.action = Rejected
  \/ \E g \in Range(a.groups) :
       \/ g.index = GroupAround(m) /\ g.action = Rejected
       \/ \E r \in Range(g.messages) : r.index = m /\ r.action = Rejected

LEMMA ShapesTyped ==
  ASSUME FindingsTyped
  PROVE  IsShape(shape)
BY ContrlAssumption DEF FindingsTyped, IsShape

(* A message rejected in a list of them is one with a finding against it.  *)
LEMMA RejectedInList ==
  ASSUME IsShape(shape), NEW w \in Seq(Raisable), NEW uci, NEW among, NEW m
  PROVE  (\E a \in Range(MessageReports(w, uci, among)) : a.index = m /\ a.action = Rejected)
           <=> m \in Listed(w, uci, among) /\ Rejects(w, m)
<1>1. Range(MessageReports(w, uci, among)) = {MessageVerdict(w, k) : k \in Listed(w, uci, among)}
  BY MessageReportsAre
<1>2. \A k : MessageVerdict(w, k).index = k /\ (MessageVerdict(w, k).action = Rejected <=> Rejects(w, k))
  BY MessageVerdictIs
<1> QED BY <1>1, <1>2

(* What the numbers in a finding can name.                                 *)
LEMMA NamedIs ==
  ASSUME IsShape(shape), NEW f, f.location.level # Interchange, Nameable(shape, f)
  PROVE  /\ f.location.level = Group =>
              /\ f.location.group \in DOMAIN shape.groups /\ shape.groups[f.location.group]
              /\ MessageIndex(f) = NoOrdinal
         /\ f.location.level # Group =>
              /\ MessageIndex(f) \in DOMAIN shape.messages
              /\ shape.groups # <<>> =>
                   /\ GroupAround(MessageIndex(f)) \in DOMAIN shape.groups
                   /\ shape.groups[GroupAround(MessageIndex(f))]
BY DEF Nameable, NamesGroup, NamesMessage, MessageIndex, Group, Message, SegmentLevel, DataElement, GroupAround

LEMMA ReplyTellsTheFindings ==
  ASSUME FindingsTyped, NEW a, a = Assembled, NEW m \in DOMAIN shape.messages
  PROVE  RejectedIn(a, m) <=> RejectedByFindings(m)
<1>1. PICK u, r, e, w, whole, uci :
        /\ u \in BOOLEAN /\ r \in BOOLEAN
        /\ TakenIsWhatWasFound(u, r, e, w)
        /\ Replies(a, u, r, e, w, whole, uci)
  BY AssembledIs
<1>2. IsShape(shape)
  BY ShapesTyped
<1>3. w \in Seq(Raisable) /\ \A f : f \in Range(w) <=> f \in Range(raised) /\ Kept(f)
  BY <1>1 DEF TakenIsWhatWasFound
<1>4. m # NoOrdinal
  <2>1. DOMAIN shape.messages = 1..Len(shape.messages)
    BY <1>2, LenProperties DEF IsShape
  <2> QED BY <2>1 DEF NoOrdinal
<1> DEFINE g == GroupAround(m)
<1>5. (\E x \in Range(a.groups) :
         \/ x.index = g /\ x.action = Rejected
         \/ \E y \in Range(x.messages) : y.index = m /\ y.action = Rejected)
      => ~r
  BY <1>1, EmptyRange DEF Replies
<1>6. ASSUME RejectedIn(a, m) PROVE RejectedByFindings(m)
  <2>1. CASE a.action = Rejected
    <3>1. CASE r
      BY <1>1, <3>1 DEF TakenIsWhatWasFound, Fatal, RejectedByFindings
    <3>2. CASE ~r /\ u
      BY <1>1, <3>2 DEF TakenIsWhatWasFound, Lost, RejectedByFindings
    <3>3. CASE ~r /\ ~u
      <4>1. options.interchange /\ \E f \in Range(w) : f.rejects
        BY <1>1, <2>1, <3>3 DEF Replies
      <4> QED BY <1>3, <4>1 DEF RejectedByFindings
    <3> QED BY <3>1, <3>2, <3>3
  <2>2. ASSUME Rejects(w, m) PROVE RejectedByFindings(m)
    BY <1>3, <2>2 DEF Rejects, RejectedByFindings
  <2>3. CASE \E x \in Range(a.messages) : x.index = m /\ x.action = Rejected
    <3>1. a.messages = MessageReports(w, uci, DOMAIN shape.messages)
      BY <1>1, <2>3, EmptyRange DEF Replies
    <3>2. \E x \in Range(MessageReports(w, uci, DOMAIN shape.messages)) : x.index = m /\ x.action = Rejected
      BY <2>3, <3>1
    <3>3. m \in Listed(w, uci, DOMAIN shape.messages) /\ Rejects(w, m)
      BY <1>2, <1>3, <3>2, RejectedInList
    <3> QED BY <2>2, <3>3
  <2>4. ASSUME NEW x \in Range(a.groups),
               \/ x.index = g /\ x.action = Rejected
               \/ \E y \in Range(x.messages) : y.index = m /\ y.action = Rejected
        PROVE  RejectedByFindings(m)
    <3>1. ~r /\ a.groups = GroupReports(w, whole, uci)
      BY <1>1, <1>5, <2>4 DEF Replies
    <3>2. PICK k \in DOMAIN shape.groups : x = GroupReport(w, whole, uci, k) /\ x.shown
      BY <1>2, <2>4, <3>1, GroupReportsAre
    <3>3. GroupSays(x, w, whole, uci, k)
      BY <1>2, <1>3, <3>2, GroupReportIs
    <3>4. CASE GroupRejects(w, k) /\ x.index = g
      <4>1. k = g
        BY <3>3, <3>4 DEF GroupSays
      <4>2. PICK f \in Range(w) : f.location.level = Group /\ f.location.group = g /\ f.rejects
        BY <3>4, <4>1 DEF GroupRejects, AboutGroup
      <4> QED BY <1>3, <4>2 DEF RejectedByFindings
    <3>5. CASE GroupRejects(w, k) /\ x.index # g
      BY <2>4, <3>3, <3>5, EmptyRange DEF GroupSays
    <3>6. CASE ~GroupRejects(w, k) /\ x.action = Rejected
      <4>1. whole /\ \E j : Rejects(w, j)
        BY <3>3, <3>6 DEF GroupSays
      <4>2. PICK f \in Range(w) : f.rejects
        BY <4>1 DEF Rejects
      <4>3. CASE u
        BY <1>1, <4>3 DEF TakenIsWhatWasFound, Lost, RejectedByFindings
      <4>4. CASE ~u
        BY <1>1, <1>3, <4>1, <4>2, <4>4 DEF Replies, RejectedByFindings
      <4> QED BY <4>3, <4>4
    <3>7. CASE ~GroupRejects(w, k) /\ x.action # Rejected
      <4>1. \E y \in Range(MessageReports(w, uci, MessagesOf(k))) : y.index = m /\ y.action = Rejected
        BY <2>4, <3>3, <3>7 DEF GroupSays
      <4>2. m \in Listed(w, uci, MessagesOf(k)) /\ Rejects(w, m)
        BY <1>2, <1>3, <4>1, RejectedInList
      <4> QED BY <2>2, <4>2
    <3> QED BY <3>4, <3>5, <3>6, <3>7
  <2> QED BY <1>6, <2>1, <2>3, <2>4 DEF RejectedIn
<1>7. ASSUME RejectedByFindings(m) PROVE RejectedIn(a, m)
  <2>1. SUFFICES ASSUME a.action # Rejected PROVE RejectedIn(a, m)
    BY DEF RejectedIn
  <2>2. ~r /\ ~uci
    BY <1>1, <2>1 DEF Replies
  <2>3. ~u
    BY <1>1, <2>2 DEF Replies
  <2>4. ~options.forced
    BY <1>1, <2>3 DEF TakenIsWhatWasFound
  <2>5. PICK f \in Range(raised) :
          /\ f.rejects
          /\ \/ options.interchange
             \/ f.location.level = Interchange
             \/ ~Nameable(shape, f)
             \/ f.location.level = Group /\ f.location.group = g
             \/ MessageIndex(f) = m
    BY <1>7, <2>4 DEF RejectedByFindings
  <2>6. f.location.level # Interchange /\ Nameable(shape, f)
    BY <1>1, <2>2, <2>3, <2>5 DEF TakenIsWhatWasFound, Fatal, Lost
  <2>7. f \in Range(w)
    BY <1>3, <2>5, <2>6 DEF Kept, Reported
  <2>8. ~options.interchange
    BY <1>1, <2>2, <2>5, <2>7 DEF Replies
  <2>9. a.groups = GroupReports(w, whole, uci)
    BY <1>1, <2>2 DEF Replies
  <2>10. CASE f.location.level = Group /\ f.location.group = g
    <3>1. g \in DOMAIN shape.groups /\ shape.groups[g]
      BY <1>2, <2>6, <2>10, NamedIs
    <3> DEFINE x == GroupReport(w, whole, uci, g)
    <3>2. GroupSays(x, w, whole, uci, g)
      BY <1>2, <1>3, GroupReportIs
    <3>3. f \in AboutGroup(w, g) /\ GroupRejects(w, g)
      BY <2>5, <2>7, <2>10 DEF AboutGroup, GroupRejects
    <3>4. x.index = g /\ x.action = Rejected /\ x.shown
      BY <2>2, <3>1, <3>2, <3>3 DEF GroupSays
    <3>5. x \in Range(a.groups)
      BY <1>2, <2>9, <3>1, <3>4, GroupReportsAre
    <3> HIDE DEF x
    <3> QED BY <3>4, <3>5 DEF RejectedIn
  <2>11. CASE MessageIndex(f) = m
    <3>1. f.location.level # Group
      BY <1>2, <1>4, <2>6, <2>11, NamedIs
    <3>2. HasFindings(w, m) /\ Rejects(w, m)
      BY <2>5, <2>7, <2>11 DEF HasFindings, Rejects
    <3>3. CASE shape.groups = <<>>
      <4>1. a.messages = MessageReports(w, uci, DOMAIN shape.messages)
        BY <1>1, <2>2, <3>3 DEF Replies
      <4>2. m \in Listed(w, uci, DOMAIN shape.messages)
        BY <2>2, <3>2 DEF Listed
      <4> QED BY <1>2, <1>3, <3>2, <4>1, <4>2, RejectedInList DEF RejectedIn
    <3>4. CASE shape.groups # <<>>
      <4>1. g \in DOMAIN shape.groups /\ shape.groups[g]
        BY <1>2, <2>6, <2>11, <3>1, <3>4, NamedIs
      <4> DEFINE x == GroupReport(w, whole, uci, g)
      <4>2. GroupSays(x, w, whole, uci, g)
        BY <1>2, <1>3, GroupReportIs
      <4>3. m \in Listed(w, uci, MessagesOf(g))
        BY <2>2, <3>2 DEF Listed, MessagesOf, GroupAround
      <4>4. CASE GroupRejects(w, g)
        <5>1. AboutGroup(w, g) # {}
          BY <4>4 DEF GroupRejects
        <5>2. x.index = g /\ x.action = Rejected /\ x.shown
          BY <2>2, <4>1, <4>2, <4>4, <5>1 DEF GroupSays
        <5>3. x \in Range(a.groups)
          BY <1>2, <2>9, <4>1, <5>2, GroupReportsAre
        <5> HIDE DEF x
        <5> QED BY <5>2, <5>3 DEF RejectedIn
      <4>5. CASE ~GroupRejects(w, g)
        <5>1. x.messages = MessageReports(w, uci, MessagesOf(g))
          BY <4>2, <4>5 DEF GroupSays
        <5>2. \E y \in Range(x.messages) : y.index = m /\ y.action = Rejected
          BY <1>2, <1>3, <3>2, <4>3, <5>1, RejectedInList
        <5>3. x.messages # <<>>
          BY <5>2, EmptyRange
        <5>4. x.shown
          BY <2>2, <4>1, <4>2, <5>3 DEF GroupSays
        <5>5. x \in Range(a.groups)
          BY <1>2, <2>9, <4>1, <5>4, GroupReportsAre
        <5> HIDE DEF x
        <5> QED BY <5>2, <5>5 DEF RejectedIn
      <4> QED BY <4>4, <4>5
    <3> QED BY <3>3, <3>4
  <2> QED BY <2>5, <2>6, <2>8, <2>10, <2>11
<1> QED BY <1>6, <1>7

-----------------------------------------------------------------------------
(* The findings there may be depend on the interchange and the options.    *)
LEMMA RaisableStays ==
  ASSUME UNCHANGED <<shape, options>>
  PROVE  Raisable' = Raisable
<1>1. Targets' = Targets
  BY DEF Targets, GroupAround
<1>2. \A l, kind : StatesCode(l, kind)' = StatesCode(l, kind)
  BY DEF StatesCode
<1>3. \A x : x \in Raisable' <=> x \in Raisable
  BY <1>1, <1>2 DEF Raisable
<1> QED BY <1>3

LEMMA FindingsStayTyped ==
  FindingsTyped /\ [ContrlNext]_contrlVars => FindingsTyped'
<1> SUFFICES ASSUME FindingsTyped, [ContrlNext]_contrlVars PROVE FindingsTyped'
  OBVIOUS
<1>1. shape' = shape /\ options' = options
  BY DEF ContrlNext, Raise, Assemble, contrlVars
<1>2. Raisable' = Raisable
  BY <1>1, RaisableStays
<1>3. raised' \in Seq(Raisable)
  BY DEF FindingsTyped, ContrlNext, Raise, Assemble, contrlVars
<1> QED BY <1>1, <1>2, <1>3 DEF FindingsTyped

LEMMA FindingsStart == ContrlInit => FindingsTyped
BY DEF ContrlInit, FindingsTyped

LEMMA RepliesStart == ContrlInit => ~Done
BY DEF ContrlInit, Done

(* A reply is what was assembled from what is still there.                 *)
LEMMA ReplyStep ==
  ASSUME [ContrlNext]_contrlVars
  PROVE  /\ shape' = shape /\ options' = options
         /\ \/ ~Done'
            \/ reply' = Assembled /\ raised' = raised
            \/ reply' = reply /\ raised' = raised
BY DEF ContrlNext, Raise, Assemble, contrlVars, Done

LEMMA VerdictsStay ==
  FindingsTyped /\ VerdictsAreTheFindings /\ [ContrlNext]_contrlVars => VerdictsAreTheFindings'
<1> SUFFICES ASSUME FindingsTyped, VerdictsAreTheFindings, [ContrlNext]_contrlVars, Done'
             PROVE  (\A m \in DOMAIN shape.messages : RejectedByReply(m) <=> RejectedByFindings(m))'
  BY DEF VerdictsAreTheFindings
<1>1. /\ shape' = shape /\ options' = options /\ raised' = raised
      /\ reply' = Assembled \/ reply' = reply
  BY ReplyStep
<1>2. \A m : RejectedByFindings(m)' <=> RejectedByFindings(m)
  BY <1>1 DEF RejectedByFindings, GroupAround
<1>3. \A m : RejectedByReply(m)' <=> RejectedIn(reply', m)
  BY <1>1 DEF RejectedByReply, RejectedIn, GroupAround
<1>4. CASE reply' = Assembled
  <2>1. \A m \in DOMAIN shape.messages : RejectedIn(reply', m) <=> RejectedByFindings(m)
    BY <1>4, ReplyTellsTheFindings
  <2> QED BY <1>1, <1>2, <1>3, <2>1
<1>5. CASE reply' = reply
  <2>1. \A m : RejectedByReply(m) <=> RejectedIn(reply, m)
    BY DEF RejectedByReply, RejectedIn
  <2>2. Done
    BY <1>5 DEF Done
  <2>3. \A m \in DOMAIN shape.messages : RejectedByReply(m) <=> RejectedByFindings(m)
    BY <2>2 DEF VerdictsAreTheFindings
  <2> QED BY <1>1, <1>2, <1>3, <1>5, <2>1, <2>3
<1> QED BY <1>1, <1>4, <1>5

(***************************************************************************)
(* For any interchange, findings of any number in any order, and all the   *)
(* options: a message is rejected by the reply (contrl.rs, assemble) just  *)
(* when something found rejects it, what surrounds it, or what has no      *)
(* name.                                                                   *)
(***************************************************************************)
THEOREM VerdictsAreAlwaysTheFindings ==
  ContrlSpec => []VerdictsAreTheFindings
<1> DEFINE Inv == FindingsTyped /\ VerdictsAreTheFindings
<1>1. ContrlInit => Inv
  BY FindingsStart, RepliesStart DEF VerdictsAreTheFindings
<1>2. Inv /\ [ContrlNext]_contrlVars => Inv'
  BY FindingsStayTyped, VerdictsStay
<1>3. Inv => VerdictsAreTheFindings
  OBVIOUS
<1> HIDE DEF Inv
<1> QED BY <1>1, <1>2, <1>3, PTL DEF ContrlSpec

-----------------------------------------------------------------------------
(* Under a rejected level there are only rejected ones.                    *)
AllRejected(reports) == \A r \in Range(reports) : r.action = Rejected

NothingUnder(a) ==
  /\ a.action = Rejected => AllRejected(a.messages) /\ AllRejected(a.groups)
  /\ a.action = Rejected /\ a.messages \o a.groups # <<>> => a.error = NoError
  /\ \A g \in Range(a.groups) : g.action = Rejected =>
       /\ AllRejected(g.messages)
       /\ g.messages # <<>> => g.error = NoError

LEMMA RejectedLists ==
  ASSUME IsShape(shape), NEW w, NEW uci, NEW among, uci
  PROVE  AllRejected(MessageReports(w, uci, among))
<1>1. Range(MessageReports(w, uci, among)) = {MessageVerdict(w, k) : k \in Listed(w, uci, among)}
  BY MessageReportsAre
<1> QED BY <1>1 DEF AllRejected, Listed

LEMMA ReplyHidesNothing ==
  ASSUME FindingsTyped, NEW a, a = Assembled
  PROVE  NothingUnder(a)
<1>1. PICK u, r, e, w, whole, uci :
        /\ u \in BOOLEAN /\ r \in BOOLEAN
        /\ TakenIsWhatWasFound(u, r, e, w)
        /\ Replies(a, u, r, e, w, whole, uci)
  BY AssembledIs
<1>2. IsShape(shape)
  BY ShapesTyped
<1>3. w \in Seq(Raisable)
  BY <1>1 DEF TakenIsWhatWasFound
<1>4. AllRejected(<<>>)
  BY EmptyRange DEF AllRejected
<1>5. CASE r
  <2>1. a.messages = <<>> /\ a.groups = <<>> /\ <<>> \o <<>> = <<>>
    BY <1>1, <1>5 DEF Replies
  <2> QED BY <1>4, <2>1, EmptyRange DEF NothingUnder
<1>6. CASE ~r
  <2>1. /\ a.action = Rejected <=> uci
        /\ a.error = IF uci THEN NoError ELSE e
        /\ a.messages = IF shape.groups # <<>> THEN <<>>
                        ELSE MessageReports(w, uci, DOMAIN shape.messages)
        /\ a.groups = GroupReports(w, whole, uci)
    BY <1>1, <1>6 DEF Replies
  <2>2. ASSUME NEW x \in Range(a.groups)
        PROVE  /\ uci => x.action = Rejected
               /\ x.action = Rejected => AllRejected(x.messages) /\ (x.messages # <<>> => x.error = NoError)
    <3>1. PICK k \in DOMAIN shape.groups : x = GroupReport(w, whole, uci, k) /\ x.shown
      BY <1>2, <2>1, <2>2, GroupReportsAre
    <3>2. GroupSays(x, w, whole, uci, k)
      BY <1>2, <1>3, <3>1, GroupReportIs
    <3>3. uci => x.action = Rejected
      BY <3>1, <3>2 DEF GroupSays
    <3>4. CASE GroupRejects(w, k)
      BY <1>4, <3>2, <3>3, <3>4 DEF GroupSays
    <3>5. CASE ~GroupRejects(w, k)
      <4>1. ASSUME x.action = Rejected PROVE uci
        <5>1. whole /\ \E j : Rejects(w, j)
          BY <3>2, <3>5, <4>1 DEF GroupSays
        <5>2. \E f \in Range(w) : f.rejects
          BY <5>1 DEF Rejects
        <5> QED BY <1>1, <5>1, <5>2 DEF Replies
      <4>2. x.messages = MessageReports(w, uci, MessagesOf(k)) /\ (x.action = Rejected => x.error = NoError)
        BY <3>2, <3>5 DEF GroupSays
      <4>3. uci => AllRejected(x.messages)
        BY <1>2, <4>2, RejectedLists
      <4> QED BY <3>3, <4>1, <4>2, <4>3
    <3> QED BY <3>4, <3>5
  <2>3. uci => AllRejected(a.messages)
    BY <1>2, <1>4, <2>1, RejectedLists
  <2>4. uci => AllRejected(a.groups)
    BY <2>2 DEF AllRejected
  <2> QED BY <2>1, <2>2, <2>3, <2>4 DEF NothingUnder
<1> QED BY <1>5, <1>6

LEMMA NothingUnderIs ==
  NothingUnderARejection <=> (Done => NothingUnder(reply))
BY DEF NothingUnderARejection, NothingUnder, AllRejected

(***************************************************************************)
(* For any interchange and any findings, what stands under a rejected      *)
(* interchange or group is rejected too, and a level rejected only for     *)
(* what it holds has no code of its own (contrl.rs, assemble).             *)
(***************************************************************************)
THEOREM RejectionsHideNothing ==
  ContrlSpec => []NothingUnderARejection
<1> DEFINE So == Done => NothingUnder(reply)
           Inv == FindingsTyped /\ So
<1>1. ContrlInit => Inv
  BY FindingsStart, RepliesStart
<1>2. FindingsTyped /\ So /\ [ContrlNext]_contrlVars => So'
  <2> SUFFICES ASSUME FindingsTyped, So, [ContrlNext]_contrlVars, Done' PROVE NothingUnder(reply')
    BY DEF NothingUnder, AllRejected
  <2>1. reply' = Assembled \/ (reply' = reply /\ Done)
    BY ReplyStep DEF Done
  <2> QED BY <2>1, ReplyHidesNothing
<1>3. Inv /\ [ContrlNext]_contrlVars => Inv'
  BY <1>2, FindingsStayTyped
<1>4. Inv => NothingUnderARejection
  BY NothingUnderIs
<1> HIDE DEF Inv
<1> QED BY <1>1, <1>3, <1>4, PTL DEF ContrlSpec

-----------------------------------------------------------------------------
(* The lines of the reply: where each code is from, for findings F.        *)
Belongs(line, F) ==
  line.code # NoError.code =>
    /\ Permitted(line.code, line.tag)
    /\ \E f \in F :
         /\ f.location.level = line.tag
         /\ f.location.error = line.code
         /\ line.tag = "UCM" => f.location.message = line.of
         /\ line.tag = "UCF" => f.location.group = line.of
         /\ line.tag = "UCS" => f.location.segment = line.of
         /\ line.tag = "UCD" => f.location.element = line.of

AllBelong(s, F) == \E X : s \in Seq(X) /\ \A x \in X : Belongs(x, F)

LEMMA NoneBelong ==
  ASSUME NEW F
  PROVE  AllBelong(<<>>, F)
<1>1. PICK X : X = {}
  OBVIOUS
<1>2. <<>> \in Seq(X) /\ \A x \in X : Belongs(x, F)
  BY <1>1
<1> QED BY <1>2 DEF AllBelong

LEMMA OneMoreBelongs ==
  ASSUME NEW F, NEW s, AllBelong(s, F), NEW x, Belongs(x, F)
  PROVE  AllBelong(Append(s, x), F)
<1>1. PICK X : s \in Seq(X) /\ \A y \in X : Belongs(y, F)
  BY DEF AllBelong
<1> DEFINE Y == X \cup {x}
<1>2. \A y \in Y : Belongs(y, F)
  BY <1>1
<1>3. s \in Seq(Y) /\ x \in Y
  BY <1>1
<1> HIDE DEF Y
<1>4. Append(s, x) \in Seq(Y)
  BY <1>3
<1> QED BY <1>2, <1>4 DEF AllBelong

LEMMA BothBelong ==
  ASSUME NEW F, NEW s, AllBelong(s, F), NEW t, AllBelong(t, F)
  PROVE  AllBelong(s \o t, F)
<1>1. PICK X : s \in Seq(X) /\ \A y \in X : Belongs(y, F)
  BY DEF AllBelong
<1>2. PICK Z : t \in Seq(Z) /\ \A y \in Z : Belongs(y, F)
  BY DEF AllBelong
<1> DEFINE Y == X \cup Z
<1>3. \A y \in Y : Belongs(y, F)
  BY <1>1, <1>2
<1>4. s \in Seq(Y) /\ t \in Seq(Y)
  BY <1>1, <1>2
<1> HIDE DEF Y
<1>5. s \o t \in Seq(Y)
  BY <1>4
<1> QED BY <1>3, <1>5 DEF AllBelong

LEMMA EachBelongs ==
  ASSUME NEW F, NEW s, AllBelong(s, F), NEW x \in Range(s)
  PROVE  Belongs(x, F)
<1>1. PICK X : s \in Seq(X) /\ \A y \in X : Belongs(y, F)
  BY DEF AllBelong
<1>2. DOMAIN s = 1..Len(s) /\ \A i \in 1..Len(s) : s[i] \in X
  BY <1>1
<1>3. PICK i \in DOMAIN s : x = s[i]
  BY DEF Range
<1> QED BY <1>1, <1>2, <1>3

(* A finding that may be raised is placed where its code may be. *)
LEMMA FindingsAreWell ==
  ASSUME NEW f \in Raisable
  PROVE  WellPlaced(f.location)
<1>1. PICK t, kind : f.location = Place(t, ForError(kind), StableCodes[kind])
  BY DEF Raisable
<1> QED BY <1>1, PlaceIsWell

(* The loops over the findings and the levels, after every turn. *)
LEMMA SegmentsStep ==
  ASSUME NEW s, Len(s) \in Nat, NEW m
  PROVE  /\ SegmentsAfter(s, m)[0] = Unreported
         /\ \A k \in 1..Len(s) : SegmentsAfter(s, m)[k] = ReportSegment(SegmentsAfter(s, m)[k-1], s[k], m)
<1> DEFINE Turn(v, k) == ReportSegment(v, s[k], m)
           Is(f, n) == f = [k \in 0..n |-> IF k = 0 THEN Unreported ELSE Turn(f[k-1], k)]
<1> HIDE DEF Turn
<1>1. \E f : Is(f, 0)
  <2> DEFINE f == [k \in 0..0 |-> Unreported]
  <2>1. Is(f, 0)
    OBVIOUS
  <2> QED BY <2>1
<1>2. ASSUME NEW n \in Nat, n # 0, NEW f, Is(f, n-1)
      PROVE  \E g : Is(g, n)
  <2> DEFINE g == [k \in 0..n |-> IF k = n THEN Turn(f[n-1], n) ELSE f[k]]
  <2>1. \A k \in 0..n-1 : g[k] = f[k]
    OBVIOUS
  <2>2. \A k \in 0..n : g[k] = IF k = 0 THEN Unreported ELSE Turn(g[k-1], k)
    BY <1>2, <2>1
  <2>3. Is(g, n)
    BY <2>2
  <2> QED BY <2>3
<1> DEFINE F == {n \in Nat : \E f : Is(f, n)}
<1>3. \A i \in 0+1..Len(s) : i-1 \in F => i \in F
  <2> HIDE DEF Is
  <2>1. SUFFICES ASSUME NEW i \in 0+1..Len(s), i-1 \in F PROVE i \in F
    OBVIOUS
  <2>2. i \in Nat /\ i # 0
    OBVIOUS
  <2>3. PICK f : Is(f, i-1)
    BY <2>1
  <2>4. \E g : Is(g, i)
    BY <1>2, <2>2, <2>3
  <2> QED BY <2>2, <2>4
<1>4. 0 \in F
  BY <1>1
<1>5. \A i \in 0..Len(s) : i \in F
  <2>1. Len(s) \in Int /\ 0 \in Int
    OBVIOUS
  <2> HIDE DEF F
  <2> QED BY <1>3, <1>4, <2>1, UpTo, Zenon
<1>6. \E f : Is(f, Len(s))
  BY <1>5
<1>7. SegmentsAfter(s, m) = CHOOSE f : Is(f, Len(s))
  BY DEF SegmentsAfter, Turn
<1>8. Is(SegmentsAfter(s, m), Len(s))
  <2> HIDE DEF Is
  <2> QED BY <1>6, <1>7
<1>9. /\ SegmentsAfter(s, m)[0] = Unreported
      /\ \A k \in 1..Len(s) : SegmentsAfter(s, m)[k] = Turn(SegmentsAfter(s, m)[k-1], k)
  <2> DEFINE f == SegmentsAfter(s, m)
  <2> HIDE DEF f
  <2>1. f = [k \in 0..Len(s) |-> IF k = 0 THEN Unreported ELSE Turn(f[k-1], k)]
    BY <1>8 DEF f
  <2>2. f[0] = Unreported /\ \A k \in 1..Len(s) : f[k] = Turn(f[k-1], k)
    BY <2>1
  <2> QED BY <2>2 DEF f
<1> QED BY <1>9 DEF Turn

LEMMA MessageLinesStep ==
  ASSUME NEW r, NEW ms, Len(ms) \in Nat
  PROVE  /\ MessageLinesAfter(r, ms)[0] = <<>>
         /\ \A k \in 1..Len(ms) : MessageLinesAfter(r, ms)[k] = Append(MessageLinesAfter(r, ms)[k-1], LevelLine("UCM", ms[k])) \o SegmentReports(r, ms[k].index)
<1> DEFINE Turn(v, k) == Append(v, LevelLine("UCM", ms[k])) \o SegmentReports(r, ms[k].index)
           Is(f, n) == f = [k \in 0..n |-> IF k = 0 THEN <<>> ELSE Turn(f[k-1], k)]
<1> HIDE DEF Turn
<1>1. \E f : Is(f, 0)
  <2> DEFINE f == [k \in 0..0 |-> <<>>]
  <2>1. Is(f, 0)
    OBVIOUS
  <2> QED BY <2>1
<1>2. ASSUME NEW n \in Nat, n # 0, NEW f, Is(f, n-1)
      PROVE  \E g : Is(g, n)
  <2> DEFINE g == [k \in 0..n |-> IF k = n THEN Turn(f[n-1], n) ELSE f[k]]
  <2>1. \A k \in 0..n-1 : g[k] = f[k]
    OBVIOUS
  <2>2. \A k \in 0..n : g[k] = IF k = 0 THEN <<>> ELSE Turn(g[k-1], k)
    BY <1>2, <2>1
  <2>3. Is(g, n)
    BY <2>2
  <2> QED BY <2>3
<1> DEFINE F == {n \in Nat : \E f : Is(f, n)}
<1>3. \A i \in 0+1..Len(ms) : i-1 \in F => i \in F
  <2> HIDE DEF Is
  <2>1. SUFFICES ASSUME NEW i \in 0+1..Len(ms), i-1 \in F PROVE i \in F
    OBVIOUS
  <2>2. i \in Nat /\ i # 0
    OBVIOUS
  <2>3. PICK f : Is(f, i-1)
    BY <2>1
  <2>4. \E g : Is(g, i)
    BY <1>2, <2>2, <2>3
  <2> QED BY <2>2, <2>4
<1>4. 0 \in F
  BY <1>1
<1>5. \A i \in 0..Len(ms) : i \in F
  <2>1. Len(ms) \in Int /\ 0 \in Int
    OBVIOUS
  <2> HIDE DEF F
  <2> QED BY <1>3, <1>4, <2>1, UpTo, Zenon
<1>6. \E f : Is(f, Len(ms))
  BY <1>5
<1>7. MessageLinesAfter(r, ms) = CHOOSE f : Is(f, Len(ms))
  BY DEF MessageLinesAfter, Turn
<1>8. Is(MessageLinesAfter(r, ms), Len(ms))
  <2> HIDE DEF Is
  <2> QED BY <1>6, <1>7
<1>9. /\ MessageLinesAfter(r, ms)[0] = <<>>
      /\ \A k \in 1..Len(ms) : MessageLinesAfter(r, ms)[k] = Turn(MessageLinesAfter(r, ms)[k-1], k)
  <2> DEFINE f == MessageLinesAfter(r, ms)
  <2> HIDE DEF f
  <2>1. f = [k \in 0..Len(ms) |-> IF k = 0 THEN <<>> ELSE Turn(f[k-1], k)]
    BY <1>8 DEF f
  <2>2. f[0] = <<>> /\ \A k \in 1..Len(ms) : f[k] = Turn(f[k-1], k)
    BY <2>1
  <2> QED BY <2>2 DEF f
<1> QED BY <1>9 DEF Turn

LEMMA GroupLinesStep ==
  ASSUME NEW r, Len(r.groups) \in Nat
  PROVE  /\ GroupLinesAfter(r)[0] = <<>>
         /\ \A k \in 1..Len(r.groups) : GroupLinesAfter(r)[k] = Append(GroupLinesAfter(r)[k-1], LevelLine("UCF", r.groups[k])) \o MessageLines(r, r.groups[k].messages)
<1> DEFINE Turn(v, k) == Append(v, LevelLine("UCF", r.groups[k])) \o MessageLines(r, r.groups[k].messages)
           Is(f, n) == f = [k \in 0..n |-> IF k = 0 THEN <<>> ELSE Turn(f[k-1], k)]
<1> HIDE DEF Turn
<1>1. \E f : Is(f, 0)
  <2> DEFINE f == [k \in 0..0 |-> <<>>]
  <2>1. Is(f, 0)
    OBVIOUS
  <2> QED BY <2>1
<1>2. ASSUME NEW n \in Nat, n # 0, NEW f, Is(f, n-1)
      PROVE  \E g : Is(g, n)
  <2> DEFINE g == [k \in 0..n |-> IF k = n THEN Turn(f[n-1], n) ELSE f[k]]
  <2>1. \A k \in 0..n-1 : g[k] = f[k]
    OBVIOUS
  <2>2. \A k \in 0..n : g[k] = IF k = 0 THEN <<>> ELSE Turn(g[k-1], k)
    BY <1>2, <2>1
  <2>3. Is(g, n)
    BY <2>2
  <2> QED BY <2>3
<1> DEFINE F == {n \in Nat : \E f : Is(f, n)}
<1>3. \A i \in 0+1..Len(r.groups) : i-1 \in F => i \in F
  <2> HIDE DEF Is
  <2>1. SUFFICES ASSUME NEW i \in 0+1..Len(r.groups), i-1 \in F PROVE i \in F
    OBVIOUS
  <2>2. i \in Nat /\ i # 0
    OBVIOUS
  <2>3. PICK f : Is(f, i-1)
    BY <2>1
  <2>4. \E g : Is(g, i)
    BY <1>2, <2>2, <2>3
  <2> QED BY <2>2, <2>4
<1>4. 0 \in F
  BY <1>1
<1>5. \A i \in 0..Len(r.groups) : i \in F
  <2>1. Len(r.groups) \in Int /\ 0 \in Int
    OBVIOUS
  <2> HIDE DEF F
  <2> QED BY <1>3, <1>4, <2>1, UpTo, Zenon
<1>6. \E f : Is(f, Len(r.groups))
  BY <1>5
<1>7. GroupLinesAfter(r) = CHOOSE f : Is(f, Len(r.groups))
  BY DEF GroupLinesAfter, Turn
<1>8. Is(GroupLinesAfter(r), Len(r.groups))
  <2> HIDE DEF Is
  <2> QED BY <1>6, <1>7
<1>9. /\ GroupLinesAfter(r)[0] = <<>>
      /\ \A k \in 1..Len(r.groups) : GroupLinesAfter(r)[k] = Turn(GroupLinesAfter(r)[k-1], k)
  <2> DEFINE f == GroupLinesAfter(r)
  <2> HIDE DEF f
  <2>1. f = [k \in 0..Len(r.groups) |-> IF k = 0 THEN <<>> ELSE Turn(f[k-1], k)]
    BY <1>8 DEF f
  <2>2. f[0] = <<>> /\ \A k \in 1..Len(r.groups) : f[k] = Turn(f[k-1], k)
    BY <2>1
  <2> QED BY <2>2 DEF f
<1> QED BY <1>9 DEF Turn

(* One finding: a UCS when its segment has none, then a UCD. *)
LEMMA ReportedSegmentBelongs ==
  ASSUME NEW F, NEW f \in F, WellPlaced(f.location), NEW m,
         NEW acc, AllBelong(acc.out, F)
  PROVE  AllBelong(ReportSegment(acc, f, m).out, F)
<1> DEFINE l == f.location
           ucs == Line("UCS", l.segment, IF l.level = SegmentLevel THEN l.error ELSE NoError.code)
           ucd == Line("UCD", l.element, l.error)
           opened == IF l.segment \notin acc.positions THEN Append(acc.out, ucs) ELSE acc.out
           out == IF l.level = DataElement THEN Append(opened, ucd) ELSE opened
           new == [positions |-> acc.positions \cup {l.segment}, out |-> out]
<1>1. ReportSegment(acc, f, m) = IF MessageIndex(f) # m \/ l.segment = NoOrdinal THEN acc ELSE new
  BY DEF ReportSegment
<1>2. Belongs(ucs, F)
  BY DEF Belongs, Line, SegmentLevel, WellPlaced
<1>3. l.level = DataElement => Belongs(ucd, F)
  BY DEF Belongs, Line, DataElement, WellPlaced
<1>4. AllBelong(opened, F)
  <2> HIDE DEF ucs
  <2> QED BY <1>2, OneMoreBelongs
<1>5. AllBelong(out, F)
  <2> HIDE DEF opened, ucd
  <2> QED BY <1>3, <1>4, OneMoreBelongs
<1>6. new.out = out
  OBVIOUS
<1> HIDE DEF new, out, l
<1> QED BY <1>1, <1>5, <1>6

LEMMA SegmentsBelong ==
  ASSUME NEW F, NEW s \in Seq(F), \A f \in F : WellPlaced(f.location), NEW r, r.findings = s, NEW m
  PROVE  AllBelong(SegmentReports(r, m), F)
<1> DEFINE n == Len(s)
           A(k) == SegmentsAfter(s, m)[k]
           G == {k \in 0..n : AllBelong(A(k).out, F)}
<1>1. n \in Nat /\ n \in Int /\ 0 \in Int /\ \A k \in 1..n : s[k] \in F
  OBVIOUS
<1>2. A(0).out = <<>> /\ \A k \in 1..n : A(k) = ReportSegment(A(k-1), s[k], m)
  BY <1>1, SegmentsStep DEF Unreported
<1> HIDE DEF A, n
<1>3. 0 \in G
  BY <1>1, <1>2, NoneBelong
<1>4. \A k \in 0+1..n : k-1 \in G => k \in G
  <2>1. SUFFICES ASSUME NEW k \in 1..n, AllBelong(A(k-1).out, F) PROVE AllBelong(A(k).out, F)
    BY <1>1
  <2> DEFINE f == s[k]
             acc == A(k-1)
  <2>2. f \in F /\ WellPlaced(f.location)
    BY <1>1
  <2>3. A(k) = ReportSegment(acc, f, m)
    BY <1>2
  <2>4. AllBelong(acc.out, F)
    BY <2>1
  <2> HIDE DEF f, acc
  <2> QED BY <2>2, <2>3, <2>4, ReportedSegmentBelongs
<1>5. \A k \in 0..n : k \in G
  <2> HIDE DEF G
  <2> QED BY <1>1, <1>3, <1>4, UpTo, Zenon
<1>6. AllBelong(A(n).out, F)
  BY <1>1, <1>5
<1> QED BY <1>6 DEF SegmentReports, A, n

(* The code of a level is that of the first finding about it. *)
LEMMA FirstErrorIs ==
  ASSUME NEW X, NEW s \in Seq(X)
  PROVE  FirstError(s) = NoError \/ \E f \in Range(s) : FirstError(s) = LevelError(f.location)
<1>1. CASE s = <<>>
  BY <1>1 DEF FirstError
<1>2. CASE s # <<>>
  <2>1. Len(s) \in Nat /\ Len(s) # 0 /\ DOMAIN s = 1..Len(s)
    BY <1>2, EmptySeq, LenProperties
  <2>2. Head(s) = s[1]
    OBVIOUS
  <2>3. s[1] \in Range(s)
    BY <2>1 DEF Range
  <2>4. FirstError(s) = LevelError(Head(s).location)
    BY <1>2 DEF FirstError
  <2> QED BY <2>2, <2>3, <2>4
<1> QED BY <1>1, <1>2

LEMMA CodelessBelongs ==
  ASSUME NEW F, NEW line, line.code = NoError.code
  PROVE  Belongs(line, F)
BY DEF Belongs

LEMMA MessageLevelBelongs ==
  ASSUME NEW F, \A f \in F : WellPlaced(f.location), NEW w \in Seq(F), NEW m
  PROVE  Belongs(LevelLine("UCM", MessageVerdict(w, m)), F)
<1> DEFINE own == MessageFindings(w, m)
           about == Among(own, {f \in Range(own) : f.location.level = Message})
           a == MessageVerdict(w, m)
           line == LevelLine("UCM", a)
<1>1. own \in Seq(F) /\ Range(own) = Range(w) \cap {f \in Range(w) : MessageIndex(f) = m}
  BY AmongIs DEF MessageFindings
<1>2. a.index = m /\ a.error = FirstError(about)
  BY DEF MessageVerdict
<1>3. line.tag = "UCM" /\ line.of = a.index /\ line.code = a.error.code
  BY DEF LevelLine
<1> HIDE DEF own, line, a
<1>4. about \in Seq(F) /\ Range(about) = Range(own) \cap {f \in Range(own) : f.location.level = Message}
  BY <1>1, AmongIs
<1> HIDE DEF about
<1>5. CASE FirstError(about) = NoError
  BY <1>2, <1>3, <1>5, CodelessBelongs DEF line, a
<1>6. ASSUME NEW f \in Range(about), FirstError(about) = LevelError(f.location)
      PROVE  Belongs(line, F)
  <2>1. f \in Range(w) /\ MessageIndex(f) = m /\ f.location.level = Message
    BY <1>1, <1>4, <1>6
  <2>2. f \in F
    <3>1. DOMAIN w = 1..Len(w) /\ \A i \in 1..Len(w) : w[i] \in F
      OBVIOUS
    <3> QED BY <2>1, <3>1 DEF Range
  <2>3. f.location.message = m
    BY <2>1 DEF MessageIndex
  <2>4. line.code = f.location.error
    BY <1>2, <1>3, <1>6 DEF LevelError
  <2> QED BY <1>2, <1>3, <2>1, <2>2, <2>3, <2>4 DEF Belongs, WellPlaced, Message
<1> QED BY <1>4, <1>5, <1>6, FirstErrorIs DEF line, a

LEMMA GroupLevelBelongs ==
  ASSUME NEW F, \A f \in F : WellPlaced(f.location), NEW w \in Seq(F), NEW whole, NEW uci, NEW g
  PROVE  Belongs(LevelLine("UCF", GroupReport(w, whole, uci, g)), F)
<1> DEFINE faults == GroupFindings(w, g)
           a == GroupReport(w, whole, uci, g)
           line == LevelLine("UCF", a)
<1>1. faults \in Seq(F)
      /\ Range(faults) = Range(w) \cap {f \in Range(w) : f.location.level = Group /\ f.location.group = g}
  BY AmongIs DEF GroupFindings
<1>2. a.index = g /\ (a.error = FirstError(faults) \/ a.error = NoError)
  <2> HIDE DEF faults
  <2> QED BY DEF GroupReport, faults
<1>3. line.tag = "UCF" /\ line.of = a.index /\ line.code = a.error.code
  BY DEF LevelLine
<1> HIDE DEF faults, line, a
<1>4. CASE a.error = NoError
  BY <1>3, <1>4, CodelessBelongs DEF line, a
<1>5. ASSUME NEW f \in Range(faults), a.error = LevelError(f.location)
      PROVE  Belongs(line, F)
  <2>1. f \in Range(w) /\ f.location.level = Group /\ f.location.group = g
    BY <1>1, <1>5
  <2>2. f \in F
    <3>1. DOMAIN w = 1..Len(w) /\ \A i \in 1..Len(w) : w[i] \in F
      OBVIOUS
    <3> QED BY <2>1, <3>1 DEF Range
  <2>3. line.code = f.location.error
    BY <1>3, <1>5 DEF LevelError
  <2> QED BY <1>2, <1>3, <2>1, <2>2, <2>3 DEF Belongs, WellPlaced, Group
<1> QED BY <1>1, <1>2, <1>4, <1>5, FirstErrorIs DEF line, a

(* The messages of a level. *)
Verdicts(ms, w) == Len(ms) \in Nat /\ \A k \in 1..Len(ms) : \E m : ms[k] = MessageVerdict(w, m)

LEMMA ReportsAreVerdicts ==
  ASSUME IsShape(shape), NEW w, NEW uci, NEW among
  PROVE  Verdicts(MessageReports(w, uci, among), w)
<1> DEFINE ms == MessageReports(w, uci, among)
<1>1. PICK X : ms \in Seq(X)
  BY MessageReportsAre
<1>2. Range(ms) = {MessageVerdict(w, m) : m \in Listed(w, uci, among)}
  BY MessageReportsAre
<1> HIDE DEF ms
<1>3. Len(ms) \in Nat /\ DOMAIN ms = 1..Len(ms)
  BY <1>1, LenProperties
<1>4. \A k \in 1..Len(ms) : ms[k] \in Range(ms)
  BY <1>3 DEF Range
<1> QED BY <1>2, <1>3, <1>4 DEF Verdicts, ms

LEMMA NoVerdicts ==
  ASSUME NEW w
  PROVE  Verdicts(<<>>, w)
BY DEF Verdicts

LEMMA MessageLinesBelong ==
  ASSUME NEW F, \A f \in F : WellPlaced(f.location), NEW w \in Seq(F),
         NEW r, r.findings = w, NEW ms, Verdicts(ms, w)
  PROVE  AllBelong(MessageLines(r, ms), F)
<1> DEFINE n == Len(ms)
           A(k) == MessageLinesAfter(r, ms)[k]
           G == {k \in 0..n : AllBelong(A(k), F)}
<1>1. n \in Nat /\ n \in Int /\ 0 \in Int
  BY DEF Verdicts
<1>2. /\ A(0) = <<>>
      /\ \A k \in 1..n : A(k) = Append(A(k-1), LevelLine("UCM", ms[k])) \o SegmentReports(r, ms[k].index)
  BY <1>1, MessageLinesStep
<1> HIDE DEF A
<1>3. 0 \in G
  BY <1>1, <1>2, NoneBelong
<1>4. \A k \in 0+1..n : k-1 \in G => k \in G
  <2>1. SUFFICES ASSUME NEW k \in 1..n, AllBelong(A(k-1), F) PROVE AllBelong(A(k), F)
    BY <1>1
  <2>2. PICK m : ms[k] = MessageVerdict(w, m)
    BY DEF Verdicts
  <2> DEFINE before == A(k-1)
             line == LevelLine("UCM", ms[k])
             under == SegmentReports(r, ms[k].index)
  <2>3. Belongs(line, F)
    BY <2>2, MessageLevelBelongs
  <2>4. AllBelong(under, F)
    BY SegmentsBelong
  <2>5. A(k) = Append(before, line) \o under /\ AllBelong(before, F)
    BY <1>2, <2>1
  <2> HIDE DEF before, line, under
  <2>6. AllBelong(Append(before, line), F)
    BY <2>3, <2>5, OneMoreBelongs
  <2> QED BY <2>4, <2>5, <2>6, BothBelong
<1>5. \A k \in 0..n : k \in G
  <2> HIDE DEF G, n
  <2> QED BY <1>1, <1>3, <1>4, UpTo, Zenon
<1>6. AllBelong(A(n), F)
  BY <1>1, <1>5
<1> QED BY <1>6 DEF MessageLines, A, n

(* The groups. *)
Reports(gs, w) ==
  Len(gs) \in Nat /\ \A k \in 1..Len(gs) : \E whole, uci, g : gs[k] = GroupReport(w, whole, uci, g)

LEMMA GroupsAreReports ==
  ASSUME IsShape(shape), NEW w, NEW whole, NEW uci
  PROVE  Reports(GroupReports(w, whole, uci), w)
<1> DEFINE n == Len(shape.groups)
           reports == [g \in 1..n |-> GroupReport(w, whole, uci, g)]
           X == Range(reports)
           gs == GroupReports(w, whole, uci)
<1>1. n \in Nat /\ DOMAIN shape.groups = 1..n
  BY LenProperties DEF IsShape
<1>2. gs = Among(reports, {r \in X : r.shown})
  BY DEF GroupReports
<1> HIDE DEF n
<1>3. X = {GroupReport(w, whole, uci, g) : g \in 1..n}
  BY DEF Range
<1>4. reports \in Seq(X)
  <2>1. \A g \in 1..n : GroupReport(w, whole, uci, g) \in X
    BY <1>3
  <2> HIDE DEF X
  <2> QED BY <1>1, <2>1
<1>5. gs \in Seq(X)
  <2> HIDE DEF reports
  <2> QED BY <1>2, <1>4, AmongIs
<1> HIDE DEF gs, X
<1>6. Len(gs) \in Nat /\ \A k \in 1..Len(gs) : gs[k] \in X
  BY <1>5
<1> QED BY <1>3, <1>6 DEF Reports, gs

LEMMA NoReports ==
  ASSUME NEW w
  PROVE  Reports(<<>>, w)
BY DEF Reports

LEMMA GroupLinesBelong ==
  ASSUME IsShape(shape), NEW F, F \subseteq Raisable, NEW w \in Seq(F), NEW r, r.findings = w, Reports(r.groups, w)
  PROVE  AllBelong(GroupLinesAfter(r)[Len(r.groups)], F)
<1> DEFINE gs == r.groups
           n == Len(gs)
           A(k) == GroupLinesAfter(r)[k]
           G == {k \in 0..n : AllBelong(A(k), F)}
<1>1. n \in Nat /\ n \in Int /\ 0 \in Int
  BY DEF Reports
<1>2. /\ A(0) = <<>>
      /\ \A k \in 1..n : A(k) = Append(A(k-1), LevelLine("UCF", gs[k])) \o MessageLines(r, gs[k].messages)
  BY <1>1, GroupLinesStep
<1>3. \A f \in F : WellPlaced(f.location)
  BY FindingsAreWell
<1>4. w \in Seq(Raisable)
  OBVIOUS
<1> HIDE DEF A
<1>5. 0 \in G
  BY <1>1, <1>2, NoneBelong
<1>6. \A k \in 0+1..n : k-1 \in G => k \in G
  <2>1. SUFFICES ASSUME NEW k \in 1..n, AllBelong(A(k-1), F) PROVE AllBelong(A(k), F)
    BY <1>1
  <2>2. PICK whole, uci, g : gs[k] = GroupReport(w, whole, uci, g)
    BY DEF Reports
  <2> DEFINE before == A(k-1)
             a == gs[k]
             line == LevelLine("UCF", a)
             ms == a.messages
             under == MessageLines(r, ms)
  <2>3. Belongs(line, F)
    BY <1>3, <2>2, GroupLevelBelongs
  <2>4. Verdicts(ms, w)
    <3>1. GroupSays(a, w, whole, uci, g)
      BY <1>4, <2>2, GroupReportIs
    <3>2. ms = <<>> \/ ms = MessageReports(w, uci, MessagesOf(g))
      BY <3>1 DEF GroupSays
    <3> HIDE DEF ms
    <3> QED BY <3>2, NoVerdicts, ReportsAreVerdicts
  <2>5. A(k) = Append(before, line) \o under /\ AllBelong(before, F)
    BY <1>2, <2>1
  <2> HIDE DEF before, line, ms
  <2>6. AllBelong(under, F)
    BY <1>3, <2>4, MessageLinesBelong
  <2> HIDE DEF under
  <2>7. AllBelong(Append(before, line), F)
    BY <2>3, <2>5, OneMoreBelongs
  <2> QED BY <2>5, <2>6, <2>7, BothBelong
<1>7. \A k \in 0..n : k \in G
  <2> HIDE DEF G, n
  <2> QED BY <1>1, <1>5, <1>6, UpTo, Zenon
<1>8. AllBelong(A(n), F)
  BY <1>1, <1>7
<1> QED BY <1>8 DEF A, n, gs

(* The interchange, and then all the lines of the reply. *)
LEMMA InterchangeBelongs ==
  ASSUME NEW F, \A f \in F : WellPlaced(f.location), NEW error,
         error = NoError \/ \E f \in F : f.location.level = Interchange /\ error = LevelError(f.location),
         NEW line, line.tag = "UCI", line.code = error.code
  PROVE  Belongs(line, F)
<1>1. CASE error = NoError
  BY <1>1, CodelessBelongs
<1>2. ASSUME NEW f \in F, f.location.level = Interchange, error = LevelError(f.location)
      PROVE  Belongs(line, F)
  <2>1. line.code = f.location.error
    BY <1>2 DEF LevelError
  <2> QED BY <1>2, <2>1 DEF Belongs, WellPlaced, Interchange
<1> QED BY <1>1, <1>2

LEMMA RaisedAre ==
  ASSUME FindingsTyped
  PROVE  Range(raised) \subseteq Raisable
<1>1. raised \in Seq(Raisable)
  BY DEF FindingsTyped
<1>2. DOMAIN raised = 1..Len(raised) /\ \A i \in 1..Len(raised) : raised[i] \in Raisable
  BY <1>1
<1> QED BY <1>2 DEF Range

LEMMA AmongThose ==
  ASSUME NEW X, NEW s \in Seq(X), NEW F, Range(s) \subseteq F
  PROVE  s \in Seq(F)
<1>1. Len(s) \in Nat /\ DOMAIN s = 1..Len(s) /\ s = [i \in 1..Len(s) |-> s[i]]
  BY LenProperties
<1>2. \A i \in 1..Len(s) : s[i] \in F
  BY <1>1 DEF Range
<1> QED BY <1>1, <1>2

LEMMA LinesBelong ==
  ASSUME FindingsTyped, NEW a, a = Assembled
  PROVE  AllBelong(Lines(a), Range(raised))
<1> DEFINE F == Range(raised)
           line == [tag |-> "UCI", of |-> 0, code |-> a.error.code, action |-> a.action]
           ms == a.messages
           inMessages == MessageLines(a, ms)
           inGroups == GroupLinesAfter(a)[Len(a.groups)]
           w == a.findings
<1>1. PICK u, r, e, v, whole, uci :
        /\ u \in BOOLEAN /\ r \in BOOLEAN
        /\ TakenIsWhatWasFound(u, r, e, v)
        /\ Replies(a, u, r, e, v, whole, uci)
  BY AssembledIs
<1>2. IsShape(shape)
  BY ShapesTyped
<1>3. F \subseteq Raisable /\ \A f \in F : WellPlaced(f.location)
  BY RaisedAre, FindingsAreWell
<1>4. v \in Seq(F)
  <2>1. v \in Seq(Raisable) /\ Range(v) \subseteq F
    BY <1>1 DEF TakenIsWhatWasFound
  <2> HIDE DEF F
  <2> QED BY <2>1, AmongThose
<1>5. e = NoError \/ \E f \in F : f.location.level = Interchange /\ e = LevelError(f.location)
  BY <1>1 DEF TakenIsWhatWasFound, States
<1> HIDE DEF F
<1>6. w \in Seq(F) /\ Verdicts(ms, w) /\ Reports(a.groups, w)
  <2>1. CASE r
    <3>1. ms = <<>> /\ a.groups = <<>> /\ w = <<>>
      BY <1>1, <2>1 DEF Replies
    <3> HIDE DEF w, ms
    <3> QED BY <3>1, NoVerdicts, NoReports
  <2>2. CASE ~r
    <3>1. /\ w = v /\ a.groups = GroupReports(v, whole, uci)
          /\ ms = <<>> \/ ms = MessageReports(v, uci, DOMAIN shape.messages)
      BY <1>1, <2>2 DEF Replies
    <3> HIDE DEF w, ms
    <3> QED BY <1>2, <1>4, <3>1, NoVerdicts, ReportsAreVerdicts, GroupsAreReports
  <2> QED BY <1>1, <2>1, <2>2
<1>7. a.error = NoError \/ a.error = e
  BY <1>1 DEF Replies
<1>8. Belongs(line, F)
  <2>1. line.tag = "UCI" /\ line.code = a.error.code
    OBVIOUS
  <2> HIDE DEF line
  <2> QED BY <1>3, <1>5, <1>7, <2>1, InterchangeBelongs
<1>9. AllBelong(inMessages, F)
  BY <1>3, <1>6, MessageLinesBelong
<1>10. AllBelong(inGroups, F)
  BY <1>2, <1>3, <1>6, GroupLinesBelong
<1>11. AllBelong(<<line>>, F)
  <2>1. <<line>> = Append(<<>>, line)
    OBVIOUS
  <2> HIDE DEF line
  <2> QED BY <1>8, <2>1, NoneBelong, OneMoreBelongs
<1>12. Lines(a) = <<line>> \o inMessages \o inGroups
  BY DEF Lines
<1> HIDE DEF line, inMessages, inGroups
<1> QED BY <1>9, <1>10, <1>11, <1>12, BothBelong DEF F

-----------------------------------------------------------------------------
(* The segments at fault: each is opened once, its elements after that.    *)
Opening(out) == {i \in 1..Len(out) : out[i].tag = "UCS"}

IsList(out) == \E X : out \in Seq(X)

Once(out, positions) ==
  /\ IsList(out)
  /\ {out[i].of : i \in Opening(out)} = positions
  /\ \A i, j \in Opening(out) : out[i].of = out[j].of => i = j

After(out, f) ==
  \E i \in Opening(out), j \in 1..Len(out) :
    /\ i < j
    /\ out[i].of = f.location.segment
    /\ out[j] = Line("UCD", f.location.element, f.location.error)

LEMMA OneMoreLine ==
  ASSUME NEW out, IsList(out), NEW x
  PROVE  /\ IsList(Append(out, x))
         /\ Len(out) \in Nat /\ Len(Append(out, x)) = Len(out) + 1
         /\ Append(out, x)[Len(out) + 1] = x
         /\ \A i \in 1..Len(out) : Append(out, x)[i] = out[i]
<1>1. PICK X : out \in Seq(X)
  BY DEF IsList
<1> DEFINE Y == X \cup {x}
<1>2. out \in Seq(Y) /\ x \in Y
  BY <1>1
<1> HIDE DEF Y
<1>3. /\ Append(out, x) \in Seq(Y)
      /\ Len(out) \in Nat /\ Len(Append(out, x)) = Len(out) + 1
      /\ Append(out, x)[Len(out) + 1] = x
      /\ \A i \in 1..Len(out) : Append(out, x)[i] = out[i]
  BY <1>2, AppendProperties
<1>4. IsList(Append(out, x))
  BY <1>3 DEF IsList
<1> QED BY <1>3, <1>4

LEMMA OpenedOnce ==
  ASSUME NEW out, NEW positions, Once(out, positions), NEW x, x.tag = "UCS", x.of \notin positions
  PROVE  Once(Append(out, x), positions \cup {x.of})
<1> DEFINE t == Append(out, x)
           n == Len(out)
<1>1. /\ IsList(t)
      /\ n \in Nat /\ Len(t) = n + 1 /\ t[n + 1] = x
      /\ \A i \in 1..n : t[i] = out[i]
  BY OneMoreLine DEF Once
<1>2. /\ {out[i].of : i \in Opening(out)} = positions
      /\ \A i, j \in Opening(out) : out[i].of = out[j].of => i = j
  BY DEF Once
<1> HIDE DEF t
<1>3. Opening(t) = Opening(out) \cup {n + 1}
  BY <1>1 DEF Opening
<1>4. \A i \in Opening(out) : i \in 1..n /\ i # n + 1 /\ t[i] = out[i] /\ out[i].of \in positions
  BY <1>1, <1>2 DEF Opening
<1>5. {t[i].of : i \in Opening(t)} = positions \cup {x.of}
  BY <1>1, <1>2, <1>3, <1>4
<1>6. \A i, j \in Opening(t) : t[i].of = t[j].of => i = j
  <2>1. \A i, j \in Opening(out) : t[i].of = t[j].of => i = j
    BY <1>2, <1>4
  <2>2. \A i \in Opening(out) : t[i].of # t[n + 1].of
    BY <1>1, <1>4
  <2> HIDE DEF n
  <2> QED BY <1>3, <2>1, <2>2
<1> QED BY <1>1, <1>5, <1>6 DEF Once, t

LEMMA StillOnce ==
  ASSUME NEW out, NEW positions, Once(out, positions), NEW x, x.tag # "UCS"
  PROVE  Once(Append(out, x), positions)
<1> DEFINE t == Append(out, x)
           n == Len(out)
<1>1. /\ IsList(t)
      /\ n \in Nat /\ Len(t) = n + 1 /\ t[n + 1] = x
      /\ \A i \in 1..n : t[i] = out[i]
  BY OneMoreLine DEF Once
<1>2. /\ {out[i].of : i \in Opening(out)} = positions
      /\ \A i, j \in Opening(out) : out[i].of = out[j].of => i = j
  BY DEF Once
<1> HIDE DEF t
<1>3. Opening(t) = Opening(out) /\ \A i \in Opening(out) : t[i] = out[i]
  BY <1>1 DEF Opening
<1>4. {t[i].of : i \in Opening(t)} = positions
  BY <1>2, <1>3
<1>5. \A i, j \in Opening(t) : t[i].of = t[j].of => i = j
  BY <1>2, <1>3
<1> QED BY <1>1, <1>4, <1>5 DEF Once, t

LEMMA StillAfter ==
  ASSUME NEW out, IsList(out), NEW f, After(out, f), NEW x
  PROVE  After(Append(out, x), f)
<1> DEFINE t == Append(out, x)
           n == Len(out)
<1>1. n \in Nat /\ Len(t) = n + 1 /\ \A i \in 1..n : t[i] = out[i]
  BY OneMoreLine
<1>2. PICK i \in Opening(out), j \in 1..n :
        /\ i < j
        /\ out[i].of = f.location.segment
        /\ out[j] = Line("UCD", f.location.element, f.location.error)
  BY DEF After
<1> HIDE DEF t
<1>3. i \in 1..n /\ i \in Opening(t) /\ t[i] = out[i]
  BY <1>1 DEF Opening
<1>4. j \in 1..Len(t) /\ t[j] = out[j]
  BY <1>1
<1> QED BY <1>2, <1>3, <1>4 DEF After, t

LEMMA NowAfter ==
  ASSUME NEW out, NEW positions, Once(out, positions), NEW f, f.location.segment \in positions,
         NEW x, x = Line("UCD", f.location.element, f.location.error)
  PROVE  After(Append(out, x), f)
<1> DEFINE t == Append(out, x)
           n == Len(out)
<1>1. n \in Nat /\ Len(t) = n + 1 /\ t[n + 1] = x /\ \A i \in 1..n : t[i] = out[i]
  BY OneMoreLine DEF Once
<1>2. PICK i \in Opening(out) : out[i].of = f.location.segment
  BY DEF Once
<1> HIDE DEF t
<1>3. i \in 1..n /\ i \in Opening(t) /\ t[i] = out[i]
  BY <1>1 DEF Opening
<1>4. n + 1 \in 1..Len(t) /\ i < n + 1
  BY <1>1, <1>3
<1> QED BY <1>1, <1>2, <1>3, <1>4 DEF After, t

(* What the loop has of the findings in S. *)
About(f, m) == MessageIndex(f) = m /\ f.location.segment # NoOrdinal

OpenedFor(positions, out, S, m) ==
  /\ Once(out, positions)
  /\ positions = {f.location.segment : f \in {g \in S : About(g, m)}}
  /\ \A f \in S : About(f, m) /\ f.location.level = DataElement => After(out, f)

LEMMA OpenedStep ==
  ASSUME NEW acc, NEW S, NEW m, OpenedFor(acc.positions, acc.out, S, m), NEW f,
         NEW new, new = ReportSegment(acc, f, m)
  PROVE  OpenedFor(new.positions, new.out, S \cup {f}, m)
<1> DEFINE l == f.location
           ucs == Line("UCS", l.segment, IF l.level = SegmentLevel THEN l.error ELSE NoError.code)
           ucd == Line("UCD", l.element, l.error)
           opened == IF l.segment \notin acc.positions THEN Append(acc.out, ucs) ELSE acc.out
           out == IF l.level = DataElement THEN Append(opened, ucd) ELSE opened
           P == acc.positions \cup {l.segment}
           T == S \cup {f}
<1>1. /\ Once(acc.out, acc.positions)
      /\ acc.positions = {g.location.segment : g \in {h \in S : About(h, m)}}
      /\ \A g \in S : About(g, m) /\ g.location.level = DataElement => After(acc.out, g)
  BY DEF OpenedFor
<1>2. CASE ~About(f, m)
  <2>1. new = acc
    BY <1>2 DEF ReportSegment, About
  <2>2. \A g \in T : About(g, m) => g \in S
    BY <1>2
  <2>3. {g \in T : About(g, m)} = {g \in S : About(g, m)}
    BY <2>2
  <2> HIDE DEF T
  <2> QED BY <1>1, <2>1, <2>2, <2>3 DEF OpenedFor, T
<1>3. CASE About(f, m)
  <2>1. new.positions = P /\ new.out = out
    BY <1>3 DEF ReportSegment, About
  <2>2. ucs.tag = "UCS" /\ ucs.of = l.segment /\ ucd.tag # "UCS"
    BY DEF Line
  <2>3. ucd = Line("UCD", f.location.element, f.location.error)
    OBVIOUS
  <2> HIDE DEF ucs, ucd
  <2>4. IsList(acc.out)
    BY <1>1 DEF Once
  <2>5. /\ Once(opened, P)
        /\ \A g \in S : About(g, m) /\ g.location.level = DataElement => After(opened, g)
    <3>1. CASE l.segment \notin acc.positions
      <4>1. opened = Append(acc.out, ucs)
        BY <3>1
      <4>2. Once(Append(acc.out, ucs), P)
        BY <1>1, <2>2, <3>1, OpenedOnce
      <4>3. \A g \in S : About(g, m) /\ g.location.level = DataElement => After(Append(acc.out, ucs), g)
        BY <1>1, <2>4, StillAfter
      <4> HIDE DEF opened, P
      <4> QED BY <4>1, <4>2, <4>3
    <3>2. CASE l.segment \in acc.positions
      <4>1. opened = acc.out /\ P = acc.positions
        BY <3>2
      <4> HIDE DEF opened, P
      <4> QED BY <1>1, <4>1
    <3> QED BY <3>1, <3>2
  <2>6. IsList(opened)
    BY <2>5 DEF Once
  <2>7. f.location.segment \in P
    OBVIOUS
  <2>8. P = {g.location.segment : g \in {h \in T : About(h, m)}}
    BY <1>1, <1>3
  <2> HIDE DEF opened, P
  <2>9. /\ Once(out, P)
        /\ \A g \in T : About(g, m) /\ g.location.level = DataElement => After(out, g)
    <3>1. CASE l.level = DataElement
      <4>1. out = Append(opened, ucd)
        BY <3>1
      <4>2. Once(Append(opened, ucd), P)
        BY <2>2, <2>5, StillOnce
      <4>3. After(Append(opened, ucd), f)
        BY <2>3, <2>5, <2>7, NowAfter
      <4>4. \A g \in S : About(g, m) /\ g.location.level = DataElement => After(Append(opened, ucd), g)
        BY <2>5, <2>6, StillAfter
      <4> HIDE DEF out
      <4> QED BY <4>1, <4>2, <4>3, <4>4
    <3>2. CASE l.level # DataElement
      BY <2>5, <3>2
    <3> QED BY <3>1, <3>2
  <2> HIDE DEF out, T
  <2> QED BY <2>1, <2>8, <2>9 DEF OpenedFor, T
<1> QED BY <1>2, <1>3

LEMMA OpenedStart ==
  ASSUME NEW m
  PROVE  OpenedFor({}, <<>>, {}, m)
<1>1. <<>> \in Seq({}) /\ Opening(<<>>) = {}
  BY DEF Opening
<1>2. PICK X : X = {}
  OBVIOUS
<1>3. <<>> \in Seq(X)
  BY <1>1, <1>2
<1>4. Once(<<>>, {})
  BY <1>1, <1>3 DEF Once, IsList
<1> QED BY <1>4 DEF OpenedFor

LEMMA SegmentsAreOpened ==
  ASSUME NEW X, NEW s \in Seq(X), NEW r, r.findings = s, NEW m
  PROVE  \E positions : OpenedFor(positions, SegmentReports(r, m), Range(s), m)
<1> DEFINE n == Len(s)
           A(k) == SegmentsAfter(s, m)[k]
           Upto(k) == {s[i] : i \in 1..k}
           G == {k \in 0..n : OpenedFor(A(k).positions, A(k).out, Upto(k), m)}
<1>1. n \in Nat /\ n \in Int /\ 0 \in Int
  OBVIOUS
<1>2. /\ A(0).positions = {} /\ A(0).out = <<>>
      /\ \A k \in 1..n : A(k) = ReportSegment(A(k-1), s[k], m)
  BY <1>1, SegmentsStep DEF Unreported
<1>3. Upto(0) = {} /\ Range(s) = Upto(n)
  BY LenProperties DEF Range
<1>4. \A k \in 1..n : Upto(k) = Upto(k-1) \cup {s[k]}
  BY <1>1
<1> HIDE DEF A, n, Upto
<1>5. 0 \in G
  <2> DEFINE start == A(0)
  <2>1. start.positions = {} /\ start.out = <<>> /\ Upto(0) = {}
    BY <1>2, <1>3
  <2> HIDE DEF start
  <2>2. OpenedFor(start.positions, start.out, Upto(0), m)
    BY <2>1, OpenedStart
  <2>3. 0 \in 0..n
    BY <1>1
  <2> QED BY <2>2, <2>3 DEF start
<1>6. \A k \in 0+1..n : k-1 \in G => k \in G
  <2>1. SUFFICES ASSUME NEW k \in 1..n, OpenedFor(A(k-1).positions, A(k-1).out, Upto(k-1), m)
                 PROVE  OpenedFor(A(k).positions, A(k).out, Upto(k), m)
    BY <1>1
  <2> DEFINE acc == A(k-1)
             new == A(k)
             S == Upto(k-1)
             f == s[k]
  <2>2. new = ReportSegment(acc, f, m) /\ Upto(k) = S \cup {f}
    BY <1>2, <1>4
  <2>3. OpenedFor(acc.positions, acc.out, S, m)
    BY <2>1
  <2> HIDE DEF acc, new, S, f
  <2>4. OpenedFor(new.positions, new.out, S \cup {f}, m)
    BY <2>2, <2>3, OpenedStep
  <2> QED BY <2>2, <2>4 DEF new
<1>7. \A k \in 0..n : k \in G
  <2> HIDE DEF G
  <2> QED BY <1>1, <1>5, <1>6, UpTo, Zenon
<1>8. OpenedFor(A(n).positions, A(n).out, Upto(n), m)
  BY <1>1, <1>7
<1> QED BY <1>3, <1>8 DEF SegmentReports, A, n

(* What is said of the segments of a message, by any reply. *)
SegmentsOnce(a, m) ==
  LET lines == SegmentReports(a, m)
      found == {f \in Range(a.findings) : MessageIndex(f) = m /\ f.location.segment # NoOrdinal}
      opening == {i \in DOMAIN lines : lines[i].tag = "UCS"}
  IN  /\ {lines[i].of : i \in opening} = {f.location.segment : f \in found}
      /\ \A i, j \in opening : lines[i].of = lines[j].of => i = j
      /\ \A f \in found : f.location.level = DataElement =>
           \E i \in opening, j \in DOMAIN lines :
             /\ i < j
             /\ lines[i].of = f.location.segment
             /\ lines[j] = Line("UCD", f.location.element, f.location.error)

LEMMA ReplyOpensOnce ==
  ASSUME FindingsTyped, NEW a, a = Assembled, NEW m
  PROVE  SegmentsOnce(a, m)
<1> DEFINE lines == SegmentReports(a, m)
           w == a.findings
           found == {f \in Range(w) : MessageIndex(f) = m /\ f.location.segment # NoOrdinal}
           opening == {i \in DOMAIN lines : lines[i].tag = "UCS"}
<1>1. PICK u, r, e, v, whole, uci :
        /\ u \in BOOLEAN /\ r \in BOOLEAN
        /\ TakenIsWhatWasFound(u, r, e, v)
        /\ Replies(a, u, r, e, v, whole, uci)
  BY AssembledIs
<1>2. w \in Seq(Raisable)
  <2>1. v \in Seq(Raisable)
    BY <1>1 DEF TakenIsWhatWasFound
  <2>2. CASE r
    <3>1. w = <<>>
      BY <1>1, <2>2 DEF Replies
    <3> HIDE DEF w
    <3> QED BY <3>1
  <2>3. CASE ~r
    BY <1>1, <2>1, <2>3 DEF Replies
  <2> QED BY <1>1, <2>2, <2>3
<1>3. PICK positions : OpenedFor(positions, lines, Range(w), m)
  <2> HIDE DEF lines
  <2> QED BY <1>2, SegmentsAreOpened DEF lines
<1> HIDE DEF lines, w
<1>4. Once(lines, positions)
  BY <1>3 DEF OpenedFor
<1>5. DOMAIN lines = 1..Len(lines) /\ opening = Opening(lines)
  <2>1. PICK X : lines \in Seq(X)
    BY <1>4 DEF Once, IsList
  <2>2. DOMAIN lines = 1..Len(lines)
    BY <2>1
  <2> QED BY <2>2 DEF Opening
<1>6. positions = {f.location.segment : f \in found}
  BY <1>3 DEF OpenedFor, About
<1>7. {lines[i].of : i \in opening} = positions /\ \A i, j \in opening : lines[i].of = lines[j].of => i = j
  BY <1>4, <1>5 DEF Once
<1>8. \A f \in found : f.location.level = DataElement => After(lines, f)
  BY <1>3 DEF OpenedFor, About
<1>9. \A f \in found : f.location.level = DataElement =>
        \E i \in opening, j \in DOMAIN lines :
          /\ i < j
          /\ lines[i].of = f.location.segment
          /\ lines[j] = Line("UCD", f.location.element, f.location.error)
  BY <1>5, <1>8 DEF After
<1> QED BY <1>6, <1>7, <1>9 DEF SegmentsOnce, lines, w

LEMMA CodesStay ==
  FindingsTyped /\ CodesAreWhereTheyBelong /\ [ContrlNext]_contrlVars => CodesAreWhereTheyBelong'
<1> SUFFICES ASSUME FindingsTyped, CodesAreWhereTheyBelong, [ContrlNext]_contrlVars, Done'
             PROVE  /\ \A m \in DOMAIN shape'.messages : SegmentsOnce(reply', m)
                    /\ \A line \in Range(Lines(reply')) : Belongs(line, Range(raised'))
  BY DEF CodesAreWhereTheyBelong, SegmentsAreReportedOnce, SegmentsOnce, Belongs
<1>1. /\ shape' = shape /\ raised' = raised
      /\ reply' = Assembled \/ reply' = reply
  BY ReplyStep
<1>2. CASE reply' = Assembled
  <2>1. AllBelong(Lines(reply'), Range(raised))
    BY <1>2, LinesBelong
  <2>2. \A line \in Range(Lines(reply')) : Belongs(line, Range(raised))
    BY <2>1, EachBelongs
  <2>3. \A m : SegmentsOnce(reply', m)
    BY <1>2, ReplyOpensOnce
  <2> QED BY <1>1, <2>2, <2>3
<1>3. CASE reply' = reply
  <2>1. Done
    BY <1>3 DEF Done
  <2>2. \A m \in DOMAIN shape.messages : SegmentsOnce(reply, m)
    BY <2>1 DEF CodesAreWhereTheyBelong, SegmentsAreReportedOnce, SegmentsOnce
  <2>3. \A line \in Range(Lines(reply)) : Belongs(line, Range(raised))
    BY <2>1 DEF CodesAreWhereTheyBelong, Belongs
  <2> QED BY <1>1, <1>3, <2>2, <2>3
<1> QED BY <1>1, <1>2, <1>3

(***************************************************************************)
(* For any interchange and any findings: each code of the reply is at a    *)
(* level that Annex A permits it at, and is that of a finding placed there *)
(* (contrl.rs, segments); each segment at fault is opened once, and its    *)
(* elements come after it (segment_reports).                               *)
(***************************************************************************)
THEOREM CodesAreAlwaysWhereTheyBelong ==
  ContrlSpec => []CodesAreWhereTheyBelong
<1> DEFINE Inv == FindingsTyped /\ CodesAreWhereTheyBelong
<1>1. ContrlInit => Inv
  BY FindingsStart, RepliesStart DEF CodesAreWhereTheyBelong, SegmentsAreReportedOnce
<1>2. Inv /\ [ContrlNext]_contrlVars => Inv'
  BY FindingsStayTyped, CodesStay
<1>3. Inv => CodesAreWhereTheyBelong
  OBVIOUS
<1> HIDE DEF Inv
<1> QED BY <1>1, <1>2, <1>3, PTL DEF ContrlSpec
=============================================================================
