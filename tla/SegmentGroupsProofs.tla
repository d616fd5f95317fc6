------------------------- MODULE SegmentGroupsProofs -------------------------
(***************************************************************************)
(* The tree of the segment group resolver is a partition of the message,   *)
(* for every schema, alphabet and message length.                          *)
(***************************************************************************)
EXTENDS SegmentGroups, FiniteSetTheorems, SequenceTheorems, WellFoundedInduction, TLAPS

Node ==
  [def: Nat, parent: Nat, start: Nat, end: Nat, occurrence: Nat,
   children: Seq(Nat), cursor: Nat, counts: Seq(Nat)]

(***************************************************************************)
(* The nodes form a tree, and the stack is the path from its root along    *)
(* the last children.                                                      *)
(***************************************************************************)
On(st, n) == \E i \in 1..Len(st) : st[i] = n

Typed(ns, st) == ns \in Seq(Node) /\ st \in Seq(1..Len(ns))

PathOf(ns, st) ==
  /\ Len(st) >= 1 /\ st[1] = Root
  /\ \A k, l \in 1..Len(st) : k < l => st[k] < st[l]
  /\ \A k \in 2..Len(st) : ns[st[k]].parent = st[k-1]

ParentsOf(ns) ==
  /\ \A n \in 1..Len(ns) : ns[n].parent < n
  /\ \A n \in 2..Len(ns) :
       /\ ns[n].parent >= 1
       /\ \E a \in 1..Len(ns[ns[n].parent].children) : ns[ns[n].parent].children[a] = n

ChildrenOf(ns) ==
  \A n \in 1..Len(ns) :
    /\ \A a \in 1..Len(ns[n].children) :
         ns[n].children[a] \in 2..Len(ns) /\ ns[ns[n].children[a]].parent = n
    /\ \A a, b \in 1..Len(ns[n].children) : a < b => ns[n].children[a] < ns[n].children[b]

LastIsOpen(ns, st) ==
  \A n \in 1..Len(ns) : \A a \in 1..Len(ns[n].children) :
    a # Len(ns[n].children) => ~On(st, ns[n].children[a])

TreeOf(ns, st) ==
  Typed(ns, st) /\ PathOf(ns, st) /\ ParentsOf(ns) /\ ChildrenOf(ns) /\ LastIsOpen(ns, st)

Tree == TreeOf(nodes, stack)

(***************************************************************************)
(* No span begins after the next segment, and a closed one has ended.      *)
(***************************************************************************)
WithinOf(ns, st, len) ==
  \A n \in 1..Len(ns) :
    /\ ns[n].start \in 1..len+1
    /\ ~On(st, n) => ns[n].end <= len

Within == WithinOf(nodes, stack, Len(segs))

InSpan(ns, st, len, n, i) ==
  i \in Int /\ ns[n].start <= i /\ (IF On(st, n) THEN i <= len ELSE i <= ns[n].end)

(***************************************************************************)
(* A segment's instance is the innermost one whose span has it.            *)
(***************************************************************************)
PlacedOf(ns, st, len, at) ==
  \A i \in 1..len : \A n \in 1..Len(ns) :
    at[i].instance = n
      <=> /\ InSpan(ns, st, len, n, i)
          /\ \A a \in 1..Len(ns[n].children) : ~InSpan(ns, st, len, ns[n].children[a], i)

Placed == PlacedOf(nodes, stack, Len(segs), slots)

NestOf(ns, st, len) ==
  \A n \in 1..Len(ns) :
    /\ \A a \in 1..Len(ns[n].children) : \A i \in Int :
         InSpan(ns, st, len, ns[n].children[a], i) => InSpan(ns, st, len, n, i)
    /\ \A a, b \in 1..Len(ns[n].children) : a < b => \A i, j \in Int :
         InSpan(ns, st, len, ns[n].children[a], i) /\ InSpan(ns, st, len, ns[n].children[b], j) => i < j

Nest == NestOf(nodes, stack, Len(segs))

(***************************************************************************)
(* What a step does with the tree: it closes what is inside level k, and   *)
(* may open one more instance there.                                       *)
(***************************************************************************)
Moved(ns, st, ms, tt, k, len) ==
  /\ k \in 1..Len(st)
  /\ \A i \in 1..k : tt[i] = st[i]
  /\ \A n \in 1..Len(ns) :
       /\ ms[n].parent = ns[n].parent /\ ms[n].start = ns[n].start
       /\ ms[n].end = IF \E i \in k+1..Len(st) : st[i] = n THEN len ELSE ns[n].end

Kept(ns, st, ms, tt, k, len) ==
  /\ Moved(ns, st, ms, tt, k, len)
  /\ Len(ms) = Len(ns) /\ Len(tt) = k
  /\ \A n \in 1..Len(ns) : ms[n].children = ns[n].children

Opened(ns, st, ms, tt, k, len) ==
  /\ Moved(ns, st, ms, tt, k, len)
  /\ Len(ms) = Len(ns) + 1 /\ Len(tt) = k + 1 /\ tt[k+1] = Len(ms)
  /\ \A n \in 1..Len(ns) : n # st[k] => ms[n].children = ns[n].children
  /\ ms[st[k]].children = Append(ns[st[k]].children, Len(ms))
  /\ ms[Len(ms)].parent = st[k] /\ ms[Len(ms)].start = len + 1
  /\ ms[Len(ms)].children = <<>>

-----------------------------------------------------------------------------
LEMMA TypedFacts ==
  ASSUME NEW ns, NEW st, Typed(ns, st)
  PROVE  /\ Len(ns) \in Nat /\ Len(st) \in Nat
         /\ \A k \in 1..Len(st) : st[k] \in 1..Len(ns)
         /\ \A n \in 1..Len(ns) :
              /\ ns[n].parent \in Nat /\ ns[n].start \in Nat /\ ns[n].end \in Nat
              /\ Len(ns[n].children) \in Nat
              /\ ns[n].children \in Seq(Nat)
<1>1. Len(ns) \in Nat /\ Len(st) \in Nat
  BY LenProperties DEF Typed
<1>2. \A k \in 1..Len(st) : st[k] \in 1..Len(ns)
  BY ElementOfSeq DEF Typed
<1>3. ASSUME NEW n \in 1..Len(ns)
      PROVE  /\ ns[n].parent \in Nat /\ ns[n].start \in Nat /\ ns[n].end \in Nat
             /\ Len(ns[n].children) \in Nat
             /\ ns[n].children \in Seq(Nat)
  <2>1. ns[n] \in Node
    BY ElementOfSeq DEF Typed
  <2>2. ns[n].children \in Seq(Nat)
    BY <2>1 DEF Node
  <2>3. Len(ns[n].children) \in Nat
    BY <2>2, LenProperties
  <2> QED
    BY <2>1, <2>2, <2>3 DEF Node
<1> QED
  BY <1>1, <1>2, <1>3

(* An open instance but the root has its parent just above it. *)
LEMMA OpenParent ==
  ASSUME NEW ns, NEW st, TreeOf(ns, st), NEW q \in 1..Len(st), ns[st[q]].parent >= 1
  PROVE  q - 1 \in 1..Len(st) /\ ns[st[q]].parent = st[q-1]
<1>1. Len(st) \in Nat /\ 1 \in 1..Len(ns)
  BY TypedFacts DEF TreeOf, PathOf, Root
<1>2. ns[1].parent < 1
  BY <1>1 DEF TreeOf, ParentsOf
<1>3. st[1] = 1
  BY DEF TreeOf, PathOf, Root
<1>4. ns[1].parent \in Nat
  BY <1>1, TypedFacts DEF TreeOf
<1>5. q # 1
  BY <1>2, <1>3, <1>4
<1> QED
  BY <1>1, <1>5 DEF TreeOf, PathOf

LEMMA OpenOnce ==
  ASSUME NEW ns, NEW st, TreeOf(ns, st), NEW p \in 1..Len(st), NEW q \in 1..Len(st), st[p] = st[q]
  PROVE  p = q
<1>1. \A k \in 1..Len(st) : st[k] \in Nat
  BY TypedFacts DEF TreeOf
<1> QED
  BY <1>1 DEF TreeOf, PathOf

(* The innermost open instance is the one with no open child. *)
LEMMA InnermostHasNoOpenChild ==
  ASSUME NEW ns, NEW st, TreeOf(ns, st), NEW n \in 1..Len(ns), On(st, n)
  PROVE  n = st[Len(st)] <=> \A a \in 1..Len(ns[n].children) : ~On(st, ns[n].children[a])
<1>1. PICK p \in 1..Len(st) : st[p] = n
  BY DEF On
<1>2. Len(st) \in Nat /\ Len(st) >= 1 /\ Len(ns) \in Nat
  BY TypedFacts DEF TreeOf, PathOf
<1>3. ASSUME n = st[Len(st)], NEW a \in 1..Len(ns[n].children), On(st, ns[n].children[a])
      PROVE  FALSE
  <2>1. PICK q \in 1..Len(st) : st[q] = ns[n].children[a]
    BY <1>3 DEF On
  <2>2. ns[st[q]].parent = n
    BY <2>1 DEF TreeOf, ChildrenOf
  <2>3. q - 1 \in 1..Len(st) /\ n = st[q-1]
    BY <2>2, OpenParent
  <2>4. q - 1 = Len(st)
    <3>1. Len(st) \in 1..Len(st) /\ st[q-1] = st[Len(st)]
      BY <2>3, <1>2, <1>3
    <3>2. ASSUME NEW p1 \in 1..Len(st), p1 = q - 1 PROVE p1 = Len(st)
      BY <3>1, <3>2, OpenOnce
    <3> QED
      BY <2>3, <3>2
  <2> QED
    BY <2>4, <1>2
<1>4. ASSUME n # st[Len(st)]
      PROVE  \E a \in 1..Len(ns[n].children) : On(st, ns[n].children[a])
  <2>1. p + 1 \in 2..Len(st) /\ p + 1 \in 1..Len(st)
    BY <1>1, <1>2, <1>4
  <2>2. ns[st[p+1]].parent = n /\ st[p+1] \in 1..Len(ns)
    <3>1. (p + 1) - 1 = p
      OBVIOUS
    <3>2. ns[st[p+1]].parent = st[(p+1)-1]
      BY <2>1 DEF TreeOf, PathOf
    <3> QED
      BY <3>1, <3>2, <1>1, <2>1, TypedFacts DEF TreeOf
  <2>3. st[1] < st[p+1] /\ st[1] = 1
    BY <2>1, <1>2 DEF TreeOf, PathOf, Root
  <2>5. st[p+1] \in 2..Len(ns)
    BY <2>2, <2>3, <1>2
  <2>6. PICK a \in 1..Len(ns[n].children) : ns[n].children[a] = st[p+1]
    BY <2>2, <2>5 DEF TreeOf, ParentsOf
  <2> QED
    BY <2>6, <2>1 DEF On
<1> QED
  BY <1>3, <1>4
-----------------------------------------------------------------------------
Grown(ns, st, ms, tt, k, len) == Kept(ns, st, ms, tt, k, len) \/ Opened(ns, st, ms, tt, k, len)

(* A step keeps the number of instances, or opens one. *)
LEMMA GrownSizes ==
  ASSUME NEW ns, NEW st, NEW ms, NEW tt, NEW k, NEW len \in Nat, TreeOf(ns, st),
         Grown(ns, st, ms, tt, k, len)
  PROVE  /\ Len(ns) \in Nat /\ Len(st) \in Nat /\ k \in 1..Len(st) /\ st[k] \in 1..Len(ns)
         /\ Len(ms) \in {Len(ns), Len(ns) + 1}
         /\ Len(ms) > Len(ns) =>
              Opened(ns, st, ms, tt, k, len) /\ Len(ms) = Len(ns) + 1 /\ ms[Len(ms)].children = <<>>
<1>1. Len(ns) \in Nat /\ Len(st) \in Nat
  BY TypedFacts DEF TreeOf
<1>2. k \in 1..Len(st)
  BY DEF Grown, Kept, Opened, Moved
<1>3. st[k] \in 1..Len(ns)
  BY <1>2, TypedFacts DEF TreeOf
<1>4. CASE Kept(ns, st, ms, tt, k, len)
  <2>1. Len(ms) = Len(ns)
    BY <1>4 DEF Kept
  <2> QED
    BY <2>1, <1>1, <1>2, <1>3
<1>5. CASE Opened(ns, st, ms, tt, k, len)
  <2>1. Len(ms) = Len(ns) + 1 /\ ms[Len(ms)].children = <<>>
    BY <1>5 DEF Opened
  <2> QED
    BY <2>1, <1>1, <1>2, <1>3, <1>5
<1> QED
  BY <1>4, <1>5 DEF Grown

(* The instance just opened has no children. *)
LEMMA ParentWasThere ==
  ASSUME NEW ns, NEW st, NEW ms, NEW tt, NEW k, NEW len \in Nat, TreeOf(ns, st),
         Grown(ns, st, ms, tt, k, len), NEW n \in 1..Len(ms), Len(ms[n].children) # 0
  PROVE  n \in 1..Len(ns)
<1>1. /\ Len(ns) \in Nat /\ Len(ms) \in {Len(ns), Len(ns) + 1}
      /\ Len(ms) > Len(ns) => ms[Len(ms)].children = <<>>
  BY GrownSizes
<1>2. ASSUME Len(ms) = Len(ns) + 1, n = Len(ms) PROVE FALSE
  <2>1. ms[n].children = <<>>
    BY <1>1, <1>2
  <2> QED
    BY <2>1
<1> QED
  BY <1>1, <1>2

(* What is open after a step: the instances down to level k, and a new one. *)
LEMMA OpenAfter ==
  ASSUME NEW ns, NEW st, NEW ms, NEW tt, NEW k, NEW len \in Nat, TreeOf(ns, st),
         Grown(ns, st, ms, tt, k, len), NEW n \in 1..Len(ns)
  PROVE  On(tt, n) <=> \E i \in 1..k : st[i] = n
<1>1. Len(ns) \in Nat /\ Len(st) \in Nat /\ k \in 1..Len(st) /\ \A i \in 1..k : tt[i] = st[i]
  BY TypedFacts DEF TreeOf, Grown, Kept, Opened, Moved
<1>2. CASE Kept(ns, st, ms, tt, k, len)
  BY <1>1, <1>2 DEF Kept, On
<1>3. CASE Opened(ns, st, ms, tt, k, len)
  <2>1. Len(tt) = k + 1 /\ tt[k+1] = Len(ns) + 1
    BY <1>3 DEF Opened
  <2>2. k \in Nat /\ 1..Len(tt) = 1..k \cup {k+1}
    BY <2>1, <1>1
  <2>3. tt[k+1] # n
    BY <2>1, <1>1
  <2>4. On(tt, n) <=> \E i \in 1..k : tt[i] = n
    BY <2>2, <2>3 DEF On
  <2> QED
    BY <2>4, <1>1
<1> QED
  BY <1>2, <1>3 DEF Grown

LEMMA SpanAfter ==
  ASSUME NEW ns, NEW st, NEW ms, NEW tt, NEW k, NEW len \in Nat, TreeOf(ns, st),
         WithinOf(ns, st, len), Grown(ns, st, ms, tt, k, len), NEW n \in 1..Len(ns), NEW i \in Int
  PROVE  InSpan(ms, tt, len + 1, n, i) <=> InSpan(ns, st, len, n, i) \/ (i = len + 1 /\ On(tt, n))
<1>1. Moved(ns, st, ms, tt, k, len) /\ k \in 1..Len(st)
  BY DEF Grown, Kept, Opened, Moved
<1>2. ms[n].start = ns[n].start /\ ns[n].start \in Nat /\ ns[n].end \in Nat /\ Len(st) \in Nat
  BY <1>1, TypedFacts DEF Moved, TreeOf
<1>3. ns[n].start <= len + 1 /\ (~On(st, n) => ns[n].end <= len)
  BY DEF WithinOf
<1>4. CASE \E q \in 1..k : st[q] = n
  <2>1. On(tt, n) /\ On(st, n)
    BY <1>4, <1>1, <1>2, OpenAfter DEF On
  <2> QED
    BY <2>1, <1>2, <1>3 DEF InSpan
<1>5. CASE \E q \in k+1..Len(st) : st[q] = n
  <2>1. PICK q \in k+1..Len(st) : st[q] = n
    BY <1>5
  <2>2. q \in 1..Len(st) /\ \A p \in 1..k : p \in 1..Len(st) /\ p # q
    BY <1>1, <1>2
  <2>3. ASSUME NEW p \in 1..k, st[p] = n PROVE FALSE
    BY <2>1, <2>2, <2>3, OpenOnce
  <2>4. ~On(tt, n) /\ On(st, n)
    BY <2>1, <2>2, <2>3, OpenAfter DEF On
  <2>5. ms[n].end = len
    BY <1>5, <1>1 DEF Moved
  <2> QED
    BY <2>4, <2>5, <1>2, <1>3 DEF InSpan
<1>6. CASE ~ \E q \in 1..Len(st) : st[q] = n
  <2>1. ~On(tt, n) /\ ~On(st, n)
    BY <1>6, <1>1, <1>2, OpenAfter DEF On
  <2>2. ms[n].end = ns[n].end
    <3>1. ~ \E q \in k+1..Len(st) : st[q] = n
      BY <1>6, <1>1, <1>2
    <3> QED
      BY <3>1, <1>1 DEF Moved
  <2> QED
    BY <2>1, <2>2, <1>2, <1>3 DEF InSpan
<1>7. 1..Len(st) = 1..k \cup k+1..Len(st)
  BY <1>1, <1>2
<1> QED
  BY <1>4, <1>5, <1>6, <1>7

LEMMA WithinAfter ==
  ASSUME NEW ns, NEW st, NEW ms, NEW tt, NEW k, NEW len \in Nat, TreeOf(ns, st),
         WithinOf(ns, st, len), Grown(ns, st, ms, tt, k, len)
  PROVE  WithinOf(ms, tt, len + 1)
<1>1. Moved(ns, st, ms, tt, k, len) /\ k \in 1..Len(st)
  BY DEF Grown, Kept, Opened, Moved
<1>2. Len(ns) \in Nat /\ Len(st) \in Nat
  BY TypedFacts DEF TreeOf
<1>3. ASSUME NEW n \in 1..Len(ns)
      PROVE  ms[n].start \in 1..(len+1)+1 /\ (~On(tt, n) => ms[n].end <= len + 1)
  <2>1. ms[n].start = ns[n].start /\ ns[n].start \in Nat /\ ns[n].end \in Nat
    BY <1>1, TypedFacts DEF Moved, TreeOf
  <2>2. ns[n].start \in 1..len+1 /\ (~On(st, n) => ns[n].end <= len)
    BY DEF WithinOf
  <2>3. ASSUME ~On(tt, n), On(st, n) PROVE ms[n].end = len
    <3>1. PICK q \in 1..Len(st) : st[q] = n
      BY <2>3 DEF On
    <3>2. q \notin 1..k
      BY <2>3, <3>1, OpenAfter
    <3>3. q \in k+1..Len(st)
      BY <3>1, <3>2, <1>1, <1>2
    <3> QED
      BY <3>1, <3>3, <1>1 DEF Moved
  <2>4. ASSUME ~On(st, n) PROVE ms[n].end = ns[n].end
    <3>1. ~ \E q \in k+1..Len(st) : st[q] = n
      BY <2>4, <1>1, <1>2 DEF On
    <3> QED
      BY <3>1, <1>1 DEF Moved
  <2> QED
    BY <2>1, <2>2, <2>3, <2>4
<1>4. CASE Kept(ns, st, ms, tt, k, len)
  BY <1>3, <1>4 DEF Kept, WithinOf
<1>5. CASE Opened(ns, st, ms, tt, k, len)
  <2>1. Len(ms) = Len(ns) + 1 /\ tt[k+1] = Len(ms) /\ Len(tt) = k+1 /\ ms[Len(ms)].start = len + 1
    BY <1>5 DEF Opened
  <2>2. On(tt, Len(ms)) /\ ms[Len(ms)].start \in 1..(len+1)+1
    BY <2>1, <1>1, <1>2 DEF On
  <2>3. 1..Len(ms) = 1..Len(ns) \cup {Len(ms)}
    BY <2>1, <1>2
  <2> QED
    BY <2>2, <2>3, <1>3 DEF WithinOf
<1> QED
  BY <1>4, <1>5 DEF Grown
-----------------------------------------------------------------------------
(* A step adds at most one child, the last one of level k. *)
LEMMA ChildrenAfter ==
  ASSUME NEW ns, NEW st, NEW ms, NEW tt, NEW k, NEW len \in Nat, TreeOf(ns, st),
         Grown(ns, st, ms, tt, k, len), NEW n \in 1..Len(ns)
  PROVE  /\ \A a \in 1..Len(ns[n].children) :
              a \in 1..Len(ms[n].children) /\ ms[n].children[a] = ns[n].children[a]
         /\ \A a \in 1..Len(ms[n].children) :
              \/ a \in 1..Len(ns[n].children)
              \/ /\ Opened(ns, st, ms, tt, k, len) /\ n = st[k]
                 /\ a = Len(ms[n].children) /\ a = Len(ns[n].children) + 1
                 /\ ms[n].children[a] = Len(ns) + 1
<1>1. ns[n].children \in Seq(Nat) /\ Len(ns[n].children) \in Nat /\ Len(ns) \in Nat
  BY TypedFacts DEF TreeOf
<1>2. CASE ms[n].children = ns[n].children
  BY <1>2
<1>3. CASE Opened(ns, st, ms, tt, k, len) /\ n = st[k]
  <2>1. ms[n].children = Append(ns[n].children, Len(ns) + 1)
    BY <1>3 DEF Opened
  <2>2. /\ Len(ms[n].children) = Len(ns[n].children) + 1
        /\ \A a \in 1..Len(ns[n].children) : ms[n].children[a] = ns[n].children[a]
        /\ ms[n].children[Len(ns[n].children) + 1] = Len(ns) + 1
    BY <2>1, <1>1
  <2>3. \A a \in 1..Len(ns[n].children) : a \in 1..Len(ms[n].children)
    BY <2>2, <1>1
  <2>4. ASSUME NEW a \in 1..Len(ms[n].children), a \notin 1..Len(ns[n].children)
        PROVE  a = Len(ns[n].children) + 1
    BY <2>2, <2>4, <1>1
  <2> QED
    BY <2>2, <2>3, <2>4, <1>3
<1> QED
  BY <1>2, <1>3 DEF Grown, Kept, Opened

LEMMA OpenWasOpen ==
  ASSUME NEW ns, NEW st, NEW ms, NEW tt, NEW k, NEW len \in Nat, TreeOf(ns, st),
         Grown(ns, st, ms, tt, k, len), NEW n \in 1..Len(ns), On(tt, n)
  PROVE  On(st, n)
<1>1. k \in 1..Len(st) /\ Len(st) \in Nat
  BY TypedFacts DEF TreeOf, Grown, Kept, Opened, Moved
<1> QED
  BY <1>1, OpenAfter DEF On

(* An instance open after a step is its parent's last child. *)
LEMMA OpenIsLast ==
  ASSUME NEW ns, NEW st, NEW ms, NEW tt, NEW k, NEW len \in Nat, TreeOf(ns, st),
         Grown(ns, st, ms, tt, k, len)
  PROVE  LastIsOpen(ms, tt)
<1> SUFFICES ASSUME NEW n \in 1..Len(ms), NEW a \in 1..Len(ms[n].children),
                    a # Len(ms[n].children), On(tt, ms[n].children[a])
             PROVE  FALSE
  BY DEF LastIsOpen
<1>1. Len(ns) \in Nat /\ Len(st) \in Nat /\ k \in 1..Len(st)
  BY TypedFacts DEF TreeOf, Grown, Kept, Opened, Moved
<1>2. n \in 1..Len(ns)
  <2>1. Len(ms[n].children) # 0
    OBVIOUS
  <2> QED
    BY <2>1, ParentWasThere
<1>3. a \in 1..Len(ns[n].children) /\ ms[n].children[a] = ns[n].children[a]
  BY <1>2, ChildrenAfter
<1>4. ns[n].children[a] \in 1..Len(ns) /\ ns[ns[n].children[a]].parent = n
  BY <1>1, <1>2, <1>3 DEF TreeOf, ChildrenOf
<1>5. On(st, ns[n].children[a])
  BY <1>3, <1>4, OpenWasOpen
<1>6. a = Len(ns[n].children)
  BY <1>2, <1>3, <1>5 DEF TreeOf, LastIsOpen
<1>7. Len(ms[n].children) \in 1..Len(ms[n].children)
  <2>1. Len(ms[n].children) \in Nat
    BY <1>2, <1>1, TypedFacts DEF TreeOf, Grown, Kept, Opened
  <2> QED
    BY <2>1
<1>8. Opened(ns, st, ms, tt, k, len) /\ n = st[k]
  BY <1>2, <1>6, <1>7, ChildrenAfter
<1>9. PICK q \in 1..k : st[q] = ns[n].children[a]
  BY <1>3, <1>4, OpenAfter
<1>10. q \in 1..Len(st)
  BY <1>1
<1>11. ns[st[q]].parent = n
  BY <1>4, <1>9
<1>12. q - 1 \in 1..Len(st) /\ n = st[q-1]
  BY <1>10, <1>11, <1>2, OpenParent
<1>13. ASSUME NEW p \in 1..Len(st), p = q - 1 PROVE p = k
  BY <1>12, <1>13, <1>8, <1>1, OpenOnce
<1> QED
  BY <1>12, <1>13, <1>1

LEMMA PathAfter ==
  ASSUME NEW ns, NEW st, NEW ms, NEW tt, NEW k, NEW len \in Nat, TreeOf(ns, st),
         Grown(ns, st, ms, tt, k, len)
  PROVE  PathOf(ms, tt)
<1>1. /\ Len(ns) \in Nat /\ Len(st) \in Nat
      /\ \A i \in 1..Len(st) : st[i] \in 1..Len(ns)
  BY TypedFacts DEF TreeOf
<1>2. /\ k \in 1..Len(st) /\ \A i \in 1..k : tt[i] = st[i]
      /\ \A n \in 1..Len(ns) : ms[n].parent = ns[n].parent
  BY DEF Grown, Kept, Opened, Moved
<1>3. /\ st[1] = Root
      /\ \A i, l \in 1..Len(st) : i < l => st[i] < st[l]
      /\ \A i \in 2..Len(st) : ns[st[i]].parent = st[i-1]
  BY DEF TreeOf, PathOf
<1>4. /\ tt[1] = Root
      /\ \A i, l \in 1..k : i < l => tt[i] < tt[l]
  <2>1. 1 \in 1..k /\ \A i \in 1..k : i \in 1..Len(st)
    BY <1>1, <1>2
  <2>2. tt[1] = Root
    BY <2>1, <1>2, <1>3
  <2>3. ASSUME NEW i \in 1..k, NEW l \in 1..k, i < l PROVE tt[i] < tt[l]
    <3>1. tt[i] = st[i] /\ tt[l] = st[l] /\ st[i] < st[l]
      BY <2>1, <2>3, <1>2, <1>3
    <3> QED
      BY <3>1
  <2> QED
    BY <2>2, <2>3
<1>5. ASSUME NEW i \in 2..k PROVE ms[tt[i]].parent = tt[i-1]
  <2>1. i \in 2..Len(st) /\ i \in 1..k /\ i - 1 \in 1..k /\ i \in 1..Len(st)
    BY <1>1, <1>2
  <2> QED
    BY <2>1, <1>1, <1>2, <1>3
<1>6. CASE Kept(ns, st, ms, tt, k, len)
  <2>1. Len(tt) = k /\ k >= 1
    BY <1>1, <1>2, <1>6 DEF Kept
  <2>2. \A i, l \in 1..Len(tt) : i < l => tt[i] < tt[l]
    BY <2>1, <1>4
  <2>3. \A i \in 2..Len(tt) : ms[tt[i]].parent = tt[i-1]
    BY <2>1, <1>5
  <2> QED
    BY <2>1, <2>2, <2>3, <1>4 DEF PathOf
<1>7. CASE Opened(ns, st, ms, tt, k, len)
  <2>1. Len(tt) = k + 1 /\ tt[k+1] = Len(ns) + 1 /\ ms[tt[k+1]].parent = st[k]
    BY <1>7 DEF Opened
  <2>2. ASSUME NEW i \in 1..Len(tt), NEW l \in 1..Len(tt), i < l PROVE tt[i] < tt[l]
    <3>1. i \in 1..k /\ (l \in 1..k \/ l = k + 1)
      BY <2>1, <2>2, <1>1, <1>2
    <3>2. tt[i] \in 1..Len(ns)
      BY <3>1, <1>1, <1>2
    <3> QED
      BY <3>1, <3>2, <2>1, <2>2, <1>1, <1>4
  <2>3. ASSUME NEW i \in 2..Len(tt) PROVE ms[tt[i]].parent = tt[i-1]
    <3>1. CASE i \in 2..k
      BY <3>1, <1>5
    <3>2. CASE i = k + 1
      <4>1. i - 1 = k /\ k \in 1..k
        BY <3>2, <1>1, <1>2
      <4> QED
        BY <4>1, <3>2, <2>1, <1>2
    <3> QED
      BY <3>1, <3>2, <2>1, <1>1, <1>2
  <2> QED
    BY <2>1, <2>2, <2>3, <1>1, <1>2, <1>4 DEF PathOf
<1> QED
  BY <1>6, <1>7 DEF Grown

LEMMA ParentsAfter ==
  ASSUME NEW ns, NEW st, NEW ms, NEW tt, NEW k, NEW len \in Nat, TreeOf(ns, st),
         Grown(ns, st, ms, tt, k, len)
  PROVE  ParentsOf(ms)
<1>1. /\ Len(ns) \in Nat /\ st[k] \in 1..Len(ns)
      /\ \A n \in 1..Len(ns) : ms[n].parent = ns[n].parent /\ ns[n].parent \in Nat
  BY TypedFacts DEF TreeOf, Grown, Kept, Opened, Moved
<1>2. ASSUME NEW n \in 2..Len(ns)
      PROVE  /\ ms[n].parent >= 1
             /\ \E a \in 1..Len(ms[ms[n].parent].children) : ms[ms[n].parent].children[a] = n
  <2>1. n \in 1..Len(ns) /\ ns[n].parent >= 1 /\ ns[n].parent < n
    BY <1>1 DEF TreeOf, ParentsOf
  <2>2. ns[n].parent \in 1..Len(ns)
    BY <2>1, <1>1
  <2>3. PICK a \in 1..Len(ns[ns[n].parent].children) : ns[ns[n].parent].children[a] = n
    BY DEF TreeOf, ParentsOf
  <2>4. a \in 1..Len(ms[ns[n].parent].children) /\ ms[ns[n].parent].children[a] = n
    BY <2>2, <2>3, ChildrenAfter
  <2> QED
    BY <2>1, <2>4, <1>1
<1>3. ASSUME NEW n \in 1..Len(ns) PROVE ms[n].parent < n
  BY <1>1 DEF TreeOf, ParentsOf
<1>4. CASE Kept(ns, st, ms, tt, k, len)
  BY <1>2, <1>3, <1>4 DEF Kept, ParentsOf
<1>5. CASE Opened(ns, st, ms, tt, k, len)
  <2>1. /\ Len(ms) = Len(ns) + 1 /\ ms[Len(ms)].parent = st[k]
        /\ ms[st[k]].children = Append(ns[st[k]].children, Len(ms))
    BY <1>5 DEF Opened
  <2>2. Len(ns[st[k]].children) \in Nat /\ ns[st[k]].children \in Seq(Nat)
    BY <1>1, TypedFacts DEF TreeOf
  <2>3. /\ Len(ns[st[k]].children) + 1 \in 1..Len(ms[st[k]].children)
        /\ ms[st[k]].children[Len(ns[st[k]].children) + 1] = Len(ms)
    <3>1. PICK kids \in Seq(Nat) : kids = ns[st[k]].children
      BY <2>2
    <3>2. PICK child \in Nat : child = Len(ms)
      BY <2>1, <1>1
    <3>3. PICK more : more = Append(kids, child)
      OBVIOUS
    <3>4. Len(kids) \in Nat /\ Len(more) = Len(kids) + 1 /\ more[Len(kids) + 1] = child
      BY <3>3, <2>2, <3>1, AppendProperties
    <3>5. more = ms[st[k]].children
      BY <3>1, <3>2, <3>3, <2>1
    <3>6. Len(kids) + 1 \in 1..Len(more)
      BY <3>4
    <3> QED
      BY <3>1, <3>2, <3>4, <3>5, <3>6
  <2>4. /\ ms[Len(ms)].parent < Len(ms) /\ ms[Len(ms)].parent >= 1
        /\ \E a \in 1..Len(ms[ms[Len(ms)].parent].children) :
             ms[ms[Len(ms)].parent].children[a] = Len(ms)
    <3>1. \E a \in 1..Len(ms[st[k]].children) : ms[st[k]].children[a] = Len(ms)
      BY <2>3
    <3> QED
      BY <3>1, <2>1, <1>1
  <2>5. \A n \in 1..Len(ms) : n \in 1..Len(ns) \/ n = Len(ms)
    BY <2>1, <1>1
  <2>6. \A n \in 2..Len(ms) : n \in 2..Len(ns) \/ n = Len(ms)
    BY <2>1, <1>1
  <2> QED
    BY <1>2, <1>3, <2>4, <2>5, <2>6 DEF ParentsOf
<1> QED
  BY <1>4, <1>5 DEF Grown

LEMMA ChildrenStay ==
  ASSUME NEW ns, NEW st, NEW ms, NEW tt, NEW k, NEW len \in Nat, TreeOf(ns, st),
         Grown(ns, st, ms, tt, k, len)
  PROVE  ChildrenOf(ms)
<1>1. /\ Len(ns) \in Nat /\ st[k] \in 1..Len(ns)
      /\ \A n \in 1..Len(ns) : ms[n].parent = ns[n].parent /\ Len(ns[n].children) \in Nat
      /\ Len(ms) \in {Len(ns), Len(ns) + 1}
  BY TypedFacts DEF TreeOf, Grown, Kept, Opened, Moved
<1>2. ASSUME NEW n \in 1..Len(ns), NEW a \in 1..Len(ns[n].children)
      PROVE  /\ ns[n].children[a] \in 2..Len(ns) /\ ns[n].children[a] \in 1..Len(ns)
             /\ ns[ns[n].children[a]].parent = n
  BY <1>1 DEF TreeOf, ChildrenOf
<1>3. ASSUME NEW n \in 1..Len(ms), Len(ms[n].children) # 0
      PROVE  n \in 1..Len(ns)
  BY <1>3, ParentWasThere
<1>4. ASSUME NEW n \in 1..Len(ns), NEW a \in 1..Len(ms[n].children)
      PROVE  ms[n].children[a] \in 2..Len(ms) /\ ms[ms[n].children[a]].parent = n
  <2>1. CASE a \in 1..Len(ns[n].children)
    <3>1. ms[n].children[a] = ns[n].children[a]
      BY <2>1, ChildrenAfter
    <3>2. ns[n].children[a] \in 2..Len(ms)
      BY <2>1, <1>1, <1>2
    <3>3. ms[ns[n].children[a]].parent = n
      BY <2>1, <1>1, <1>2
    <3> QED
      BY <3>1, <3>2, <3>3
  <2>2. CASE Opened(ns, st, ms, tt, k, len) /\ n = st[k] /\ ms[n].children[a] = Len(ns) + 1
    <3>1. Len(ms) = Len(ns) + 1 /\ ms[Len(ms)].parent = st[k]
      BY <2>2 DEF Opened
    <3> QED
      BY <3>1, <2>2, <1>1
  <2> QED
    BY <2>1, <2>2, ChildrenAfter
<1>5. ASSUME NEW n \in 1..Len(ns), NEW a \in 1..Len(ms[n].children), NEW b \in 1..Len(ms[n].children), a < b
      PROVE  ms[n].children[a] < ms[n].children[b]
  <2>1. a \in 1..Len(ns[n].children) \/ a = Len(ms[n].children)
    BY ChildrenAfter
  <2>2. a \in 1..Len(ns[n].children)
    <3>1. ms[n].children = ns[n].children \/ ms[n].children = Append(ns[n].children, Len(ms))
      BY DEF Grown, Kept, Opened
    <3>2. ns[n].children \in Seq(Nat)
      BY TypedFacts DEF TreeOf
    <3>3. Len(ms[n].children) \in Nat
      BY <3>1, <3>2, <1>1
    <3> QED
      BY <2>1, <3>3, <1>5
  <2>3. ms[n].children[a] = ns[n].children[a] /\ ns[n].children[a] \in 2..Len(ns)
    BY <2>2, <1>2, ChildrenAfter
  <2>4. CASE b \in 1..Len(ns[n].children)
    <3>1. ms[n].children[b] = ns[n].children[b]
      BY <2>4, ChildrenAfter
    <3>2. ns[n].children[a] < ns[n].children[b]
      BY <2>2, <2>4, <1>5 DEF TreeOf, ChildrenOf
    <3> QED
      BY <2>3, <3>1, <3>2
  <2>5. CASE ms[n].children[b] = Len(ns) + 1
    BY <2>3, <2>5, <1>1
  <2> QED
    BY <2>4, <2>5, ChildrenAfter
<1>6. ASSUME NEW n \in 1..Len(ms)
      PROVE  /\ \A a \in 1..Len(ms[n].children) :
                  ms[n].children[a] \in 2..Len(ms) /\ ms[ms[n].children[a]].parent = n
             /\ \A a, b \in 1..Len(ms[n].children) : a < b => ms[n].children[a] < ms[n].children[b]
  <2>1. CASE Len(ms[n].children) = 0
    BY <2>1
  <2> QED
    BY <2>1, <1>3, <1>4, <1>5
<1> QED
  BY <1>6 DEF ChildrenOf

LEMMA TreeAfter ==
  ASSUME NEW ns, NEW st, NEW ms, NEW tt, NEW k, NEW len \in Nat, TreeOf(ns, st),
         Grown(ns, st, ms, tt, k, len), Typed(ms, tt)
  PROVE  TreeOf(ms, tt)
BY PathAfter, ParentsAfter, ChildrenStay, OpenIsLast DEF TreeOf
-----------------------------------------------------------------------------
LEMMA SpanBounded ==
  ASSUME NEW ns, NEW st, NEW len \in Nat, WithinOf(ns, st, len),
         NEW n \in 1..Len(ns), NEW i \in Int, InSpan(ns, st, len, n, i), ns[n].end \in Nat
  PROVE  i \in 1..len
BY DEF WithinOf, InSpan

LEMMA NewSpan ==
  ASSUME NEW ns, NEW st, NEW ms, NEW tt, NEW k, NEW len \in Nat, TreeOf(ns, st),
         Opened(ns, st, ms, tt, k, len), NEW i \in Int
  PROVE  InSpan(ms, tt, len + 1, Len(ns) + 1, i) <=> i = len + 1
<1>1. /\ Len(ms) = Len(ns) + 1 /\ ms[Len(ms)].start = len + 1
      /\ Len(tt) = k + 1 /\ tt[k+1] = Len(ms) /\ k \in 1..Len(st)
  BY DEF Opened, Moved
<1>2. Len(st) \in Nat
  BY TypedFacts DEF TreeOf
<1>3. On(tt, Len(ms))
  BY <1>1, <1>2 DEF On
<1> QED
  BY <1>1, <1>3 DEF InSpan

LEMMA NestAfter ==
  ASSUME NEW ns, NEW st, NEW ms, NEW tt, NEW k, NEW len \in Nat, TreeOf(ns, st),
         WithinOf(ns, st, len), Grown(ns, st, ms, tt, k, len), NestOf(ns, st, len), Typed(ms, tt)
  PROVE  NestOf(ms, tt, len + 1)
<1>1. /\ Len(ns) \in Nat /\ Len(st) \in Nat /\ k \in 1..Len(st) /\ st[k] \in 1..Len(ns)
      /\ Len(ms) \in {Len(ns), Len(ns) + 1}
      /\ \A n \in 1..Len(ns) : ns[n].end \in Nat /\ Len(ns[n].children) \in Nat
  BY TypedFacts DEF TreeOf, Grown, Kept, Opened, Moved
<1>2. ASSUME NEW n \in 1..Len(ns), NEW a \in 1..Len(ns[n].children)
      PROVE  /\ ns[n].children[a] \in 1..Len(ns)
             /\ ns[ns[n].children[a]].parent = n
  BY <1>1 DEF TreeOf, ChildrenOf
<1>3. ASSUME NEW n \in 1..Len(ms), Len(ms[n].children) # 0
      PROVE  n \in 1..Len(ns)
  BY <1>3, ParentWasThere
<1>4. TreeOf(ms, tt)
  BY TreeAfter
<1>5. ASSUME NEW n \in 1..Len(ns), NEW a \in 1..Len(ms[n].children), NEW i \in Int,
             InSpan(ms, tt, len + 1, ms[n].children[a], i)
      PROVE  InSpan(ms, tt, len + 1, n, i)
  <2>1. ASSUME NEW c \in 1..Len(ms), c = ms[n].children[a], On(tt, c)
        PROVE  On(tt, n)
    <3>1. PICK q \in 1..Len(tt) : tt[q] = c
      BY <2>1 DEF On
    <3>2. ms[tt[q]].parent = n
      <4>1. n \in 1..Len(ms)
        BY <1>1
      <4> QED
        BY <4>1, <3>1, <2>1, <1>4 DEF TreeOf, ChildrenOf
    <3>3. q - 1 \in 1..Len(tt) /\ n = tt[q-1]
      BY <3>2, <1>4, OpenParent
    <3> QED
      BY <3>3 DEF On
  <2>2. CASE a \in 1..Len(ns[n].children)
    <3>1. PICK c \in 1..Len(ns) : c = ns[n].children[a]
      BY <2>2, <1>2
    <3>2. ms[n].children[a] = c
      BY <3>1, <2>2, ChildrenAfter
    <3>3. InSpan(ns, st, len, c, i) \/ (i = len + 1 /\ On(tt, c))
      BY <3>2, <1>5, SpanAfter
    <3>4. CASE InSpan(ns, st, len, c, i)
      <4>1. InSpan(ns, st, len, n, i)
        BY <3>1, <3>4, <2>2 DEF NestOf
      <4> QED
        BY <4>1, SpanAfter
    <3>5. CASE i = len + 1 /\ On(tt, c)
      <4>1. On(tt, n)
        BY <3>2, <3>5, <2>1, <1>1
      <4> QED
        BY <4>1, <3>5, SpanAfter
    <3> QED
      BY <3>3, <3>4, <3>5
  <2>3. CASE Opened(ns, st, ms, tt, k, len) /\ n = st[k] /\ ms[n].children[a] = Len(ns) + 1
    <3>1. i = len + 1
      BY <2>3, <1>5, NewSpan
    <3>2. On(tt, n)
      BY <2>3, <1>1, OpenAfter
    <3> QED
      BY <3>1, <3>2, SpanAfter
  <2> QED
    BY <2>2, <2>3, ChildrenAfter
<1>6. ASSUME NEW n \in 1..Len(ns), NEW a \in 1..Len(ms[n].children), NEW b \in 1..Len(ms[n].children),
             a < b, NEW i \in Int, NEW j \in Int,
             InSpan(ms, tt, len + 1, ms[n].children[a], i), InSpan(ms, tt, len + 1, ms[n].children[b], j)
      PROVE  i < j
  <2>1. Len(ms[n].children) \in Nat
    BY <1>1, TypedFacts
  <2>2. a # Len(ms[n].children) /\ n \in 1..Len(ms)
    BY <2>1, <1>6, <1>1
  <2>3. ~On(tt, ms[n].children[a])
    BY <2>2, <1>4 DEF TreeOf, LastIsOpen
  <2>4. a \in 1..Len(ns[n].children)
    BY <2>2, ChildrenAfter
  <2>5. PICK c \in 1..Len(ns) : c = ns[n].children[a]
    BY <2>4, <1>2
  <2>6. ms[n].children[a] = c
    BY <2>4, <2>5, ChildrenAfter
  <2>7. InSpan(ns, st, len, c, i)
    BY <2>3, <2>6, <1>6, SpanAfter
  <2>8. i \in 1..len
    BY <2>7, <1>1, SpanBounded
  <2>9. CASE b \in 1..Len(ns[n].children)
    <3>1. PICK d \in 1..Len(ns) : d = ns[n].children[b]
      BY <2>9, <1>2
    <3>2. ms[n].children[b] = d
      BY <2>9, <3>1, ChildrenAfter
    <3>3. InSpan(ns, st, len, d, j) \/ j = len + 1
      BY <3>2, <1>6, SpanAfter
    <3>4. ASSUME InSpan(ns, st, len, d, j) PROVE i < j
      BY <3>1, <3>4, <2>4, <2>5, <2>7, <2>9, <1>6 DEF NestOf
    <3> QED
      BY <3>3, <3>4, <2>8
  <2>10. CASE Opened(ns, st, ms, tt, k, len) /\ ms[n].children[b] = Len(ns) + 1
    <3>1. j = len + 1
      BY <2>10, <1>6, NewSpan
    <3> QED
      BY <3>1, <2>8
  <2> QED
    BY <2>9, <2>10, ChildrenAfter
<1>7. ASSUME NEW n \in 1..Len(ms)
      PROVE  /\ \A a \in 1..Len(ms[n].children) : \A i \in Int :
                  InSpan(ms, tt, len + 1, ms[n].children[a], i) => InSpan(ms, tt, len + 1, n, i)
             /\ \A a, b \in 1..Len(ms[n].children) : a < b => \A i, j \in Int :
                  /\ InSpan(ms, tt, len + 1, ms[n].children[a], i)
                  /\ InSpan(ms, tt, len + 1, ms[n].children[b], j)
                  => i < j
  <2>1. CASE Len(ms[n].children) = 0
    BY <2>1
  <2> QED
    BY <2>1, <1>3, <1>5, <1>6
<1> QED
  BY <1>7 DEF NestOf

(* A step puts the next segment in the innermost of what it leaves open. *)
LEMMA PlacedAfter ==
  ASSUME NEW ns, NEW st, NEW ms, NEW tt, NEW k, NEW len \in Nat, TreeOf(ns, st),
         WithinOf(ns, st, len), Grown(ns, st, ms, tt, k, len), Typed(ms, tt),
         NEW at, NEW bt, \A i \in 1..len : at[i].instance \in 1..Len(ns) /\ bt[i] = at[i],
         bt[len+1].instance = tt[Len(tt)], PlacedOf(ns, st, len, at)
  PROVE  PlacedOf(ms, tt, len + 1, bt)
<1>1. /\ Len(ns) \in Nat /\ Len(st) \in Nat /\ k \in 1..Len(st) /\ st[k] \in 1..Len(ns)
      /\ Len(ms) \in {Len(ns), Len(ns) + 1}
      /\ \A n \in 1..Len(ns) : ns[n].end \in Nat /\ Len(ns[n].children) \in Nat
  BY TypedFacts DEF TreeOf, Grown, Kept, Opened, Moved
<1>2. ASSUME NEW n \in 1..Len(ns), NEW a \in 1..Len(ns[n].children)
      PROVE  ns[n].children[a] \in 1..Len(ns)
  BY <1>1 DEF TreeOf, ChildrenOf
<1>3. TreeOf(ms, tt)
  BY TreeAfter
<1>4. ASSUME NEW i \in 1..len, NEW n \in 1..Len(ns)
      PROVE  bt[i].instance = n
               <=> /\ InSpan(ms, tt, len + 1, n, i)
                   /\ \A a \in 1..Len(ms[n].children) : ~InSpan(ms, tt, len + 1, ms[n].children[a], i)
  <2>1. i \in Int /\ i # len + 1
    OBVIOUS
  <2>2. InSpan(ms, tt, len + 1, n, i) <=> InSpan(ns, st, len, n, i)
    BY <2>1, SpanAfter
  <2>3. ASSUME NEW a \in 1..Len(ns[n].children)
        PROVE  /\ a \in 1..Len(ms[n].children)
               /\ InSpan(ms, tt, len + 1, ms[n].children[a], i) <=> InSpan(ns, st, len, ns[n].children[a], i)
    <3>1. PICK c \in 1..Len(ns) : c = ns[n].children[a]
      BY <1>2
    <3>2. ms[n].children[a] = c /\ a \in 1..Len(ms[n].children)
      BY <3>1, ChildrenAfter
    <3>3. InSpan(ms, tt, len + 1, c, i) <=> InSpan(ns, st, len, c, i)
      BY <2>1, SpanAfter
    <3> QED
      BY <3>1, <3>2, <3>3
  <2>4. ASSUME NEW a \in 1..Len(ms[n].children), a \notin 1..Len(ns[n].children)
        PROVE  ~InSpan(ms, tt, len + 1, ms[n].children[a], i)
    <3>1. Opened(ns, st, ms, tt, k, len) /\ ms[n].children[a] = Len(ns) + 1
      BY <2>4, ChildrenAfter
    <3> QED
      BY <3>1, <2>1, NewSpan
  <2>5. bt[i].instance = n
          <=> /\ InSpan(ns, st, len, n, i)
              /\ \A a \in 1..Len(ns[n].children) : ~InSpan(ns, st, len, ns[n].children[a], i)
    BY DEF PlacedOf
  <2> QED
    BY <2>2, <2>3, <2>4, <2>5
<1>5. ASSUME Opened(ns, st, ms, tt, k, len), NEW i \in 1..len
      PROVE  bt[i].instance # Len(ns) + 1 /\ ~InSpan(ms, tt, len + 1, Len(ns) + 1, i)
  <2>1. at[i].instance \in 1..Len(ns) /\ bt[i] = at[i]
    OBVIOUS
  <2>2. i \in Int /\ i # len + 1
    OBVIOUS
  <2> QED
    BY <2>1, <2>2, <1>5, <1>1, NewSpan
<1>6. ASSUME NEW n \in 1..Len(ms)
      PROVE  InSpan(ms, tt, len + 1, n, len + 1) <=> On(tt, n)
  <2>1. CASE n \in 1..Len(ns)
    <3>1. ~InSpan(ns, st, len, n, len + 1)
      BY <2>1, <1>1, SpanBounded
    <3>2. len + 1 \in Int
      OBVIOUS
    <3> QED
      BY <2>1, <3>1, <3>2, SpanAfter
  <2>2. CASE n \notin 1..Len(ns)
    <3>1. Opened(ns, st, ms, tt, k, len) /\ n = Len(ns) + 1
      BY <2>2, <1>1 DEF Grown, Kept
    <3>2. Len(tt) = k + 1 /\ tt[k+1] = n
      BY <3>1 DEF Opened
    <3>3. On(tt, n)
      BY <3>2, <1>1 DEF On
    <3>4. len + 1 \in Int
      OBVIOUS
    <3> QED
      BY <3>1, <3>3, <3>4, NewSpan
  <2> QED
    BY <2>1, <2>2
<1>7. ASSUME NEW n \in 1..Len(ms)
      PROVE  bt[len+1].instance = n
               <=> /\ InSpan(ms, tt, len + 1, n, len + 1)
                   /\ \A a \in 1..Len(ms[n].children) : ~InSpan(ms, tt, len + 1, ms[n].children[a], len + 1)
  <2>1. \A a \in 1..Len(ms[n].children) : ms[n].children[a] \in 1..Len(ms)
    BY <1>1, <1>3 DEF TreeOf, ChildrenOf
  <2>2. On(tt, tt[Len(tt)])
    <3>1. Len(tt) \in Nat /\ Len(tt) >= 1
      BY <1>3, TypedFacts DEF TreeOf, PathOf
    <3> QED
      BY <3>1 DEF On
  <2>3. CASE On(tt, n)
    <3>1. n = tt[Len(tt)] <=> \A a \in 1..Len(ms[n].children) : ~On(tt, ms[n].children[a])
      BY <2>3, <1>3, InnermostHasNoOpenChild
    <3> QED
      BY <3>1, <2>1, <2>3, <1>6
  <2>4. CASE ~On(tt, n)
    BY <2>2, <2>4, <1>6
  <2> QED
    BY <2>3, <2>4
<1>8. ASSUME NEW i \in 1..len+1, NEW n \in 1..Len(ms)
      PROVE  bt[i].instance = n
               <=> /\ InSpan(ms, tt, len + 1, n, i)
                   /\ \A a \in 1..Len(ms[n].children) : ~InSpan(ms, tt, len + 1, ms[n].children[a], i)
  <2>1. CASE i = len + 1
    BY <2>1, <1>7
  <2>2. CASE i \in 1..len /\ n \in 1..Len(ns)
    BY <2>2, <1>4
  <2>3. CASE i \in 1..len /\ n \notin 1..Len(ns)
    <3>1. Opened(ns, st, ms, tt, k, len) /\ n = Len(ns) + 1
      BY <2>3, <1>1 DEF Grown, Kept
    <3> QED
      BY <2>3, <3>1, <1>5
  <2> QED
    BY <2>1, <2>2, <2>3
<1> QED
  BY <1>8 DEF PlacedOf
-----------------------------------------------------------------------------
(***************************************************************************)
(* An instance is numbered below the instances of its name there are.      *)
(***************************************************************************)
(* A label of an instance is a function of its definition: its name, or the definition. *)
LabelIn(lab, ns, n) == lab[ns[n].def]

WithLabel(lab, ns, n, v) == {c \in Range(ns[n].children) : LabelIn(lab, ns, c) = v}

NumberedOf(lab, ns) ==
  \A c \in 2..Len(ns) :
    /\ ns[c].occurrence \in Nat
    /\ ns[c].occurrence < Cardinality(WithLabel(lab, ns, ns[c].parent, LabelIn(lab, ns, c)))

UniqueOf(lab, ns) ==
  \A a, b \in 1..Len(ns) :
    a # b /\ ns[a].parent = ns[b].parent /\ LabelIn(lab, ns, a) = LabelIn(lab, ns, b) =>
      ns[a].occurrence # ns[b].occurrence

SameDefs(ns, ms) == \A n \in 1..Len(ns) : ms[n].def = ns[n].def

Numbers(lab, ns, st, ms, k) ==
  /\ SameDefs(ns, ms)
  /\ \A n \in 1..Len(ns) : ms[n].occurrence = ns[n].occurrence
  /\ Len(ms) > Len(ns) =>
       ms[Len(ms)].occurrence = Cardinality(WithLabel(lab, ns, st[k], LabelIn(lab, ms, Len(ms))))

LEMMA InRange ==
  ASSUME NEW S, NEW s \in Seq(S), NEW x
  PROVE  x \in Range(s) <=> \E a \in 1..Len(s) : s[a] = x
<1>1. DOMAIN s = 1..Len(s)
  BY LenProperties
<1> QED
  BY <1>1 DEF Range

LEMMA AppendedRange ==
  ASSUME NEW S, NEW s \in Seq(S), NEW x \in S
  PROVE  Range(Append(s, x)) = Range(s) \cup {x}
<1>1. Append(s, x) \in Seq(S) /\ Len(s) \in Nat /\ Len(Append(s, x)) = Len(s) + 1
  BY LenProperties
<1>2. /\ \A a \in 1..Len(s) : Append(s, x)[a] = s[a]
      /\ Append(s, x)[Len(s) + 1] = x
  OBVIOUS
<1>3. 1..Len(s)+1 = 1..Len(s) \cup {Len(s) + 1}
  BY <1>1
<1>4. ASSUME NEW y PROVE y \in Range(s) <=> \E a \in 1..Len(s) : s[a] = y
  BY InRange
<1>5. PICK t \in Seq(S) : t = Append(s, x)
  BY <1>1
<1>6. Len(t) = Len(s) + 1 /\ (\A a \in 1..Len(s) : t[a] = s[a]) /\ t[Len(s) + 1] = x
  BY <1>1, <1>2, <1>5
<1>7. ASSUME NEW y PROVE y \in Range(t) <=> \E a \in 1..Len(t) : t[a] = y
  BY InRange
<1>8. ASSUME NEW y PROVE y \in Range(t) <=> y \in Range(s) \/ y = x
  BY <1>3, <1>4, <1>6, <1>7
<1> QED
  BY <1>5, <1>8

LEMMA ChildIn ==
  ASSUME NEW ns, NEW st, TreeOf(ns, st), NEW n \in 1..Len(ns), NEW c \in Range(ns[n].children)
  PROVE  c \in 2..Len(ns) /\ c \in 1..Len(ns) /\ ns[c].parent = n
<1>1. ns[n].children \in Seq(Nat) /\ Len(ns) \in Nat
  BY TypedFacts DEF TreeOf
<1>2. PICK a \in 1..Len(ns[n].children) : ns[n].children[a] = c
  BY <1>1, InRange
<1> QED
  BY <1>1, <1>2 DEF TreeOf, ChildrenOf

LEMMA LabelFinite ==
  ASSUME NEW ns, NEW st, TreeOf(ns, st), NEW lab, NEW n \in 1..Len(ns), NEW v
  PROVE  IsFiniteSet(WithLabel(lab, ns, n, v)) /\ Cardinality(WithLabel(lab, ns, n, v)) \in Nat
<1>1. WithLabel(lab, ns, n, v) \in SUBSET (2..Len(ns))
  BY ChildIn DEF WithLabel
<1>2. IsFiniteSet(2..Len(ns))
  <2>1. Len(ns) \in Int /\ 2 \in Int
    BY TypedFacts DEF TreeOf
  <2> QED
    BY <2>1, FS_Interval
<1>3. IsFiniteSet(WithLabel(lab, ns, n, v))
  BY <1>1, <1>2, FS_Subset
<1> QED
  BY <1>3, FS_CardinalityType

(* A step adds an instance with this label to the children of n. *)
Gains(lab, ns, st, ms, k, n, v) ==
  Len(ms) > Len(ns) /\ n = st[k] /\ LabelIn(lab, ms, Len(ms)) = v

LEMMA LabelAfter ==
  ASSUME NEW ns, NEW st, NEW ms, NEW tt, NEW k, NEW len \in Nat, TreeOf(ns, st),
         Grown(ns, st, ms, tt, k, len), Typed(ms, tt), SameDefs(ns, ms), NEW lab,
         NEW n \in 1..Len(ns), NEW v
  PROVE  /\ Gains(lab, ns, st, ms, k, n, v) =>
              WithLabel(lab, ms, n, v) = WithLabel(lab, ns, n, v) \cup {Len(ms)}
         /\ ~Gains(lab, ns, st, ms, k, n, v) =>
              WithLabel(lab, ms, n, v) = WithLabel(lab, ns, n, v)
<1>1. Len(ns) \in Nat /\ n \in 1..Len(ms) /\ Len(ms) \in {Len(ns), Len(ns) + 1}
  BY GrownSizes
<1>2. \A c \in 1..Len(ns) : LabelIn(lab, ms, c) = LabelIn(lab, ns, c)
  BY DEF SameDefs, LabelIn
<1>3. \A c : c \in Range(ns[n].children) => c \in 1..Len(ns)
  BY ChildIn
<1>4. CASE Len(ms) > Len(ns) /\ n = st[k]
  <2>1. Opened(ns, st, ms, tt, k, len)
    BY <1>1, <1>4 DEF Grown, Kept
  <2>2. ms[n].children = Append(ns[n].children, Len(ms)) /\ ns[n].children \in Seq(Nat)
    BY <2>1, <1>4, TypedFacts DEF Opened, TreeOf
  <2>3. Range(ms[n].children) = Range(ns[n].children) \cup {Len(ms)}
    <3>1. PICK q \in Seq(Nat) : q = ns[n].children
      BY <2>2
    <3>2. PICK x \in Nat : x = Len(ms)
      BY <1>1
    <3>3. Range(Append(q, x)) = Range(q) \cup {x}
      BY AppendedRange
    <3> QED
      BY <3>1, <3>2, <3>3, <2>2
  <2>4. \A c : c \in Range(ns[n].children) => LabelIn(lab, ms, c) = LabelIn(lab, ns, c)
    BY <1>2, <1>3
  <2> QED
    BY <2>3, <2>4, <1>4 DEF WithLabel, Gains
<1>5. CASE ~(Len(ms) > Len(ns) /\ n = st[k])
  <2>1. ms[n].children = ns[n].children
    BY <1>1, <1>5 DEF Grown, Kept, Opened
  <2> QED
    BY <2>1, <1>2, <1>3, <1>5 DEF WithLabel, Gains
<1> QED
  BY <1>4, <1>5

LEMMA NumbersAfter ==
  ASSUME NEW ns, NEW st, NEW ms, NEW tt, NEW k, NEW len \in Nat, TreeOf(ns, st),
         Grown(ns, st, ms, tt, k, len), Typed(ms, tt), NEW lab, Numbers(lab, ns, st, ms, k),
         NumberedOf(lab, ns), UniqueOf(lab, ns)
  PROVE  NumberedOf(lab, ms) /\ UniqueOf(lab, ms)
<1>0. SameDefs(ns, ms)
  BY DEF Numbers
<1>1. /\ Len(ns) \in Nat /\ Len(ms) \in {Len(ns), Len(ns) + 1} /\ st[k] \in 1..Len(ns)
      /\ \A n \in 1..Len(ns) : ms[n].parent = ns[n].parent /\ ns[n].parent \in Nat
  BY TypedFacts DEF TreeOf, Grown, Kept, Opened, Moved
<1>2. \A c \in 1..Len(ns) : LabelIn(lab, ms, c) = LabelIn(lab, ns, c) /\ ms[c].occurrence = ns[c].occurrence
  BY DEF Numbers, SameDefs, LabelIn
<1>3. ASSUME Len(ms) > Len(ns)
      PROVE  /\ Len(ms) = Len(ns) + 1 /\ ms[Len(ms)].parent = st[k]
             /\ ms[Len(ms)].occurrence = Cardinality(WithLabel(lab, ns, st[k], LabelIn(lab, ms, Len(ms))))
  BY <1>1, <1>3 DEF Grown, Kept, Opened, Numbers
<1>4. ASSUME NEW n \in 1..Len(ns), NEW v
      PROVE  Cardinality(WithLabel(lab, ns, n, v)) <= Cardinality(WithLabel(lab, ms, n, v))
  <2>1. IsFiniteSet(WithLabel(lab, ns, n, v)) /\ Cardinality(WithLabel(lab, ns, n, v)) \in Nat
    BY LabelFinite
  <2>2. WithLabel(lab, ms, n, v) \in {WithLabel(lab, ns, n, v), WithLabel(lab, ns, n, v) \cup {Len(ms)}}
    BY <1>0, LabelAfter
  <2>3. Cardinality(WithLabel(lab, ns, n, v) \cup {Len(ms)})
          \in {Cardinality(WithLabel(lab, ns, n, v)), Cardinality(WithLabel(lab, ns, n, v)) + 1}
    BY <2>1, FS_AddElement
  <2>4. CASE WithLabel(lab, ms, n, v) = WithLabel(lab, ns, n, v)
    BY <2>1, <2>4
  <2>5. CASE WithLabel(lab, ms, n, v) = WithLabel(lab, ns, n, v) \cup {Len(ms)}
    BY <2>1, <2>3, <2>5
  <2> QED
    BY <2>2, <2>4, <2>5
<1>5. ASSUME NEW c \in 2..Len(ns)
      PROVE  /\ ms[c].occurrence \in Nat
             /\ ms[c].occurrence < Cardinality(WithLabel(lab, ms, ms[c].parent, LabelIn(lab, ms, c)))
  <2>1. c \in 1..Len(ns)
    BY <1>1
  <2>2. ns[c].parent >= 1 /\ ns[c].parent < c
    BY <2>1 DEF TreeOf, ParentsOf
  <2>3. PICK n \in 1..Len(ns) : n = ns[c].parent
    BY <2>1, <2>2, <1>1
  <2>4. PICK v : v = LabelIn(lab, ns, c)
    OBVIOUS
  <2>5. ns[c].occurrence \in Nat /\ ns[c].occurrence < Cardinality(WithLabel(lab, ns, n, v))
    BY <2>3, <2>4 DEF NumberedOf
  <2>6. /\ Cardinality(WithLabel(lab, ns, n, v)) <= Cardinality(WithLabel(lab, ms, n, v))
        /\ Cardinality(WithLabel(lab, ns, n, v)) \in Nat
    BY <1>4, LabelFinite
  <2>7. IsFiniteSet(WithLabel(lab, ns, n, v) \cup {Len(ms)}) /\ IsFiniteSet(WithLabel(lab, ms, n, v))
    <3>1. IsFiniteSet(WithLabel(lab, ns, n, v))
      BY LabelFinite
    <3>2. IsFiniteSet(WithLabel(lab, ns, n, v) \cup {Len(ms)})
      BY <3>1, FS_AddElement
    <3>3. WithLabel(lab, ms, n, v) \in {WithLabel(lab, ns, n, v), WithLabel(lab, ns, n, v) \cup {Len(ms)}}
      BY <1>0, LabelAfter
    <3> QED
      BY <3>1, <3>2, <3>3
  <2>8. Cardinality(WithLabel(lab, ms, n, v)) \in Nat
    BY <2>7, FS_CardinalityType
  <2>9. ms[c].occurrence = ns[c].occurrence /\ ms[c].parent = n /\ LabelIn(lab, ms, c) = v
    BY <2>1, <2>3, <2>4, <1>1, <1>2
  <2>10. ns[c].occurrence < Cardinality(WithLabel(lab, ms, n, v))
    BY <2>5, <2>6, <2>8
  <2> QED
    BY <2>5, <2>9, <2>10
<1>6. ASSUME Len(ms) > Len(ns)
      PROVE  /\ ms[Len(ms)].occurrence \in Nat
             /\ ms[Len(ms)].occurrence
                  < Cardinality(WithLabel(lab, ms, ms[Len(ms)].parent, LabelIn(lab, ms, Len(ms))))
  <2>1. PICK v : v = LabelIn(lab, ms, Len(ms))
    OBVIOUS
  <2>2. PICK n \in 1..Len(ns) : n = st[k]
    BY <1>1
  <2>3. WithLabel(lab, ms, n, v) = WithLabel(lab, ns, n, v) \cup {Len(ms)}
    <3>1. Gains(lab, ns, st, ms, k, n, v)
      BY <2>1, <2>2, <1>6 DEF Gains
    <3> QED
      BY <3>1, <1>0, LabelAfter
  <2>4. Len(ms) \notin WithLabel(lab, ns, n, v)
    <3>1. \A c : c \in Range(ns[n].children) => c \in 1..Len(ns)
      BY ChildIn
    <3> QED
      BY <3>1, <1>1, <1>6 DEF WithLabel
  <2>5. IsFiniteSet(WithLabel(lab, ns, n, v)) /\ Cardinality(WithLabel(lab, ns, n, v)) \in Nat
    BY LabelFinite
  <2>6. Cardinality(WithLabel(lab, ms, n, v)) = Cardinality(WithLabel(lab, ns, n, v)) + 1
    BY <2>3, <2>4, <2>5, FS_AddElement
  <2> QED
    BY <2>1, <2>2, <2>5, <2>6, <1>3, <1>6
<1>7. NumberedOf(lab, ms)
  <2>1. \A c \in 2..Len(ms) : c \in 2..Len(ns) \/ (c = Len(ms) /\ Len(ms) > Len(ns))
    BY <1>1
  <2> QED
    BY <2>1, <1>5, <1>6 DEF NumberedOf
<1>8. ASSUME NEW a \in 1..Len(ns), Len(ms) > Len(ns), ms[a].parent = ms[Len(ms)].parent,
             LabelIn(lab, ms, a) = LabelIn(lab, ms, Len(ms))
      PROVE  ms[a].occurrence # ms[Len(ms)].occurrence
  <2>1. ns[a].parent = st[k] /\ ns[a].parent >= 1
    BY <1>1, <1>3, <1>8
  <2>2. ns[1].parent < 1
    BY <1>1 DEF TreeOf, ParentsOf
  <2>3. a \in 2..Len(ns)
    <3>1. a # 1
      BY <2>1, <2>2, <1>1
    <3> QED
      BY <3>1, <1>1
  <2>4. PICK v : v = LabelIn(lab, ms, Len(ms))
    OBVIOUS
  <2>5. PICK n \in 1..Len(ns) : n = st[k]
    BY <1>1
  <2>6. ns[a].occurrence \in Nat /\ ns[a].occurrence < Cardinality(WithLabel(lab, ns, n, v))
    <3>1. LabelIn(lab, ns, a) = v
      BY <2>4, <1>2, <1>8
    <3> QED
      BY <3>1, <2>1, <2>3, <2>5 DEF NumberedOf
  <2>7. Cardinality(WithLabel(lab, ns, n, v)) \in Nat
    BY <2>5, LabelFinite
  <2> QED
    BY <2>4, <2>5, <2>6, <2>7, <1>2, <1>3, <1>8
<1>9. ASSUME NEW a \in 1..Len(ns), NEW b \in 1..Len(ns), a # b, ms[a].parent = ms[b].parent,
             LabelIn(lab, ms, a) = LabelIn(lab, ms, b)
      PROVE  ms[a].occurrence # ms[b].occurrence
  BY <1>1, <1>2, <1>9 DEF UniqueOf
<1>10. UniqueOf(lab, ms)
  <2>1. \A c \in 1..Len(ms) : c \in 1..Len(ns) \/ (c = Len(ms) /\ Len(ms) > Len(ns))
    BY <1>1
  <2> QED
    BY <2>1, <1>8, <1>9 DEF UniqueOf
<1> QED
  BY <1>7, <1>10
-----------------------------------------------------------------------------
(***************************************************************************)
(* What a member has taken, in any tree and slots.                         *)
(***************************************************************************)
Itself(sch) == [d \in DOMAIN sch |-> d]
MembersOf(sch, ns, n) == sch[ns[n].def].members
GroupAt(sch, ns, n, j) == MembersOf(sch, ns, n)[j].group
SlotsOf(at, len, x) == {i \in 1..len : at[i] = x}

TakenOf(sch, ns, at, len, n, j) ==
  Cardinality(SlotsOf(at, len, Slot(n, j)))
    + Cardinality(WithLabel(Itself(sch), ns, n, GroupAt(sch, ns, n, j)))

DefsIn(sch, ns) == \A n \in 1..Len(ns) : ns[n].def \in DOMAIN sch

(* The member j0 of n0 takes the next segment, or none does. *)
Took(sch, ns, ms, n0, j0, x) ==
  \/ /\ Len(ms) = Len(ns) /\ x = Slot(n0, j0)
  \/ /\ Len(ms) > Len(ns) /\ x = Slot(Len(ms), Trigger)
     /\ j0 \in DOMAIN MembersOf(sch, ns, n0)
     /\ ms[Len(ms)].def = GroupAt(sch, ns, n0, j0) /\ GroupAt(sch, ns, n0, j0) # NoGroup

Extends(at, bt, len) == \A i \in 1..len : bt[i] = at[i]

LEMMA SlotsFinite ==
  ASSUME NEW at, NEW len \in Nat, NEW x
  PROVE  IsFiniteSet(SlotsOf(at, len, x)) /\ Cardinality(SlotsOf(at, len, x)) \in Nat
<1>1. IsFiniteSet(1..len)
  <2>1. len \in Int /\ 1 \in Int
    OBVIOUS
  <2> QED
    BY <2>1, FS_Interval
<1>2. SlotsOf(at, len, x) \in SUBSET (1..len)
  BY DEF SlotsOf
<1>3. IsFiniteSet(SlotsOf(at, len, x))
  BY <1>1, <1>2, FS_Subset
<1> QED
  BY <1>3, FS_CardinalityType

LEMMA SlotsAfter ==
  ASSUME NEW at, NEW bt, NEW len \in Nat, NEW next, next = len + 1, Extends(at, bt, len), NEW x
  PROVE  /\ bt[next] = x => Cardinality(SlotsOf(bt, next, x)) = Cardinality(SlotsOf(at, len, x)) + 1
         /\ bt[next] # x => Cardinality(SlotsOf(bt, next, x)) = Cardinality(SlotsOf(at, len, x))
<1>1. 1..next = 1..len \cup {next} /\ next \notin 1..len
  OBVIOUS
<1>2. CASE bt[next] = x
  <2>1. SlotsOf(bt, next, x) = SlotsOf(at, len, x) \cup {next}
    BY <1>1, <1>2 DEF SlotsOf, Extends
  <2>2. next \notin SlotsOf(at, len, x)
    BY <1>1 DEF SlotsOf
  <2>3. IsFiniteSet(SlotsOf(at, len, x))
    BY SlotsFinite
  <2>4. Cardinality(SlotsOf(at, len, x) \cup {next}) = Cardinality(SlotsOf(at, len, x)) + 1
    BY <2>2, <2>3, FS_AddElement
  <2> QED
    BY <2>1, <2>4, <1>2
<1>3. CASE bt[next] # x
  <2>1. SlotsOf(bt, next, x) = SlotsOf(at, len, x)
    BY <1>1, <1>3 DEF SlotsOf, Extends
  <2> QED
    BY <2>1, <1>3
<1> QED
  BY <1>2, <1>3

LEMMA LabelCountAfter ==
  ASSUME NEW ns, NEW st, NEW ms, NEW tt, NEW k, NEW len \in Nat, TreeOf(ns, st),
         Grown(ns, st, ms, tt, k, len), Typed(ms, tt), SameDefs(ns, ms), NEW lab,
         NEW n \in 1..Len(ns), NEW v
  PROVE  /\ Gains(lab, ns, st, ms, k, n, v) =>
              Cardinality(WithLabel(lab, ms, n, v)) = Cardinality(WithLabel(lab, ns, n, v)) + 1
         /\ ~Gains(lab, ns, st, ms, k, n, v) =>
              Cardinality(WithLabel(lab, ms, n, v)) = Cardinality(WithLabel(lab, ns, n, v))
<1>1. CASE Gains(lab, ns, st, ms, k, n, v)
  <2>1. WithLabel(lab, ms, n, v) = WithLabel(lab, ns, n, v) \cup {Len(ms)}
    BY <1>1, LabelAfter
  <2>2. IsFiniteSet(WithLabel(lab, ns, n, v))
    BY LabelFinite
  <2>3. Len(ms) \notin WithLabel(lab, ns, n, v)
    <3>1. \A c : c \in Range(ns[n].children) => c \in 1..Len(ns)
      BY ChildIn
    <3>2. Len(ms) \in Nat /\ Len(ns) \in Nat
      BY TypedFacts DEF TreeOf
    <3> QED
      BY <3>1, <3>2, <1>1 DEF WithLabel, Gains
  <2>4. Cardinality(WithLabel(lab, ns, n, v) \cup {Len(ms)}) = Cardinality(WithLabel(lab, ns, n, v)) + 1
    BY <2>2, <2>3, FS_AddElement
  <2> QED
    BY <2>1, <2>4, <1>1
<1>2. CASE ~Gains(lab, ns, st, ms, k, n, v)
  <2>1. WithLabel(lab, ms, n, v) = WithLabel(lab, ns, n, v)
    BY <1>2, LabelAfter
  <2> QED
    BY <2>1, <1>2
<1> QED
  BY <1>1, <1>2

(* Only the chosen member's number goes up, and only by one. *)
LEMMA TakenAfter ==
  ASSUME NEW ns, NEW st, NEW ms, NEW tt, NEW k, NEW len \in Nat, NEW next, next = len + 1, TreeOf(ns, st),
         Grown(ns, st, ms, tt, k, len), Typed(ms, tt), SameDefs(ns, ms),
         NEW sch, OneEntryEach(sch), DefsIn(sch, ns), DefsIn(sch, ms),
         NEW at, NEW bt, Extends(at, bt, len),
         NEW j0 \in Nat, Took(sch, ns, ms, st[k], j0, bt[next]),
         NEW n \in 1..Len(ns), NEW j \in DOMAIN MembersOf(sch, ns, n), j \in Nat \ {0}
  PROVE  /\ TakenOf(sch, ns, at, len, n, j) \in Nat
         /\ TakenOf(sch, ms, bt, next, n, j) =
              TakenOf(sch, ns, at, len, n, j) + (IF n = st[k] /\ j = j0 THEN 1 ELSE 0)
<1>1. Len(ns) \in Nat /\ Len(ms) \in {Len(ns), Len(ns) + 1} /\ st[k] \in 1..Len(ns)
  BY TypedFacts DEF TreeOf, Grown, Kept, Opened, Moved
<1>2. PICK g : g = GroupAt(sch, ns, n, j)
  OBVIOUS
<1>3. GroupAt(sch, ms, n, j) = g
  BY <1>2 DEF GroupAt, MembersOf, SameDefs
<1>4. PICK s : s = Slot(n, j)
  OBVIOUS
<1>5. PICK lab : lab = Itself(sch)
  OBVIOUS
<1>6. /\ bt[next] = s => Cardinality(SlotsOf(bt, next, s)) = Cardinality(SlotsOf(at, len, s)) + 1
      /\ bt[next] # s => Cardinality(SlotsOf(bt, next, s)) = Cardinality(SlotsOf(at, len, s))
  BY SlotsAfter
<1>7. /\ Gains(lab, ns, st, ms, k, n, g) =>
           Cardinality(WithLabel(lab, ms, n, g)) = Cardinality(WithLabel(lab, ns, n, g)) + 1
      /\ ~Gains(lab, ns, st, ms, k, n, g) =>
           Cardinality(WithLabel(lab, ms, n, g)) = Cardinality(WithLabel(lab, ns, n, g))
  BY LabelCountAfter
<1>8. Cardinality(SlotsOf(at, len, s)) \in Nat /\ Cardinality(WithLabel(lab, ns, n, g)) \in Nat
  BY SlotsFinite, LabelFinite
<1>9. /\ TakenOf(sch, ns, at, len, n, j)
           = Cardinality(SlotsOf(at, len, s)) + Cardinality(WithLabel(lab, ns, n, g))
      /\ TakenOf(sch, ms, bt, next, n, j)
           = Cardinality(SlotsOf(bt, next, s)) + Cardinality(WithLabel(lab, ms, n, g))
  BY <1>2, <1>3, <1>4, <1>5 DEF TakenOf
<1>10. CASE Len(ms) = Len(ns)
  <2>1. bt[next] = Slot(st[k], j0)
    BY <1>10, <1>1 DEF Took
  <2>2. bt[next] = s <=> n = st[k] /\ j = j0
    BY <2>1, <1>4 DEF Slot
  <2> QED
    BY <2>2, <1>6, <1>7, <1>8, <1>9, <1>10, <1>1 DEF Gains
<1>11. CASE Len(ms) > Len(ns)
  <2>1. /\ bt[next] = Slot(Len(ms), Trigger) /\ ms[Len(ms)].def = GroupAt(sch, ns, st[k], j0)
        /\ GroupAt(sch, ns, st[k], j0) # NoGroup /\ j0 \in DOMAIN MembersOf(sch, ns, st[k])
    BY <1>11, <1>1 DEF Took
  <2>2. bt[next] # s
    <3>1. n # Len(ms)
      BY <1>1, <1>11
    <3> QED
      BY <3>1, <2>1, <1>4 DEF Slot
  <2>3. LabelIn(lab, ms, Len(ms)) = GroupAt(sch, ns, st[k], j0)
    <3>1. ms[Len(ms)].def \in DOMAIN sch
      BY <1>1, <1>11 DEF DefsIn
    <3> QED
      BY <3>1, <2>1, <1>5 DEF LabelIn, Itself
  <2>4. n = st[k] /\ LabelIn(lab, ms, Len(ms)) = g <=> n = st[k] /\ j = j0
    <3>1. ASSUME n = st[k], j = j0 PROVE LabelIn(lab, ms, Len(ms)) = g
      BY <3>1, <2>3, <1>2
    <3>2. ASSUME n = st[k], LabelIn(lab, ms, Len(ms)) = g PROVE j = j0
      <4>1. GroupAt(sch, ns, n, j) = GroupAt(sch, ns, n, j0) /\ GroupAt(sch, ns, n, j) # NoGroup
        BY <3>2, <2>1, <2>3, <1>2
      <4>2. ns[n].def \in DOMAIN sch
        BY DEF DefsIn
      <4>3. j \in DOMAIN MembersOf(sch, ns, n) /\ j0 \in DOMAIN MembersOf(sch, ns, n)
        BY <3>2, <2>1
      <4> QED
        BY <4>1, <4>2, <4>3 DEF OneEntryEach, GroupAt, MembersOf
    <3> QED
      BY <3>1, <3>2
  <2>5. Gains(lab, ns, st, ms, k, n, g) <=> n = st[k] /\ j = j0
    BY <2>4, <1>11 DEF Gains
  <2> QED
    BY <2>2, <2>5, <1>6, <1>7, <1>8, <1>9
<1> QED
  BY <1>10, <1>11, <1>1

LEMMA NothingTaken ==
  ASSUME NEW ns, NEW st, NEW ms, NEW tt, NEW k, NEW len \in Nat, NEW next, next = len + 1, TreeOf(ns, st),
         Grown(ns, st, ms, tt, k, len), Typed(ms, tt), Len(ms) > Len(ns), NEW sch,
         NEW at, NEW bt, \A i \in 1..len : bt[i] = at[i] /\ at[i].instance \in 1..Len(ns),
         NEW j0 \in Nat, Took(sch, ns, ms, st[k], j0, bt[next]), NEW j \in Nat \ {0}
  PROVE  TakenOf(sch, ms, bt, next, Len(ms), j) = 0
<1>1. Len(ns) \in Nat /\ Len(ms) = Len(ns) + 1
  BY GrownSizes
<1>2. ASSUME NEW i \in 1..next PROVE bt[i] # Slot(Len(ms), j)
  <2>1. CASE i \in 1..len
    <3>1. bt[i].instance \in 1..Len(ns)
      BY <2>1
    <3>2. Slot(Len(ms), j).instance = Len(ms)
      BY DEF Slot
    <3> QED
      BY <3>1, <3>2, <1>1
  <2>2. CASE i = next
    <3>1. bt[next].member = 0 - 1
      BY <1>1 DEF Took, Slot, Trigger
    <3>2. Slot(Len(ms), j).member = j
      BY DEF Slot
    <3> QED
      BY <3>1, <3>2, <2>2
  <2> QED
    BY <2>1, <2>2
<1>3. SlotsOf(bt, next, Slot(Len(ms), j)) = {}
  BY <1>2 DEF SlotsOf
<1>4. ms[Len(ms)].children = <<>>
  BY GrownSizes
<1>5. \A lab, v : WithLabel(lab, ms, Len(ms), v) = {}
  BY <1>4 DEF WithLabel, Range
<1>6. Cardinality({}) = 0
  BY FS_EmptySet
<1>7. Cardinality(WithLabel(Itself(sch), ms, Len(ms), GroupAt(sch, ms, Len(ms), j))) = 0
  BY <1>5, <1>6
<1>8. Cardinality(SlotsOf(bt, next, Slot(Len(ms), j))) = 0
  BY <1>3, <1>6
<1> QED
  BY <1>7, <1>8 DEF TakenOf
-----------------------------------------------------------------------------
FromOf(sch, ns, n) == FirstMember(ns[n].def, sch[ns[n].def].ordered)
CountedOf(sch, ns, n) == FromOf(sch, ns, n) .. Len(MembersOf(sch, ns, n))
MaxOf(sch, ns, n, j) == MembersOf(sch, ns, n)[j].max

CountsOf(sch, ns, at, len) ==
  \A n \in 1..Len(ns) : \A j \in CountedOf(sch, ns, n) :
    ns[n].counts[j] = TakenOf(sch, ns, at, len, n, j)

ExcessOf(sch, ns, at, len) ==
  UNION {UNION {{<<n, j>>} \X (MaxOf(sch, ns, n, j) + 1 .. TakenOf(sch, ns, at, len, n, j)) :
                  j \in CountedOf(sch, ns, n)} : n \in 1..Len(ns)}

MembersTyped(sch) ==
  \A d \in DOMAIN sch :
    /\ DOMAIN sch[d].members = 1..Len(sch[d].members) /\ Len(sch[d].members) \in Nat
    /\ \A j \in DOMAIN sch[d].members : sch[d].members[j].max \in Nat \ {0}

(* How the counts of a step change. *)
CountsStep(sch, ns, ms, n0, j0) ==
  /\ \A n \in 1..Len(ns) : \A j \in DOMAIN MembersOf(sch, ns, n) :
       ms[n].counts[j] = ns[n].counts[j] + (IF n = n0 /\ j = j0 THEN 1 ELSE 0)
  /\ Len(ms) > Len(ns) => \A j \in CountedOf(sch, ms, Len(ms)) : ms[Len(ms)].counts[j] = 0

CountStep(sch, ns, st, ms, tt, k, len, next, at, bt, j0) ==
  /\ len \in Nat /\ next = len + 1 /\ j0 \in Nat
  /\ TreeOf(ns, st) /\ Grown(ns, st, ms, tt, k, len) /\ Typed(ms, tt)
  /\ SameDefs(ns, ms) /\ DefsIn(sch, ns) /\ DefsIn(sch, ms)
  /\ OneEntryEach(sch) /\ MembersTyped(sch)
  /\ Extends(at, bt, len) /\ \A i \in 1..len : at[i].instance \in 1..Len(ns)
  /\ Took(sch, ns, ms, st[k], j0, bt[next])
  /\ CountsStep(sch, ns, ms, st[k], j0)

(* What the members of an instance have taken, after a step. *)
LEMMA TakenStep ==
  ASSUME NEW sch, NEW ns, NEW st, NEW ms, NEW tt, NEW k, NEW len, NEW next, NEW at, NEW bt, NEW j0,
         CountStep(sch, ns, st, ms, tt, k, len, next, at, bt, j0),
         NEW n \in 1..Len(ns), NEW j \in CountedOf(sch, ns, n)
  PROVE  /\ CountedOf(sch, ms, n) = CountedOf(sch, ns, n) /\ MaxOf(sch, ms, n, j) = MaxOf(sch, ns, n, j)
         /\ j \in DOMAIN MembersOf(sch, ns, n) /\ MaxOf(sch, ns, n, j) \in Nat \ {0}
         /\ TakenOf(sch, ns, at, len, n, j) \in Nat
         /\ n = st[k] /\ j = j0 =>
              TakenOf(sch, ms, bt, next, n, j) = TakenOf(sch, ns, at, len, n, j) + 1
         /\ ~(n = st[k] /\ j = j0) =>
              TakenOf(sch, ms, bt, next, n, j) = TakenOf(sch, ns, at, len, n, j)
<1>1. ms[n].def = ns[n].def /\ ns[n].def \in DOMAIN sch
  BY DEF CountStep, SameDefs, DefsIn
<1>2. CountedOf(sch, ms, n) = CountedOf(sch, ns, n) /\ MaxOf(sch, ms, n, j) = MaxOf(sch, ns, n, j)
  BY <1>1 DEF CountedOf, FromOf, MembersOf, MaxOf
<1>3. /\ DOMAIN MembersOf(sch, ns, n) = 1..Len(MembersOf(sch, ns, n)) /\ Len(MembersOf(sch, ns, n)) \in Nat
      /\ \A i \in DOMAIN MembersOf(sch, ns, n) : MaxOf(sch, ns, n, i) \in Nat \ {0}
  BY <1>1 DEF CountStep, MembersTyped, MembersOf, MaxOf
<1>4. FromOf(sch, ns, n) \in {1, 2}
  BY DEF FromOf, FirstMember
<1>5. j \in DOMAIN MembersOf(sch, ns, n) /\ j \in Nat \ {0}
  BY <1>3, <1>4 DEF CountedOf
<1>6. /\ len \in Nat /\ next = len + 1 /\ j0 \in Nat
      /\ TreeOf(ns, st) /\ Grown(ns, st, ms, tt, k, len) /\ Typed(ms, tt)
      /\ SameDefs(ns, ms) /\ OneEntryEach(sch) /\ DefsIn(sch, ns) /\ DefsIn(sch, ms)
      /\ Extends(at, bt, len) /\ Took(sch, ns, ms, st[k], j0, bt[next])
  BY DEF CountStep
<1>7. /\ TakenOf(sch, ns, at, len, n, j) \in Nat
      /\ TakenOf(sch, ms, bt, next, n, j) =
           TakenOf(sch, ns, at, len, n, j) + (IF n = st[k] /\ j = j0 THEN 1 ELSE 0)
  BY <1>5, <1>6, TakenAfter
<1> QED
  BY <1>2, <1>3, <1>5, <1>7

LEMMA NothingStep ==
  ASSUME NEW sch, NEW ns, NEW st, NEW ms, NEW tt, NEW k, NEW len, NEW next, NEW at, NEW bt, NEW j0,
         CountStep(sch, ns, st, ms, tt, k, len, next, at, bt, j0),
         Len(ms) > Len(ns), NEW j \in CountedOf(sch, ms, Len(ms))
  PROVE  /\ Len(ms) \in 1..Len(ms) /\ j \in DOMAIN MembersOf(sch, ms, Len(ms))
         /\ MaxOf(sch, ms, Len(ms), j) \in Nat \ {0}
         /\ TakenOf(sch, ms, bt, next, Len(ms), j) = 0
<1>1. /\ len \in Nat /\ next = len + 1 /\ j0 \in Nat
      /\ TreeOf(ns, st) /\ Grown(ns, st, ms, tt, k, len) /\ Typed(ms, tt)
      /\ Extends(at, bt, len) /\ \A i \in 1..len : at[i].instance \in 1..Len(ns)
      /\ Took(sch, ns, ms, st[k], j0, bt[next])
  BY DEF CountStep
<1>2. Len(ms) \in 1..Len(ms)
  <2>1. Len(ms) \in Nat /\ Len(ns) \in Nat
    BY <1>1, TypedFacts DEF TreeOf
  <2> QED
    BY <2>1
<1>3. ms[Len(ms)].def \in DOMAIN sch
  BY <1>2 DEF CountStep, DefsIn
<1>4. /\ DOMAIN MembersOf(sch, ms, Len(ms)) = 1..Len(MembersOf(sch, ms, Len(ms)))
      /\ Len(MembersOf(sch, ms, Len(ms))) \in Nat
      /\ \A i \in DOMAIN MembersOf(sch, ms, Len(ms)) : MaxOf(sch, ms, Len(ms), i) \in Nat \ {0}
  BY <1>3 DEF CountStep, MembersTyped, MembersOf, MaxOf
<1>5. FromOf(sch, ms, Len(ms)) \in {1, 2}
  BY DEF FromOf, FirstMember
<1>6. j \in DOMAIN MembersOf(sch, ms, Len(ms)) /\ j \in Nat \ {0}
  BY <1>4, <1>5 DEF CountedOf
<1>7. \A i \in 1..len : bt[i] = at[i] /\ at[i].instance \in 1..Len(ns)
  BY <1>1 DEF Extends
<1>8. TakenOf(sch, ms, bt, next, Len(ms), j) = 0
  BY <1>1, <1>6, <1>7, NothingTaken
<1> QED
  BY <1>2, <1>4, <1>6, <1>8

LEMMA CountsAfter ==
  ASSUME NEW sch, NEW ns, NEW st, NEW ms, NEW tt, NEW k, NEW len, NEW next, NEW at, NEW bt, NEW j0,
         CountStep(sch, ns, st, ms, tt, k, len, next, at, bt, j0), CountsOf(sch, ns, at, len)
  PROVE  CountsOf(sch, ms, bt, next)
<1>1. ASSUME NEW n \in 1..Len(ns), NEW j \in CountedOf(sch, ms, n)
      PROVE  ms[n].counts[j] = TakenOf(sch, ms, bt, next, n, j)
  <2>1. CountedOf(sch, ms, n) = CountedOf(sch, ns, n)
    BY DEF CountStep, SameDefs, CountedOf, FromOf, MembersOf
  <2>2. /\ j \in CountedOf(sch, ns, n) /\ j \in DOMAIN MembersOf(sch, ns, n)
        /\ TakenOf(sch, ns, at, len, n, j) \in Nat
        /\ n = st[k] /\ j = j0 =>
             TakenOf(sch, ms, bt, next, n, j) = TakenOf(sch, ns, at, len, n, j) + 1
        /\ ~(n = st[k] /\ j = j0) =>
             TakenOf(sch, ms, bt, next, n, j) = TakenOf(sch, ns, at, len, n, j)
    BY <2>1, TakenStep
  <2>3. ms[n].counts[j] = ns[n].counts[j] + (IF n = st[k] /\ j = j0 THEN 1 ELSE 0)
    BY <2>2 DEF CountStep, CountsStep
  <2>4. ns[n].counts[j] = TakenOf(sch, ns, at, len, n, j)
    BY <2>2 DEF CountsOf
  <2> QED
    BY <2>2, <2>3, <2>4
<1>2. ASSUME Len(ms) > Len(ns), NEW j \in CountedOf(sch, ms, Len(ms))
      PROVE  ms[Len(ms)].counts[j] = TakenOf(sch, ms, bt, next, Len(ms), j)
  <2>1. ms[Len(ms)].counts[j] = 0
    BY <1>2 DEF CountStep, CountsStep
  <2> QED
    BY <2>1, <1>2, NothingStep
<1>3. \A n \in 1..Len(ms) : n \in 1..Len(ns) \/ (n = Len(ms) /\ Len(ms) > Len(ns))
  <2>1. Len(ns) \in Nat /\ Len(ms) \in {Len(ns), Len(ns) + 1}
    BY GrownSizes DEF CountStep
  <2> QED
    BY <2>1
<1> QED
  BY <1>1, <1>2, <1>3 DEF CountsOf

LEMMA InExcess ==
  ASSUME NEW sch, NEW ns, NEW at, NEW len, NEW e
  PROVE  e \in ExcessOf(sch, ns, at, len)
           <=> \E n \in 1..Len(ns) : \E j \in CountedOf(sch, ns, n) :
                 \E x \in MaxOf(sch, ns, n, j) + 1 .. TakenOf(sch, ns, at, len, n, j) : e = <<<<n, j>>, x>>
BY DEF ExcessOf
(* The step takes one more than a member's maximum. *)
Exceeds(sch, ns, at, len, n0, j0) ==
  j0 \in CountedOf(sch, ns, n0) /\ TakenOf(sch, ns, at, len, n0, j0) >= MaxOf(sch, ns, n0, j0)

ExcessStep(sch, ns, ms, at, bt, len, next, n0, j0, x0) ==
  /\ Exceeds(sch, ns, at, len, n0, j0) =>
       /\ ExcessOf(sch, ms, bt, next) = ExcessOf(sch, ns, at, len) \cup {<<<<n0, j0>>, x0>>}
       /\ <<<<n0, j0>>, x0>> \notin ExcessOf(sch, ns, at, len)
  /\ ~Exceeds(sch, ns, at, len, n0, j0) =>
       ExcessOf(sch, ms, bt, next) = ExcessOf(sch, ns, at, len)

LEMMA ExcessAfter ==
  ASSUME NEW sch, NEW ns, NEW st, NEW ms, NEW tt, NEW k, NEW len, NEW next, NEW at, NEW bt, NEW j0,
         CountStep(sch, ns, st, ms, tt, k, len, next, at, bt, j0),
         NEW n0 \in 1..Len(ns), n0 = st[k], NEW x0, x0 = TakenOf(sch, ns, at, len, n0, j0) + 1
  PROVE  ExcessStep(sch, ns, ms, at, bt, len, next, n0, j0, x0)
<1>1. Len(ns) \in Nat /\ Len(ms) \in {Len(ns), Len(ns) + 1}
  BY GrownSizes DEF CountStep
<1>2. ASSUME NEW e, e \in ExcessOf(sch, ns, at, len)
      PROVE  e \in ExcessOf(sch, ms, bt, next)
  <2>a. PICK n \in 1..Len(ns) : \E j \in CountedOf(sch, ns, n) :
           \E x \in MaxOf(sch, ns, n, j) + 1 .. TakenOf(sch, ns, at, len, n, j) : e = <<<<n, j>>, x>>
    BY <1>2, InExcess
  <2>b. PICK j \in CountedOf(sch, ns, n) :
           \E x \in MaxOf(sch, ns, n, j) + 1 .. TakenOf(sch, ns, at, len, n, j) : e = <<<<n, j>>, x>>
    BY <2>a
  <2>1. PICK x \in MaxOf(sch, ns, n, j) + 1 .. TakenOf(sch, ns, at, len, n, j) : e = <<<<n, j>>, x>>
    BY <2>b
  <2>2. /\ j \in CountedOf(sch, ms, n) /\ MaxOf(sch, ms, n, j) = MaxOf(sch, ns, n, j)
        /\ MaxOf(sch, ns, n, j) \in Nat
        /\ TakenOf(sch, ns, at, len, n, j) \in Nat
        /\ TakenOf(sch, ms, bt, next, n, j)
             \in {TakenOf(sch, ns, at, len, n, j), TakenOf(sch, ns, at, len, n, j) + 1}
    BY TakenStep
  <2>3. x \in MaxOf(sch, ms, n, j) + 1 .. TakenOf(sch, ms, bt, next, n, j)
    BY <2>2
  <2>4. n \in 1..Len(ms)
    BY <1>1
  <2> QED
    BY <2>1, <2>2, <2>3, <2>4, InExcess
<1>3. ASSUME NEW e, e \in ExcessOf(sch, ms, bt, next)
      PROVE  \/ e \in ExcessOf(sch, ns, at, len)
             \/ Exceeds(sch, ns, at, len, n0, j0) /\ e = <<<<n0, j0>>, x0>>
  <2>a. PICK n \in 1..Len(ms) : \E j \in CountedOf(sch, ms, n) :
           \E x \in MaxOf(sch, ms, n, j) + 1 .. TakenOf(sch, ms, bt, next, n, j) : e = <<<<n, j>>, x>>
    BY <1>3, InExcess
  <2>b. PICK j \in CountedOf(sch, ms, n) :
           \E x \in MaxOf(sch, ms, n, j) + 1 .. TakenOf(sch, ms, bt, next, n, j) : e = <<<<n, j>>, x>>
    BY <2>a
  <2>1. PICK x \in MaxOf(sch, ms, n, j) + 1 .. TakenOf(sch, ms, bt, next, n, j) : e = <<<<n, j>>, x>>
    BY <2>b
  <2>2. CASE n \in 1..Len(ns)
    <3>0. CountedOf(sch, ms, n) = CountedOf(sch, ns, n)
      BY <2>2 DEF CountStep, SameDefs, CountedOf, FromOf, MembersOf
    <3>1. /\ j \in CountedOf(sch, ns, n) /\ MaxOf(sch, ms, n, j) = MaxOf(sch, ns, n, j)
          /\ MaxOf(sch, ns, n, j) \in Nat
          /\ TakenOf(sch, ns, at, len, n, j) \in Nat
          /\ n = n0 /\ j = j0 =>
               TakenOf(sch, ms, bt, next, n, j) = TakenOf(sch, ns, at, len, n, j) + 1
          /\ ~(n = n0 /\ j = j0) =>
               TakenOf(sch, ms, bt, next, n, j) = TakenOf(sch, ns, at, len, n, j)
      BY <2>2, <3>0, TakenStep
    <3>2. CASE x <= TakenOf(sch, ns, at, len, n, j)
      <4>1. x \in MaxOf(sch, ns, n, j) + 1 .. TakenOf(sch, ns, at, len, n, j)
        BY <3>1, <3>2
      <4> QED
        BY <2>1, <2>2, <3>1, <4>1, InExcess
    <3>3. CASE x > TakenOf(sch, ns, at, len, n, j)
      <4>1. n = n0 /\ j = j0
        BY <3>1, <3>3
      <4>2. x = TakenOf(sch, ns, at, len, n, j) + 1
            /\ TakenOf(sch, ns, at, len, n, j) >= MaxOf(sch, ns, n, j)
        BY <3>1, <3>3, <4>1
      <4> QED
        BY <2>1, <3>1, <4>1, <4>2 DEF Exceeds
    <3> QED
      BY <3>1, <3>2, <3>3
  <2>3. CASE n \notin 1..Len(ns)
    <3>1. n = Len(ms) /\ Len(ms) > Len(ns)
      BY <2>3, <1>1
    <3>2. MaxOf(sch, ms, n, j) \in Nat /\ TakenOf(sch, ms, bt, next, n, j) = 0
      BY <3>1, NothingStep
    <3> QED
      BY <3>2
  <2> QED
    BY <2>2, <2>3
<1>4. ASSUME Exceeds(sch, ns, at, len, n0, j0)
      PROVE  /\ <<<<n0, j0>>, x0>> \in ExcessOf(sch, ms, bt, next)
             /\ <<<<n0, j0>>, x0>> \notin ExcessOf(sch, ns, at, len)
  <2>1. j0 \in CountedOf(sch, ns, n0) /\ TakenOf(sch, ns, at, len, n0, j0) >= MaxOf(sch, ns, n0, j0)
    BY <1>4 DEF Exceeds
  <2>2. /\ j0 \in CountedOf(sch, ms, n0) /\ MaxOf(sch, ms, n0, j0) = MaxOf(sch, ns, n0, j0)
        /\ MaxOf(sch, ns, n0, j0) \in Nat
        /\ TakenOf(sch, ns, at, len, n0, j0) \in Nat
        /\ TakenOf(sch, ms, bt, next, n0, j0) = TakenOf(sch, ns, at, len, n0, j0) + 1
    BY <2>1, TakenStep
  <2>3. x0 \in MaxOf(sch, ms, n0, j0) + 1 .. TakenOf(sch, ms, bt, next, n0, j0)
    BY <2>1, <2>2
  <2>4. n0 \in 1..Len(ms)
    BY <1>1
  <2>5. <<<<n0, j0>>, x0>> \in ExcessOf(sch, ms, bt, next)
    BY <2>2, <2>3, <2>4, InExcess
  <2>6. ASSUME <<<<n0, j0>>, x0>> \in ExcessOf(sch, ns, at, len) PROVE FALSE
    <3>a. PICK e : e = <<<<n0, j0>>, x0>>
      OBVIOUS
    <3>b. PICK n \in 1..Len(ns) : \E j \in CountedOf(sch, ns, n) :
             \E x \in MaxOf(sch, ns, n, j) + 1 .. TakenOf(sch, ns, at, len, n, j) : e = <<<<n, j>>, x>>
      BY <3>a, <2>6, InExcess
    <3>c. PICK j \in CountedOf(sch, ns, n) :
             \E x \in MaxOf(sch, ns, n, j) + 1 .. TakenOf(sch, ns, at, len, n, j) : e = <<<<n, j>>, x>>
      BY <3>b
    <3>1. PICK x \in MaxOf(sch, ns, n, j) + 1 .. TakenOf(sch, ns, at, len, n, j) :
             <<<<n0, j0>>, x0>> = <<<<n, j>>, x>>
      BY <3>a, <3>c
    <3>2. n = n0 /\ j = j0 /\ x = x0
      BY <3>1
    <3> QED
      BY <3>1, <3>2, <2>2
  <2> QED
    BY <2>5, <2>6
<1> QED
  BY <1>2, <1>3, <1>4 DEF ExcessStep

LEMMA ExcessCounted ==
  ASSUME NEW sch, NEW ns, NEW st, NEW ms, NEW tt, NEW k, NEW len, NEW next, NEW at, NEW bt, NEW j0,
         CountStep(sch, ns, st, ms, tt, k, len, next, at, bt, j0),
         NEW n0 \in 1..Len(ns), n0 = st[k], IsFiniteSet(ExcessOf(sch, ns, at, len))
  PROVE  /\ IsFiniteSet(ExcessOf(sch, ms, bt, next))
         /\ Exceeds(sch, ns, at, len, n0, j0) =>
              Cardinality(ExcessOf(sch, ms, bt, next)) = Cardinality(ExcessOf(sch, ns, at, len)) + 1
         /\ ~Exceeds(sch, ns, at, len, n0, j0) =>
              Cardinality(ExcessOf(sch, ms, bt, next)) = Cardinality(ExcessOf(sch, ns, at, len))
<1>1. PICK x0 : x0 = TakenOf(sch, ns, at, len, n0, j0) + 1
  OBVIOUS
<1>0. ExcessStep(sch, ns, ms, at, bt, len, next, n0, j0, x0)
  BY <1>1, ExcessAfter
<1>2. PICK e0 : e0 = <<<<n0, j0>>, x0>>
  OBVIOUS
<1>3. PICK old : old = ExcessOf(sch, ns, at, len)
  OBVIOUS
<1>4. PICK new : new = ExcessOf(sch, ms, bt, next)
  OBVIOUS
<1>5. CASE Exceeds(sch, ns, at, len, n0, j0)
  <2>0. /\ ExcessOf(sch, ms, bt, next) = ExcessOf(sch, ns, at, len) \cup {<<<<n0, j0>>, x0>>}
        /\ <<<<n0, j0>>, x0>> \notin ExcessOf(sch, ns, at, len)
    BY <1>0, <1>5 DEF ExcessStep
  <2>1. new = old \cup {e0} /\ e0 \notin old
    BY <2>0, <1>2, <1>3, <1>4
  <2>2. IsFiniteSet(old)
    BY <1>3
  <2>3. IsFiniteSet(old \cup {e0}) /\ Cardinality(old \cup {e0}) = Cardinality(old) + 1
    BY <2>1, <2>2, FS_AddElement
  <2> QED
    BY <2>1, <2>3, <1>3, <1>4, <1>5
<1>6. CASE ~Exceeds(sch, ns, at, len, n0, j0)
  <2>1. ExcessOf(sch, ms, bt, next) = ExcessOf(sch, ns, at, len)
    BY <1>0, <1>6 DEF ExcessStep
  <2> QED
    BY <2>1, <1>6
<1> QED
  BY <1>5, <1>6
-----------------------------------------------------------------------------
(***************************************************************************)
(* The resolver's state.                                                   *)
(***************************************************************************)
Names == [d \in DOMAIN schema |-> schema[d].name]

Reasons == {"out of order", "not here", "unknown"}

Types ==
  /\ schema \in Schemas
  /\ segs \in Seq(Segments)
  /\ slots \in Seq([instance: Nat, member: Int]) /\ Len(slots) = Len(segs)
  /\ \A i \in 1..Len(segs) : slots[i].instance \in 1..Len(nodes)
  /\ unplaced \in Seq([index: 1..Len(segs), reason: Reasons])
  /\ overflows \in Seq(Nat)

(* What a node has of its definition. *)
FitOf(sch, ns) ==
  \A n \in 1..Len(ns) :
    /\ Len(ns[n].counts) = Len(MembersOf(sch, ns, n))
    /\ sch[ns[n].def].ordered => ns[n].cursor >= FromOf(sch, ns, n)

Counts ==
  /\ CountsOf(schema, nodes, slots, Len(segs))
  /\ IsFiniteSet(ExcessOf(schema, nodes, slots, Len(segs)))
  /\ Len(overflows) = Cardinality(ExcessOf(schema, nodes, slots, Len(segs)))

GroupInv ==
  /\ Types /\ DefsIn(schema, nodes) /\ FitOf(schema, nodes)
  /\ Tree /\ Within /\ Placed /\ Nest
  /\ NumberedOf(Names, nodes) /\ UniqueOf(Names, nodes)
  /\ Counts

(* What the schemas are assumed to be. *)
LEMMA SchemaFacts ==
  ASSUME NEW sch \in Schemas
  PROVE  /\ DOMAIN sch = 1..Len(sch) /\ Len(sch) \in Nat /\ Root \in DOMAIN sch
         /\ OneEntryEach(sch) /\ MembersTyped(sch)
         /\ \A d \in DOMAIN sch : \A j \in DOMAIN sch[d].members :
              sch[d].members[j].group \in {NoGroup} \cup 2..Len(sch)
<1>1. sch \in Seq(Range(sch)) /\ GoodSchema(sch)
  BY SegmentGroupsAssumption
<1>2. DOMAIN sch = 1..Len(sch) /\ Len(sch) \in Nat
  BY <1>1, LenProperties
<1>3. ASSUME NEW d \in DOMAIN sch
      PROVE  /\ DOMAIN sch[d].members = 1..Len(sch[d].members) /\ Len(sch[d].members) \in Nat
             /\ \A j \in DOMAIN sch[d].members : GoodMember(sch, sch[d].members[j])
  <2>1. /\ sch[d].members \in Seq(Range(sch[d].members))
        /\ \A m \in Range(sch[d].members) : GoodMember(sch, m)
    BY <1>1 DEF GoodSchema
  <2>2. DOMAIN sch[d].members = 1..Len(sch[d].members) /\ Len(sch[d].members) \in Nat
    BY <2>1, LenProperties
  <2>3. \A j \in DOMAIN sch[d].members : sch[d].members[j] \in Range(sch[d].members)
    BY DEF Range
  <2> QED
    BY <2>1, <2>2, <2>3
<1>4. MembersTyped(sch)
  BY <1>3 DEF MembersTyped, GoodMember
<1>5. \A d \in DOMAIN sch : \A j \in DOMAIN sch[d].members :
        sch[d].members[j].group \in {NoGroup} \cup 2..Len(sch)
  BY <1>3 DEF GoodMember
<1> QED
  BY <1>1, <1>2, <1>4, <1>5 DEF GoodSchema

(* The instances inside a level. *)
LEMMA InsideLevel ==
  ASSUME NEW S, NEW st \in Seq(S), NEW k \in 1..Len(st), NEW n
  PROVE  n \in Range(SubSeq(st, k + 1, Len(st))) <=> \E i \in k+1..Len(st) : st[i] = n
<1>1. Len(st) \in Nat
  BY LenProperties
<1>2. \A i \in k+1..Len(st) : st[i] \in S
  BY <1>1, ElementOfSeq
<1>3. PICK t : t = SubSeq(st, k + 1, Len(st))
  OBVIOUS
<1>4. /\ t \in Seq(S) /\ Len(t) = Len(st) - k
      /\ \A i \in 1..Len(st)-k : t[i] = st[k + i]
  BY <1>1, <1>2, <1>3, SubSeqProperties
<1>5. n \in Range(t) <=> \E a \in 1..Len(t) : t[a] = n
  BY <1>4, InRange
<1>6. ASSUME NEW i \in k+1..Len(st) PROVE i - k \in 1..Len(st)-k /\ k + (i - k) = i
  BY <1>1
<1>7. ASSUME NEW a \in 1..Len(st)-k PROVE k + a \in k+1..Len(st)
  BY <1>1
<1>8. ASSUME NEW i \in k+1..Len(st), st[i] = n PROVE n \in Range(t)
  <2>1. t[i-k] = n /\ i - k \in 1..Len(t)
    BY <1>4, <1>6, <1>8
  <2> QED
    BY <2>1, <1>5
<1>9. ASSUME n \in Range(t) PROVE \E i \in k+1..Len(st) : st[i] = n
  BY <1>4, <1>5, <1>7, <1>9
<1> QED
  BY <1>3, <1>8, <1>9
(***************************************************************************)
(* What Counted leaves of the nodes.                                       *)
(***************************************************************************)
EndAfter(n, k) == IF \E i \in k+1..Len(stack) : stack[i] = n THEN Len(segs) ELSE nodes[n].end

Recounted(ms, n0, j, k) ==
  /\ ms \in Seq(Node) /\ Len(ms) = Len(nodes)
  /\ \A n \in 1..Len(nodes) :
       /\ ms[n].def = nodes[n].def /\ ms[n].parent = nodes[n].parent /\ ms[n].start = nodes[n].start
       /\ ms[n].occurrence = nodes[n].occurrence /\ ms[n].children = nodes[n].children
       /\ ms[n].end = EndAfter(n, k)
       /\ n # n0 => ms[n].cursor = nodes[n].cursor /\ ms[n].counts = nodes[n].counts
  /\ ms[n0].cursor = j /\ ms[n0].counts = [nodes[n0].counts EXCEPT ![j] = @ + 1]

LEMMA ClosedNodes ==
  ASSUME Typed(nodes, stack), segs \in Seq(Segments), NEW k \in 1..Len(stack)
  PROVE  /\ Closed(k) \in Seq(Node) /\ Len(Closed(k)) = Len(nodes)
         /\ \A n \in 1..Len(nodes) : Closed(k)[n] = [nodes[n] EXCEPT !.end = EndAfter(n, k)]
<1>1. /\ nodes \in Seq(Node) /\ stack \in Seq(1..Len(nodes))
      /\ Len(nodes) \in Nat /\ DOMAIN nodes = 1..Len(nodes) /\ Len(segs) \in Nat
  BY LenProperties DEF Typed
<1>2. ASSUME NEW n \in 1..Len(nodes)
      PROVE  /\ nodes[n] \in Node
             /\ [nodes[n] EXCEPT !.end = EndAfter(n, k)] \in Node
             /\ Closed(k)[n] = [nodes[n] EXCEPT !.end = EndAfter(n, k)]
  <2>1. nodes[n] \in Node
    BY <1>1, ElementOfSeq
  <2>2. n \in Range(SubSeq(stack, k + 1, Len(stack))) <=> \E i \in k+1..Len(stack) : stack[i] = n
    BY <1>1, InsideLevel
  <2>3. EndAfter(n, k) \in Nat
    BY <2>1, <1>1 DEF EndAfter, Node
  <2>4. [nodes[n] EXCEPT !.end = EndAfter(n, k)] \in Node
    BY <2>1, <2>3 DEF Node
  <2>5. nodes[n] = [nodes[n] EXCEPT !.end = nodes[n].end]
    BY <2>1 DEF Node
  <2>6. ASSUME \E i \in k+1..Len(stack) : stack[i] = n
        PROVE  Closed(k)[n] = [nodes[n] EXCEPT !.end = EndAfter(n, k)]
    <3>1. Closed(k)[n] = [nodes[n] EXCEPT !.end = Len(segs)]
      BY <2>2, <2>6, <1>1 DEF Closed
    <3>2. EndAfter(n, k) = Len(segs)
      BY <2>6 DEF EndAfter
    <3> QED
      BY <3>1, <3>2
  <2>7. ASSUME ~ \E i \in k+1..Len(stack) : stack[i] = n
        PROVE  Closed(k)[n] = [nodes[n] EXCEPT !.end = EndAfter(n, k)]
    <3>1. Closed(k)[n] = nodes[n]
      BY <2>2, <2>7, <1>1 DEF Closed
    <3>2. EndAfter(n, k) = nodes[n].end
      BY <2>7 DEF EndAfter
    <3> QED
      BY <3>1, <3>2, <2>5
  <2> QED
    BY <2>1, <2>4, <2>6, <2>7
<1>3. DOMAIN Closed(k) = 1..Len(nodes)
  BY <1>1 DEF Closed
<1>4. Closed(k) \in [1..Len(nodes) -> Node]
  <2>1. Closed(k) = [n \in 1..Len(nodes) |-> Closed(k)[n]]
    BY <1>1 DEF Closed
  <2> QED
    BY <2>1, <1>2
<1>5. Closed(k) \in Seq(Node)
  BY <1>1, <1>4
<1>6. Len(Closed(k)) = Len(nodes)
  BY <1>1, <1>3, <1>5, LenProperties
<1> QED
  BY <1>2, <1>5, <1>6

LEMMA CountedNodes ==
  ASSUME Typed(nodes, stack), segs \in Seq(Segments), NEW k \in 1..Len(stack),
         NEW n0, n0 = stack[k], NEW j \in 1..Len(nodes[n0].counts)
  PROVE  Recounted(Counted(k, j), n0, j, k)
<1>1. PICK cs \in Seq(Node) : cs = Closed(k)
  BY ClosedNodes
<1>2. Len(cs) = Len(nodes) /\ DOMAIN cs = 1..Len(nodes) /\ Len(nodes) \in Nat
  BY <1>1, ClosedNodes, LenProperties DEF Typed
<1>3. n0 \in 1..Len(nodes)
  BY ElementOfSeq DEF Typed
<1>4. \A n \in 1..Len(nodes) : cs[n] = [nodes[n] EXCEPT !.end = EndAfter(n, k)]
  BY <1>1, ClosedNodes
<1>5. \A n \in 1..Len(nodes) : nodes[n] \in Node /\ cs[n] \in Node
  BY <1>1, <1>2, ElementOfSeq DEF Typed
<1>6. ASSUME NEW n \in 1..Len(nodes)
      PROVE  /\ cs[n].def = nodes[n].def /\ cs[n].parent = nodes[n].parent
             /\ cs[n].start = nodes[n].start /\ cs[n].occurrence = nodes[n].occurrence
             /\ cs[n].children = nodes[n].children /\ cs[n].end = EndAfter(n, k)
             /\ cs[n].cursor = nodes[n].cursor /\ cs[n].counts = nodes[n].counts
  <2>1. nodes[n] \in Node /\ cs[n] = [nodes[n] EXCEPT !.end = EndAfter(n, k)]
    BY <1>4, <1>5
  <2> QED
    BY <2>1 DEF Node
<1>7. PICK r : r = [[cs[n0] EXCEPT !.cursor = j] EXCEPT !.counts[j] = @ + 1]
  OBVIOUS
<1>8. PICK ct \in Seq(Nat) : ct = [nodes[n0].counts EXCEPT ![j] = @ + 1]
  <2>1. nodes[n0].counts \in Seq(Nat)
    BY <1>3, <1>5 DEF Node
  <2>2. nodes[n0].counts[j] + 1 \in Nat
    <3>1. nodes[n0].counts[j] \in Nat
      BY <2>1, ElementOfSeq
    <3> QED
      BY <3>1
  <2>3. [nodes[n0].counts EXCEPT ![j] = nodes[n0].counts[j] + 1] \in Seq(Nat)
    BY <2>1, <2>2, ExceptSeq
  <2> QED
    BY <2>3
<1>9. /\ r.def = cs[n0].def /\ r.parent = cs[n0].parent /\ r.start = cs[n0].start
      /\ r.occurrence = cs[n0].occurrence /\ r.children = cs[n0].children /\ r.end = cs[n0].end
      /\ r.cursor = j /\ r.counts = ct /\ r \in Node
  <2>1. j \in Nat /\ cs[n0] \in Node
    BY <1>3, <1>5, LenProperties
  <2>2. cs[n0].counts = nodes[n0].counts
    BY <1>3, <1>6
  <2> QED
    BY <2>1, <2>2, <1>7, <1>8 DEF Node
<1>10. Counted(k, j) = [cs EXCEPT ![n0] = r]
  BY <1>1, <1>2, <1>3, <1>7 DEF Counted
<1>11. /\ Counted(k, j) \in Seq(Node) /\ Len(Counted(k, j)) = Len(nodes)
       /\ \A n \in 1..Len(nodes) : Counted(k, j)[n] = IF n = n0 THEN r ELSE cs[n]
  BY <1>2, <1>3, <1>9, <1>10, ExceptSeq
<1>12. Counted(k, j)[n0] = r
  BY <1>11, <1>3
<1>13. ASSUME NEW n \in 1..Len(nodes)
       PROVE  /\ Counted(k, j)[n].def = nodes[n].def /\ Counted(k, j)[n].parent = nodes[n].parent
              /\ Counted(k, j)[n].start = nodes[n].start
              /\ Counted(k, j)[n].occurrence = nodes[n].occurrence
              /\ Counted(k, j)[n].children = nodes[n].children
              /\ Counted(k, j)[n].end = EndAfter(n, k)
              /\ n # n0 => /\ Counted(k, j)[n].cursor = nodes[n].cursor
                           /\ Counted(k, j)[n].counts = nodes[n].counts
  <2>1. CASE n = n0
    <3>1. Counted(k, j)[n] = r
      BY <2>1, <1>12
    <3> QED
      BY <3>1, <2>1, <1>6, <1>9
  <2>2. CASE n # n0
    <3>1. Counted(k, j)[n] = cs[n]
      BY <2>2, <1>11
    <3> QED
      BY <3>1, <1>6
  <2> QED
    BY <2>1, <2>2
<1> QED
  BY <1>11, <1>12, <1>13, <1>8, <1>9 DEF Recounted
LEMMA OuterLevels ==
  ASSUME NEW S, NEW st \in Seq(S), NEW k \in 1..Len(st)
  PROVE  /\ SubSeq(st, 1, k) \in Seq(S) /\ Len(SubSeq(st, 1, k)) = k
         /\ \A i \in 1..k : SubSeq(st, 1, k)[i] = st[i]
<1>1. Len(st) \in Nat
  BY LenProperties
<1>2. \A i \in 1..k : st[i] \in S
  BY <1>1, ElementOfSeq
<1>3. 1 \in Int /\ k \in Int /\ 1 <= k /\ k - 1 + 1 = k
  OBVIOUS
<1>4. \A i \in 1..k : 1 + i - 1 = i
  OBVIOUS
<1>5. /\ SubSeq(st, 1, k) \in Seq(S)
      /\ Len(SubSeq(st, 1, k)) = IF 1 <= k THEN k - 1 + 1 ELSE 0
      /\ \A i \in 1..k-1+1 : SubSeq(st, 1, k)[i] = st[1 + i - 1]
  BY <1>2, <1>3, SubSeqProperties
<1> QED
  BY <1>3, <1>4, <1>5

LEMMA Replaced ==
  ASSUME NEW S, NEW s \in Seq(S), NEW i \in 1..Len(s), NEW e \in S, NEW t, t = [s EXCEPT ![i] = e]
  PROVE  /\ t \in Seq(S) /\ Len(t) = Len(s) /\ t[i] = e
         /\ \A a \in 1..Len(s) : a # i => t[a] = s[a]
BY ExceptSeq

LEMMA Appended ==
  ASSUME NEW S, NEW s \in Seq(S), NEW e \in S, NEW t, t = Append(s, e)
  PROVE  /\ t \in Seq(S) /\ Len(t) = Len(s) + 1 /\ t[Len(s) + 1] = e /\ t[Len(t)] = e
         /\ \A a \in 1..Len(s) : t[a] = s[a]
BY AppendProperties

(* The counts and cursors a placement changes. *)
Recounts(ms, n0, j) ==
  /\ \A n \in 1..Len(nodes) : n # n0 =>
       ms[n].cursor = nodes[n].cursor /\ ms[n].counts = nodes[n].counts
  /\ ms[n0].cursor = j /\ ms[n0].counts = [nodes[n0].counts EXCEPT ![j] = @ + 1]

(* The nodes and the stack of PlaceSegment. *)
LEMMA PlacedNodes ==
  ASSUME Typed(nodes, stack), segs \in Seq(Segments), NEW k \in 1..Len(stack),
         NEW n0, n0 = stack[k], NEW j \in 1..Len(nodes[n0].counts),
         NEW ms, ms = Counted(k, j), NEW tt, tt = SubSeq(stack, 1, k)
  PROVE  /\ Typed(ms, tt) /\ Kept(nodes, stack, ms, tt, k, Len(segs))
         /\ SameDefs(nodes, ms) /\ Recounts(ms, n0, j)
         /\ \A n \in 1..Len(nodes) : ms[n].occurrence = nodes[n].occurrence
<1>1. Recounted(ms, n0, j, k)
  BY CountedNodes
<1>2. /\ tt \in Seq(1..Len(nodes)) /\ Len(tt) = k
      /\ \A i \in 1..k : tt[i] = stack[i]
  BY OuterLevels DEF Typed
<1>3. Typed(ms, tt)
  BY <1>1, <1>2 DEF Typed, Recounted
<1>4. Moved(nodes, stack, ms, tt, k, Len(segs))
  BY <1>1, <1>2 DEF Moved, Recounted, EndAfter
<1>5. Kept(nodes, stack, ms, tt, k, Len(segs))
  BY <1>1, <1>2, <1>4 DEF Kept, Recounted
<1> QED
  BY <1>1, <1>3, <1>5 DEF Recounted, SameDefs, Recounts

(* The counted nodes, with one more child. *)
Linked(k, j, n0, child) == [Counted(k, j) EXCEPT ![n0].children = Append(@, child)]

(* An instance just opened. *)
Fresh(node, n0) ==
  node \in Node /\ node.parent = n0 /\ node.start = Len(segs) + 1 /\ node.children = <<>>

(* What OpenGroup makes the nodes and the stack. *)
Opens(ms, tt, k, n0, j, child, node) ==
  /\ k \in 1..Len(stack) /\ n0 = stack[k] /\ j \in 1..Len(nodes[n0].counts)
  /\ child = Len(nodes) + 1 /\ Fresh(node, n0)
  /\ ms = Append(Linked(k, j, n0, child), node) /\ tt = Append(SubSeq(stack, 1, k), child)

OpenedFrom(ms, tt, k, n0, j, node) ==
  /\ Typed(ms, tt) /\ Opened(nodes, stack, ms, tt, k, Len(segs))
  /\ SameDefs(nodes, ms) /\ Recounts(ms, n0, j) /\ ms[Len(ms)] = node
  /\ \A n \in 1..Len(nodes) : ms[n].occurrence = nodes[n].occurrence

LEMMA OpenedNodes ==
  ASSUME Typed(nodes, stack), segs \in Seq(Segments), NEW k, NEW n0, NEW j, NEW child, NEW node,
         NEW ms, NEW tt, Opens(ms, tt, k, n0, j, child, node)
  PROVE  OpenedFrom(ms, tt, k, n0, j, node)
<1>a. /\ k \in 1..Len(stack) /\ n0 = stack[k] /\ j \in 1..Len(nodes[n0].counts)
      /\ child = Len(nodes) + 1
  BY DEF Opens
<1>0. /\ node \in Node /\ node.parent = n0 /\ node.start = Len(segs) + 1
      /\ node.children = <<>>
  BY DEF Opens, Fresh
<1>b. ms = Append(Linked(k, j, n0, child), node)
  BY DEF Opens
<1>c. tt = Append(SubSeq(stack, 1, k), child)
  BY DEF Opens
<1>1. PICK ct \in Seq(Node) : ct = Counted(k, j)
  BY <1>a, CountedNodes DEF Recounted
<1>2. Recounted(ct, n0, j, k)
  BY <1>a, <1>1, CountedNodes
<1>3. Len(ct) = Len(nodes) /\ Len(nodes) \in Nat /\ n0 \in 1..Len(nodes) /\ Len(stack) \in Nat
  BY <1>a, <1>2, LenProperties, ElementOfSeq DEF Recounted, Typed
<1>4. ct[n0] \in Node
  BY <1>3, ElementOfSeq
<1>5. PICK kids \in Seq(Nat) : kids = Append(ct[n0].children, child)
  <2>1. ct[n0].children \in Seq(Nat)
    BY <1>4 DEF Node
  <2>2. child \in Nat
    BY <1>a, <1>3
  <2>3. PICK t : t = Append(ct[n0].children, child)
    OBVIOUS
  <2>4. t \in Seq(Nat)
    BY <2>1, <2>2, <2>3, Appended
  <2> QED
    BY <2>3, <2>4
<1>6. PICK r : r = [ct[n0] EXCEPT !.children = kids]
  OBVIOUS
<1>7. /\ r \in Node /\ r.children = kids
      /\ r.def = ct[n0].def /\ r.parent = ct[n0].parent /\ r.start = ct[n0].start /\ r.end = ct[n0].end
      /\ r.occurrence = ct[n0].occurrence /\ r.cursor = ct[n0].cursor /\ r.counts = ct[n0].counts
  BY <1>4, <1>5, <1>6 DEF Node
<1>8. PICK us : us = [ct EXCEPT ![n0] = r]
  OBVIOUS
<1>9. /\ us \in Seq(Node) /\ Len(us) = Len(ct) /\ us[n0] = r
      /\ \A n \in 1..Len(ct) : n # n0 => us[n] = ct[n]
  <2>1. n0 \in 1..Len(ct) /\ r \in Node
    BY <1>3, <1>7
  <2> QED
    BY <2>1, <1>8, Replaced
<1>10. us = Linked(k, j, n0, child)
  BY <1>1, <1>3, <1>5, <1>6, <1>8, <1>a DEF Linked
<1>11. ms = Append(us, node)
  BY <1>10, <1>b
<1>12. /\ ms \in Seq(Node) /\ Len(ms) = Len(nodes) + 1 /\ ms[Len(ms)] = node
       /\ \A n \in 1..Len(nodes) : ms[n] = us[n]
  <2>1. us \in Seq(Node) /\ Len(us) = Len(nodes)
    BY <1>3, <1>9
  <2>2. PICK q : q = Append(us, node)
    OBVIOUS
  <2>3. /\ q \in Seq(Node) /\ Len(q) = Len(us) + 1 /\ q[Len(q)] = node
        /\ \A n \in 1..Len(us) : q[n] = us[n]
    BY <1>0, <2>1, <2>2, Appended
  <2> QED
    BY <2>1, <2>2, <2>3, <1>11
<1>13. ms[n0] = r /\ \A n \in 1..Len(nodes) : n # n0 => ms[n] = ct[n]
  BY <1>3, <1>9, <1>12
<1>14. ASSUME NEW n \in 1..Len(nodes)
       PROVE  /\ ms[n].def = nodes[n].def /\ ms[n].parent = nodes[n].parent
              /\ ms[n].start = nodes[n].start /\ ms[n].occurrence = nodes[n].occurrence
              /\ ms[n].end = EndAfter(n, k)
              /\ n # n0 => /\ ms[n].children = nodes[n].children
                           /\ ms[n].cursor = nodes[n].cursor /\ ms[n].counts = nodes[n].counts
  <2>0. /\ ct[n].def = nodes[n].def /\ ct[n].parent = nodes[n].parent
        /\ ct[n].start = nodes[n].start /\ ct[n].occurrence = nodes[n].occurrence
        /\ ct[n].end = EndAfter(n, k) /\ ct[n].children = nodes[n].children
        /\ n # n0 => ct[n].cursor = nodes[n].cursor /\ ct[n].counts = nodes[n].counts
    BY <1>2 DEF Recounted
  <2>1. CASE n = n0
    <3>1. ms[n] = r
      BY <2>1, <1>13
    <3> QED
      BY <2>0, <2>1, <3>1, <1>7
  <2>2. CASE n # n0
    <3>1. ms[n] = ct[n]
      BY <2>2, <1>13
    <3> QED
      BY <2>0, <2>2, <3>1
  <2> QED
    BY <2>1, <2>2
<1>15. /\ ms[n0].cursor = j /\ ms[n0].counts = [nodes[n0].counts EXCEPT ![j] = @ + 1]
       /\ ms[n0].children = Append(nodes[n0].children, child)
  BY <1>2, <1>3, <1>5, <1>7, <1>13, <1>a DEF Recounted
<1>16. PICK pre \in Seq(1..Len(nodes)) : pre = SubSeq(stack, 1, k)
  BY <1>a, OuterLevels DEF Typed
<1>17. Len(pre) = k /\ \A i \in 1..k : pre[i] = stack[i]
  BY <1>a, <1>16, OuterLevels DEF Typed
<1>18. 1..Len(nodes) \subseteq 1..Len(ms) /\ child \in 1..Len(ms) /\ child = Len(ms)
  BY <1>3, <1>12, <1>a
<1>19. pre \in Seq(1..Len(ms))
  BY <1>18, SeqMonotonic
<1>20. /\ tt \in Seq(1..Len(ms)) /\ Len(tt) = k + 1 /\ tt[k+1] = child
       /\ \A i \in 1..k : tt[i] = stack[i]
  <2>1. /\ tt \in Seq(1..Len(ms)) /\ Len(tt) = Len(pre) + 1 /\ tt[Len(pre) + 1] = child
        /\ \A i \in 1..Len(pre) : tt[i] = pre[i]
    BY <1>16, <1>18, <1>19, <1>c, Appended
  <2> QED
    BY <2>1, <1>17
<1>21. Typed(ms, tt)
  BY <1>12, <1>20 DEF Typed
<1>22. Moved(nodes, stack, ms, tt, k, Len(segs))
  BY <1>14, <1>20, <1>a DEF Moved, EndAfter
<1>23. Opened(nodes, stack, ms, tt, k, Len(segs))
  BY <1>0, <1>12, <1>14, <1>15, <1>18, <1>20, <1>22, <1>a DEF Opened
<1> QED
  BY <1>12, <1>14, <1>15, <1>21, <1>23 DEF SameDefs, Recounts, OpenedFrom
-----------------------------------------------------------------------------
LEMMA LeastOf ==
  ASSUME NEW S, S \subseteq Nat, S # {}
  PROVE  Min(S) \in S
<1>1. \E x \in S : \A y \in S : <<y, x>> \notin OpToRel(<, Nat)
  BY WFMin, NatLessThanWellFounded
<1>2. PICK x \in S : \A y \in S : <<y, x>> \notin OpToRel(<, Nat)
  BY <1>1
<1>3. ASSUME NEW y \in S PROVE x <= y
  <2>1. <<y, x>> \in Nat \X Nat
    OBVIOUS
  <2>2. ~(y < x)
    BY <1>2, <2>1 DEF OpToRel
  <2> QED
    BY <2>2
<1> QED
  BY <1>3 DEF Min

LEMMA GreatestOf ==
  ASSUME NEW N \in Nat, NEW S, S \subseteq 1..N, S # {}
  PROVE  Max(S) \in S
<1>1. PICK T \in SUBSET Nat : T = {N - x : x \in S}
  <2>1. \A x \in S : N - x \in Nat
    OBVIOUS
  <2> QED
    BY <2>1
<1>2. T # {}
  BY <1>1
<1>3. \E x \in T : \A y \in T : <<y, x>> \notin OpToRel(<, Nat)
  BY <1>1, <1>2, WFMin, NatLessThanWellFounded
<1>4. PICK a \in T : \A y \in T : <<y, a>> \notin OpToRel(<, Nat)
  BY <1>3
<1>5. PICK x \in S : a = N - x
  BY <1>1
<1>6. ASSUME NEW y \in S PROVE x >= y
  <2>1. N - y \in T /\ N - x \in T
    BY <1>1, <1>5
  <2>2. <<N - y, N - x>> \in Nat \X Nat
    BY <2>1, <1>1
  <2>3. ~(N - y < N - x)
    BY <1>4, <1>5, <2>1, <2>2 DEF OpToRel
  <2>4. x \in Int /\ y \in Int /\ N \in Int
    OBVIOUS
  <2> QED
    BY <2>3, <2>4
<1> QED
  BY <1>6 DEF Max

LEMMA LevelIsOpen ==
  ASSUME Typed(nodes, stack), NEW s, LevelFor(s) # 0
  PROVE  LevelFor(s) \in 1..Len(stack) /\ Candidate(stack[LevelFor(s)], s) # NoMember
<1>1. DOMAIN stack = 1..Len(stack) /\ Len(stack) \in Nat
  BY LenProperties DEF Typed
<1>2. PICK levels : levels = {k \in DOMAIN stack : Candidate(stack[k], s) # NoMember}
  OBVIOUS
<1>3. LevelFor(s) = IF levels = {} THEN 0 ELSE Max(levels)
  BY <1>2 DEF LevelFor
<1>4. levels # {} /\ LevelFor(s) = Max(levels)
  BY <1>3
<1>5. levels \subseteq 1..Len(stack)
  BY <1>1, <1>2
<1>6. LevelFor(s) \in levels
  BY <1>1, <1>4, <1>5, GreatestOf
<1> QED
  BY <1>1, <1>2, <1>6

(* A candidate is one of the members that are counted. *)
LEMMA CandidateIsCounted ==
  ASSUME schema \in Schemas, DefsIn(schema, nodes), FitOf(schema, nodes),
         NEW n \in 1..Len(nodes), nodes[n] \in Node, NEW s, Candidate(n, s) # NoMember
  PROVE  /\ Candidate(n, s) \in CountedOf(schema, nodes, n)
         /\ Candidate(n, s) \in DOMAIN MembersOf(schema, nodes, n)
         /\ Candidate(n, s) \in Nat \ {0}
<1>1. nodes[n].def \in DOMAIN schema
  BY DEF DefsIn
<1>2. DOMAIN Members(n) = 1..Len(Members(n)) /\ Len(Members(n)) \in Nat
  BY <1>1, SchemaFacts DEF MembersTyped, Members, DefOf
<1>3. \A S : S # {} /\ S \subseteq DOMAIN Members(n) => FirstOf(S) \in S
  BY <1>2, LeastOf DEF FirstOf
<1>4. nodes[n].cursor \in Nat
  BY DEF Node
<1>5. FromOf(schema, nodes, n) \in {1, 2}
  BY DEF FromOf, FirstMember
<1>6. CASE DefOf(n).ordered
  <2>1. PICK js : /\ js \subseteq Fits(n, s)
                  /\ Candidate(n, s) = FirstOf(js)
    <3>1. {j \in Fits(n, s) : ~Full(n, j)} \subseteq Fits(n, s)
      OBVIOUS
    <3> QED
      BY <3>1, <1>6 DEF Candidate
  <2>2. js # {}
    BY <2>1 DEF FirstOf
  <2>3. Candidate(n, s) \in Fits(n, s) /\ Fits(n, s) \subseteq DOMAIN Members(n)
    BY <2>1, <2>2, <1>3 DEF Fits
  <2>4. Candidate(n, s) \in DOMAIN Members(n) /\ Candidate(n, s) >= nodes[n].cursor
    BY <2>3 DEF Fits
  <2>5. nodes[n].cursor >= FromOf(schema, nodes, n)
    BY <1>6 DEF FitOf, DefOf
  <2> QED
    BY <2>4, <2>5, <1>2, <1>4, <1>5 DEF CountedOf, MembersOf, Members, DefOf
<1>7. CASE ~DefOf(n).ordered
  <2>1. PICK js : /\ js \subseteq DOMAIN Members(n)
                  /\ Candidate(n, s) = FirstOf(js)
    BY <1>7 DEF Candidate
  <2>2. js # {}
    BY <2>1 DEF FirstOf
  <2>3. Candidate(n, s) \in DOMAIN Members(n)
    BY <2>1, <2>2, <1>3
  <2>4. FromOf(schema, nodes, n) = 1
    BY <1>7 DEF FromOf, FirstMember, DefOf
  <2> QED
    BY <2>3, <2>4, <1>2 DEF CountedOf, MembersOf, Members, DefOf
<1> QED
  BY <1>6, <1>7
-----------------------------------------------------------------------------
(***************************************************************************)
(* A step of the resolver: level k keeps or opens an instance, and member  *)
(* j0 of its instance, or none, takes the segment.                         *)
(***************************************************************************)
Slots == [instance: Nat, member: Int]

Grows(k, j0) ==
  /\ schema' = schema /\ segs' \in Seq(Segments) /\ Len(segs') = Len(segs) + 1
  /\ Grown(nodes, stack, nodes', stack', k, Len(segs)) /\ Typed(nodes', stack')
  /\ Numbers(Names, nodes, stack, nodes', k)
  /\ DefsIn(schema, nodes') /\ FitOf(schema, nodes')
  /\ slots' \in Seq(Slots) /\ Len(slots') = Len(segs') /\ Extends(slots, slots', Len(segs))
  /\ slots'[Len(segs')].instance = stack'[Len(stack')]
  /\ j0 \in Nat /\ Took(schema, nodes, nodes', stack[k], j0, slots'[Len(segs')])
  /\ CountsStep(schema, nodes, nodes', stack[k], j0)
  /\ unplaced' \in Seq([index: 1..Len(segs'), reason: Reasons])
  /\ overflows' \in Seq(Nat)
  /\ Exceeds(schema, nodes, slots, Len(segs), stack[k], j0) => Len(overflows') = Len(overflows) + 1
  /\ ~Exceeds(schema, nodes, slots, Len(segs), stack[k], j0) => Len(overflows') = Len(overflows)

LEMMA GrowsKeepsInv ==
  ASSUME GroupInv, NEW k, NEW j0, Grows(k, j0)
  PROVE  GroupInv'
<1>1. PICK len \in Nat : len = Len(segs)
  BY LenProperties DEF GroupInv, Types
<1>2. Len(segs') = len + 1
  BY <1>1 DEF Grows
<1>3. /\ TreeOf(nodes, stack) /\ WithinOf(nodes, stack, len) /\ PlacedOf(nodes, stack, len, slots)
      /\ NestOf(nodes, stack, len)
  BY <1>1 DEF GroupInv, Tree, Within, Placed, Nest
<1>4. Grown(nodes, stack, nodes', stack', k, len) /\ Typed(nodes', stack') /\ schema' = schema
  BY <1>1 DEF Grows
<1>5. k \in 1..Len(stack) /\ stack[k] \in 1..Len(nodes) /\ Len(nodes) \in Nat /\ Len(nodes') >= Len(nodes)
  BY <1>3, <1>4, TypedFacts DEF TreeOf, Grown, Kept, Opened, Moved
<1>6. Tree'
  BY <1>3, <1>4, TreeAfter DEF Tree
<1>7. Within'
  BY <1>2, <1>3, <1>4, WithinAfter DEF Within
<1>8. Nest'
  BY <1>2, <1>3, <1>4, NestAfter DEF Nest
<1>9. \A i \in 1..len : slots[i].instance \in 1..Len(nodes) /\ slots'[i] = slots[i]
  BY <1>1 DEF Grows, Extends, GroupInv, Types
<1>10. slots'[len+1].instance = stack'[Len(stack')]
  BY <1>2 DEF Grows
<1>11. Placed'
  BY <1>2, <1>3, <1>4, <1>9, <1>10, PlacedAfter DEF Placed
<1>12. Names' = Names
  BY <1>4 DEF Names
<1>13. Numbers(Names, nodes, stack, nodes', k) /\ NumberedOf(Names, nodes) /\ UniqueOf(Names, nodes)
  BY DEF Grows, GroupInv
<1>14. NumberedOf(Names, nodes') /\ UniqueOf(Names, nodes')
  BY <1>3, <1>4, <1>13, NumbersAfter
<1>15. Types'
  <2>1. stack'[Len(stack')] \in 1..Len(nodes')
    <3>1. Len(stack') \in Nat /\ Len(stack') >= 1
      BY <1>4, <1>6, TypedFacts DEF Tree, TreeOf, PathOf
    <3>2. Len(stack') \in 1..Len(stack')
      BY <3>1
    <3> QED
      BY <3>2, <1>4, TypedFacts
  <2>2. ASSUME NEW i \in 1..Len(segs') PROVE slots'[i].instance \in 1..Len(nodes')
    <3>1. CASE i \in 1..len
      <4>1. slots'[i].instance \in 1..Len(nodes)
        BY <3>1, <1>9
      <4> QED
        BY <4>1, <1>5, <1>4, TypedFacts
    <3>2. CASE i = len + 1
      BY <3>2, <2>1, <1>10
    <3> QED
      BY <3>1, <3>2, <1>2
  <2>3. schema' \in Schemas
    BY <1>4 DEF GroupInv, Types
  <2> QED
    BY <2>2, <2>3 DEF Types, Grows, Slots
<1>16. DefsIn(schema, nodes)' /\ FitOf(schema, nodes)'
  <2>1. DefsIn(schema, nodes') /\ FitOf(schema, nodes')
    BY DEF Grows
  <2> QED
    BY <2>1, <1>4
<1>17. CountStep(schema, nodes, stack, nodes', stack', k, len, Len(segs'), slots, slots', j0)
  <2>1. OneEntryEach(schema) /\ MembersTyped(schema)
    BY SchemaFacts DEF GroupInv, Types
  <2>2. DefsIn(schema, nodes) /\ \A i \in 1..len : slots[i].instance \in 1..Len(nodes)
    BY <1>9 DEF GroupInv
  <2>3. SameDefs(nodes, nodes')
    BY DEF Grows, Numbers
  <2>4. /\ j0 \in Nat /\ Extends(slots, slots', len) /\ DefsIn(schema, nodes')
        /\ Took(schema, nodes, nodes', stack[k], j0, slots'[Len(segs')])
        /\ CountsStep(schema, nodes, nodes', stack[k], j0)
    BY <1>1 DEF Grows
  <2> QED
    BY <2>1, <2>2, <2>3, <2>4, <1>2, <1>3, <1>4 DEF CountStep
<1>18. /\ CountsOf(schema, nodes, slots, len) /\ IsFiniteSet(ExcessOf(schema, nodes, slots, len))
       /\ Len(overflows) = Cardinality(ExcessOf(schema, nodes, slots, len))
  BY <1>1 DEF GroupInv, Counts
<1>19. CountsOf(schema, nodes', slots', Len(segs'))
  BY <1>17, <1>18, CountsAfter
<1>20. PICK n0 \in 1..Len(nodes) : n0 = stack[k]
  BY <1>5
<1>21. /\ IsFiniteSet(ExcessOf(schema, nodes', slots', Len(segs')))
       /\ Exceeds(schema, nodes, slots, len, n0, j0) =>
            Cardinality(ExcessOf(schema, nodes', slots', Len(segs')))
              = Cardinality(ExcessOf(schema, nodes, slots, len)) + 1
       /\ ~Exceeds(schema, nodes, slots, len, n0, j0) =>
            Cardinality(ExcessOf(schema, nodes', slots', Len(segs')))
              = Cardinality(ExcessOf(schema, nodes, slots, len))
  BY <1>17, <1>18, <1>20, ExcessCounted
<1>22. /\ Exceeds(schema, nodes, slots, len, n0, j0) => Len(overflows') = Len(overflows) + 1
       /\ ~Exceeds(schema, nodes, slots, len, n0, j0) => Len(overflows') = Len(overflows)
  BY <1>1, <1>20 DEF Grows
<1>23. Len(overflows') = Cardinality(ExcessOf(schema, nodes', slots', Len(segs')))
  BY <1>18, <1>21, <1>22
<1>24. Counts'
  BY <1>4, <1>19, <1>21, <1>23 DEF Counts
<1>25. NumberedOf(Names, nodes)' /\ UniqueOf(Names, nodes)'
  BY <1>12, <1>14
<1> QED
  BY <1>6, <1>7, <1>8, <1>11, <1>15, <1>16, <1>24, <1>25 DEF GroupInv
-----------------------------------------------------------------------------
LEMMA StateFacts ==
  ASSUME GroupInv
  PROVE  /\ Typed(nodes, stack) /\ TreeOf(nodes, stack) /\ schema \in Schemas
         /\ Len(segs) \in Nat /\ Len(nodes) \in Nat /\ Len(stack) \in Nat /\ Len(stack) >= 1
         /\ \A i \in 1..Len(stack) : stack[i] \in 1..Len(nodes)
         /\ \A n \in 1..Len(nodes) : nodes[n] \in Node
<1>1. TreeOf(nodes, stack) /\ Typed(nodes, stack) /\ PathOf(nodes, stack)
  BY DEF GroupInv, Tree, TreeOf
<1>2. \A n \in 1..Len(nodes) : nodes[n] \in Node
  BY <1>1, ElementOfSeq DEF Typed
<1>3. schema \in Schemas /\ Len(segs) \in Nat
  BY LenProperties DEF GroupInv, Types
<1> QED
  BY <1>1, <1>2, <1>3, TypedFacts DEF PathOf

(* A node's counts are of the members of its definition. *)
LEMMA CountsFit ==
  ASSUME GroupInv, NEW n \in 1..Len(nodes)
  PROVE  /\ nodes[n].counts \in Seq(Nat)
         /\ DOMAIN MembersOf(schema, nodes, n) = 1..Len(nodes[n].counts)
         /\ DOMAIN nodes[n].counts = 1..Len(nodes[n].counts)
         /\ \A i \in 1..Len(nodes[n].counts) : nodes[n].counts[i] \in Nat
<1>1. nodes[n].counts \in Seq(Nat)
  BY StateFacts DEF Node
<1>2. nodes[n].def \in DOMAIN schema /\ Len(nodes[n].counts) = Len(MembersOf(schema, nodes, n))
  BY DEF GroupInv, DefsIn, FitOf
<1>3. MembersTyped(schema)
  BY SchemaFacts DEF GroupInv, Types
<1>4. DOMAIN MembersOf(schema, nodes, n) = 1..Len(MembersOf(schema, nodes, n))
  BY <1>2, <1>3 DEF MembersTyped, MembersOf
<1> QED
  BY <1>1, <1>2, <1>4, LenProperties, ElementOfSeq

(* The level and the member a segment is placed with. *)
LEMMA Choice ==
  ASSUME GroupInv, NEW s, LevelFor(s) # 0, NEW k, k = LevelFor(s), NEW n0, n0 = stack[k],
         NEW j, j = Candidate(n0, s)
  PROVE  /\ k \in 1..Len(stack) /\ n0 \in 1..Len(nodes)
         /\ j \in Nat \ {0} /\ j \in 1..Len(nodes[n0].counts)
         /\ j \in DOMAIN MembersOf(schema, nodes, n0)
         /\ schema[nodes[n0].def].ordered => j >= FromOf(schema, nodes, n0)
         /\ Exceeds(schema, nodes, slots, Len(segs), n0, j) <=> Full(n0, j)
<1>1. k \in 1..Len(stack) /\ j # NoMember
  BY StateFacts, LevelIsOpen
<1>2. n0 \in 1..Len(nodes)
  BY <1>1, StateFacts
<1>3. DefsIn(schema, nodes) /\ FitOf(schema, nodes) /\ schema \in Schemas /\ nodes[n0] \in Node
  BY <1>2, StateFacts DEF GroupInv
<1>4. /\ j \in CountedOf(schema, nodes, n0) /\ j \in DOMAIN MembersOf(schema, nodes, n0)
      /\ j \in Nat \ {0}
  BY <1>1, <1>2, <1>3, CandidateIsCounted
<1>5. j \in 1..Len(nodes[n0].counts)
  BY <1>2, <1>4, CountsFit
<1>6. nodes[n0].counts[j] = TakenOf(schema, nodes, slots, Len(segs), n0, j)
  BY <1>2, <1>4 DEF GroupInv, Counts, CountsOf
<1>7. Exceeds(schema, nodes, slots, Len(segs), n0, j) <=> Full(n0, j)
  BY <1>4, <1>6 DEF Exceeds, Full, MaxOf, MembersOf, Members, DefOf
<1>8. j >= FromOf(schema, nodes, n0)
  BY <1>4 DEF CountedOf
<1> QED
  BY <1>1, <1>2, <1>4, <1>5, <1>7, <1>8

LEMMA OverflowsAfter ==
  ASSUME GroupInv, NEW k, NEW j, overflows' = Overflowed(k, j)
  PROVE  /\ overflows' \in Seq(Nat)
         /\ Full(stack[k], j) => Len(overflows') = Len(overflows) + 1
         /\ ~Full(stack[k], j) => Len(overflows') = Len(overflows)
<1>1. overflows \in Seq(Nat) /\ Len(segs) + 1 \in Nat
  BY StateFacts DEF GroupInv, Types
<1> QED
  BY <1>1, AppendProperties DEF Overflowed

LEMMA CountsOfStep ==
  ASSUME GroupInv, NEW n0 \in 1..Len(nodes), NEW j \in 1..Len(nodes[n0].counts),
         NEW ms, Recounts(ms, n0, j), SameDefs(nodes, ms),
         schema[nodes[n0].def].ordered => j >= FromOf(schema, nodes, n0)
  PROVE  /\ \A n \in 1..Len(nodes) : \A i \in DOMAIN MembersOf(schema, nodes, n) :
              ms[n].counts[i] = nodes[n].counts[i] + (IF n = n0 /\ i = j THEN 1 ELSE 0)
         /\ \A n \in 1..Len(nodes) :
              /\ Len(ms[n].counts) = Len(MembersOf(schema, ms, n))
              /\ schema[ms[n].def].ordered => ms[n].cursor >= FromOf(schema, ms, n)
<1>1. ASSUME NEW n \in 1..Len(nodes)
      PROVE  /\ ms[n].def = nodes[n].def /\ MembersOf(schema, ms, n) = MembersOf(schema, nodes, n)
             /\ FromOf(schema, ms, n) = FromOf(schema, nodes, n)
             /\ Len(nodes[n].counts) = Len(MembersOf(schema, nodes, n))
             /\ schema[nodes[n].def].ordered => nodes[n].cursor >= FromOf(schema, nodes, n)
  BY DEF SameDefs, MembersOf, FromOf, GroupInv, FitOf
<1>2. PICK ct : ct = [nodes[n0].counts EXCEPT ![j] = @ + 1]
  OBVIOUS
<1>3. /\ Len(ct) = Len(nodes[n0].counts) /\ ct[j] = nodes[n0].counts[j] + 1
      /\ \A i \in 1..Len(nodes[n0].counts) : i # j => ct[i] = nodes[n0].counts[i]
  <2>1. nodes[n0].counts \in Seq(Nat) /\ nodes[n0].counts[j] \in Nat
    BY CountsFit
  <2>2. PICK x \in Nat : x = nodes[n0].counts[j] + 1
    BY <2>1
  <2>3. ct = [nodes[n0].counts EXCEPT ![j] = x]
    BY <1>2, <2>2
  <2> QED
    BY <2>1, <2>2, <2>3, Replaced
<1>4. /\ ms[n0].counts = ct /\ ms[n0].cursor = j
      /\ \A n \in 1..Len(nodes) : n # n0 => ms[n].cursor = nodes[n].cursor /\ ms[n].counts = nodes[n].counts
  BY <1>2 DEF Recounts
<1>5. ASSUME NEW n \in 1..Len(nodes), NEW i \in DOMAIN MembersOf(schema, nodes, n)
      PROVE  ms[n].counts[i] = nodes[n].counts[i] + (IF n = n0 /\ i = j THEN 1 ELSE 0)
  <2>1. i \in 1..Len(nodes[n].counts) /\ nodes[n].counts[i] \in Nat
    BY CountsFit
  <2>2. CASE n = n0
    BY <2>1, <2>2, <1>3, <1>4
  <2>3. CASE n # n0
    BY <2>1, <2>3, <1>4
  <2> QED
    BY <2>2, <2>3
<1>6. ASSUME NEW n \in 1..Len(nodes)
      PROVE  /\ Len(ms[n].counts) = Len(MembersOf(schema, ms, n))
             /\ schema[ms[n].def].ordered => ms[n].cursor >= FromOf(schema, ms, n)
  <2>1. CASE n = n0
    BY <2>1, <1>1, <1>3, <1>4
  <2>2. CASE n # n0
    BY <2>2, <1>1, <1>4
  <2> QED
    BY <2>1, <2>2
<1> QED
  BY <1>5, <1>6

(* A step appends a segment and its slot. *)
LEMMA SlotAppended ==
  ASSUME GroupInv, NEW s \in Segments, segs' = Append(segs, s), NEW n \in Nat, NEW m \in Int,
         slots' = Append(slots, Slot(n, m))
  PROVE  /\ segs' \in Seq(Segments) /\ Len(segs') = Len(segs) + 1
         /\ slots' \in Seq(Slots) /\ Len(slots') = Len(segs') /\ Extends(slots, slots', Len(segs))
         /\ slots'[Len(segs')] = Slot(n, m)
<1>1. segs \in Seq(Segments) /\ slots \in Seq(Slots) /\ Len(slots) = Len(segs)
  BY DEF GroupInv, Types, Slots
<1>2. Slot(n, m) \in Slots
  BY DEF Slot, Slots
<1>3. segs' \in Seq(Segments) /\ Len(segs') = Len(segs) + 1
  BY <1>1, AppendProperties
<1>4. /\ slots' \in Seq(Slots) /\ Len(slots') = Len(slots) + 1 /\ slots'[Len(slots) + 1] = Slot(n, m)
      /\ \A i \in 1..Len(slots) : slots'[i] = slots[i]
  BY <1>1, <1>2, Appended
<1> QED
  BY <1>1, <1>3, <1>4 DEF Extends

LEMMA UnplacedStays ==
  ASSUME GroupInv, Len(segs') = Len(segs) + 1, unplaced' = unplaced
  PROVE  unplaced' \in Seq([index: 1..Len(segs'), reason: Reasons])
<1>1. Len(segs) \in Nat
  BY StateFacts
<1>2. 1..Len(segs) \subseteq 1..Len(segs')
  BY <1>1
<1>3. [index: 1..Len(segs), reason: Reasons] \subseteq [index: 1..Len(segs'), reason: Reasons]
  BY <1>2
<1>4. unplaced \in Seq([index: 1..Len(segs), reason: Reasons])
  BY DEF GroupInv, Types
<1> QED
  BY <1>3, <1>4, SeqMonotonic
-----------------------------------------------------------------------------
(***************************************************************************)
(* Each operation takes such a step.                                       *)
(***************************************************************************)
LEMMA PlaceSegmentGrows ==
  ASSUME GroupInv, NEW s \in Segments, segs' = Append(segs, s), schema' = schema, PlaceSegment(s)
  PROVE  \E k, j0 : Grows(k, j0)
<1>1. PICK k : k = LevelFor(s)
  OBVIOUS
<1>2. PICK n0 : n0 = stack[k]
  OBVIOUS
<1>3. PICK j : j = Candidate(n0, s)
  OBVIOUS
<1>4. /\ LevelFor(s) # 0 /\ nodes' = Counted(k, j) /\ stack' = SubSeq(stack, 1, k)
      /\ slots' = Append(slots, Slot(n0, j)) /\ overflows' = Overflowed(k, j) /\ unplaced' = unplaced
  BY <1>1, <1>2, <1>3 DEF PlaceSegment
<1>5. /\ k \in 1..Len(stack) /\ n0 \in 1..Len(nodes)
      /\ j \in Nat \ {0} /\ j \in 1..Len(nodes[n0].counts)
      /\ schema[nodes[n0].def].ordered => j >= FromOf(schema, nodes, n0)
      /\ Exceeds(schema, nodes, slots, Len(segs), n0, j) <=> Full(n0, j)
  BY <1>1, <1>2, <1>3, <1>4, Choice
<1>6. Typed(nodes, stack) /\ segs \in Seq(Segments)
  BY StateFacts DEF GroupInv, Types
<1>7. /\ Typed(nodes', stack') /\ Kept(nodes, stack, nodes', stack', k, Len(segs))
      /\ SameDefs(nodes, nodes') /\ Recounts(nodes', n0, j)
      /\ \A n \in 1..Len(nodes) : nodes'[n].occurrence = nodes[n].occurrence
  <2>1. PICK ms, tt : ms = nodes' /\ tt = stack'
    OBVIOUS
  <2>2. ms = Counted(k, j) /\ tt = SubSeq(stack, 1, k)
    BY <2>1, <1>4
  <2>3. /\ Typed(ms, tt) /\ Kept(nodes, stack, ms, tt, k, Len(segs))
        /\ SameDefs(nodes, ms) /\ Recounts(ms, n0, j)
        /\ \A n \in 1..Len(nodes) : ms[n].occurrence = nodes[n].occurrence
    <3>1. k \in 1..Len(stack) /\ n0 = stack[k] /\ j \in 1..Len(nodes[n0].counts)
      BY <1>2, <1>5
    <3> QED
      BY <3>1, <2>2, <1>6, PlacedNodes
  <2> QED
    BY <2>1, <2>3
<1>8. Len(nodes') = Len(nodes) /\ Len(stack') = k /\ stack'[k] = n0 /\ Len(nodes) \in Nat
  BY <1>2, <1>5, <1>7, StateFacts DEF Kept, Moved
<1>9. /\ segs' \in Seq(Segments) /\ Len(segs') = Len(segs) + 1
      /\ slots' \in Seq(Slots) /\ Len(slots') = Len(segs') /\ Extends(slots, slots', Len(segs))
      /\ slots'[Len(segs')] = Slot(n0, j)
  <2>1. n0 \in Nat /\ j \in Int
    BY <1>5
  <2> QED
    BY <2>1, <1>4, SlotAppended
<1>10. slots'[Len(segs')].instance = stack'[Len(stack')]
  BY <1>8, <1>9 DEF Slot
<1>11. Took(schema, nodes, nodes', stack[k], j, slots'[Len(segs')])
  BY <1>2, <1>8, <1>9 DEF Took
<1>12. /\ \A n \in 1..Len(nodes) : \A i \in DOMAIN MembersOf(schema, nodes, n) :
            nodes'[n].counts[i] = nodes[n].counts[i] + (IF n = n0 /\ i = j THEN 1 ELSE 0)
       /\ \A n \in 1..Len(nodes) :
            /\ Len(nodes'[n].counts) = Len(MembersOf(schema, nodes', n))
            /\ schema[nodes'[n].def].ordered => nodes'[n].cursor >= FromOf(schema, nodes', n)
  BY <1>5, <1>7, CountsOfStep
<1>13. CountsStep(schema, nodes, nodes', stack[k], j)
  BY <1>2, <1>8, <1>12 DEF CountsStep
<1>14. FitOf(schema, nodes')
  BY <1>8, <1>12 DEF FitOf
<1>15. DefsIn(schema, nodes')
  BY <1>7, <1>8 DEF DefsIn, SameDefs, GroupInv
<1>16. Numbers(Names, nodes, stack, nodes', k)
  BY <1>7, <1>8 DEF Numbers
<1>17. /\ overflows' \in Seq(Nat)
       /\ Full(stack[k], j) => Len(overflows') = Len(overflows) + 1
       /\ ~Full(stack[k], j) => Len(overflows') = Len(overflows)
  BY <1>4, OverflowsAfter
<1>18. unplaced' \in Seq([index: 1..Len(segs'), reason: Reasons])
  BY <1>4, <1>9, UnplacedStays
<1>19. Grown(nodes, stack, nodes', stack', k, Len(segs))
  BY <1>7 DEF Grown
<1>20. Grows(k, j)
  BY <1>2, <1>5, <1>7, <1>9, <1>10, <1>11, <1>13, <1>14, <1>15, <1>16, <1>17, <1>18, <1>19 DEF Grows
<1> QED
  BY <1>20

(* What a new instance is. *)
IsNew(node, def, n0, occ) ==
  /\ node \in Node /\ node.def = def /\ node.parent = n0 /\ node.start = Len(segs) + 1
  /\ node.children = <<>> /\ node.occurrence = occ
  /\ node.cursor = FirstMember(def, schema[def].ordered)
  /\ Len(node.counts) = Len(schema[def].members)
  /\ \A j \in FirstMember(def, schema[def].ordered)..Len(schema[def].members) :
       node.counts[j] = 0

LEMMA NewNodeFacts ==
  ASSUME GroupInv, NEW n0 \in 1..Len(nodes), NEW def \in DOMAIN schema, NEW occ \in Nat,
         NEW node, node = NewNode(def, n0, Len(segs) + 1, occ)
  PROVE  IsNew(node, def, n0, occ)
<1>1. PICK first \in {1, 2} : first = FirstMember(def, schema[def].ordered)
  BY DEF FirstMember
<1>2. PICK N \in Nat : N = Len(schema[def].members) /\ DOMAIN schema[def].members = 1..N
  BY SchemaFacts, StateFacts DEF MembersTyped
<1>3. PICK cs : cs = [j \in 1..N |-> IF j < first THEN 1 ELSE 0]
  OBVIOUS
<1>4. cs \in [1..N -> Nat] /\ cs \in Seq(Nat) /\ Len(cs) = N
  <2>1. cs \in [1..N -> Nat]
    BY <1>3
  <2>2. cs \in Seq(Nat)
    BY <2>1, SeqDef
  <2> QED
    BY <2>1, <2>2, LenProperties
<1>5. \A j \in first..N : cs[j] = 0
  BY <1>1, <1>3
<1>0. PICK next \in Nat : next = Len(segs) + 1
  BY StateFacts
<1>9. PICK none \in Seq(Nat) : none = <<>>
  <2>1. <<>> \in Seq(Nat)
    BY EmptySeq
  <2> QED
    BY <2>1
<1>6. node = [def |-> def, parent |-> n0, start |-> next, end |-> next,
              occurrence |-> occ, children |-> none, cursor |-> first, counts |-> cs]
  BY <1>0, <1>1, <1>2, <1>3, <1>9 DEF NewNode
<1>7. def \in Nat /\ n0 \in Nat /\ first \in Nat
  BY <1>1, SchemaFacts, StateFacts
<1>8. node \in Node
  BY <1>4, <1>6, <1>7 DEF Node
<1> QED
  BY <1>0, <1>1, <1>2, <1>4, <1>5, <1>6, <1>8, <1>9 DEF IsNew

(* The next free occurrence is the number of siblings of the name. *)
LEMMA OccurrenceCounts ==
  ASSUME GroupInv, NEW n0 \in 1..Len(nodes), NEW def \in DOMAIN schema, NEW v, v = Names[def]
  PROVE  /\ Occurrence(n0, def) = Cardinality(WithLabel(Names, nodes, n0, v))
         /\ Occurrence(n0, def) \in Nat
<1>1. \A c \in Range(nodes[n0].children) : nodes[c].def \in DOMAIN schema
  BY StateFacts, ChildIn DEF GroupInv, DefsIn
<1>2. {c \in Range(nodes[n0].children) : schema[nodes[c].def].name = schema[def].name}
        = WithLabel(Names, nodes, n0, v)
  BY <1>1 DEF WithLabel, LabelIn, Names
<1>3. Cardinality(WithLabel(Names, nodes, n0, v)) \in Nat
  BY StateFacts, LabelFinite
<1> QED
  BY <1>2, <1>3 DEF Occurrence

LEMMA OpenGroupGrows ==
  ASSUME GroupInv, NEW s \in Segments, segs' = Append(segs, s), schema' = schema, OpenGroup(s)
  PROVE  \E k, j0 : Grows(k, j0)
<1>1. PICK k : k = LevelFor(s)
  OBVIOUS
<1>2. PICK n0 : n0 = stack[k]
  OBVIOUS
<1>3. PICK j : j = Candidate(n0, s)
  OBVIOUS
<1>4. PICK def : def = Members(n0)[j].group
  OBVIOUS
<1>5. PICK child : child = Len(nodes) + 1
  OBVIOUS
<1>6. PICK occ : occ = Occurrence(n0, def)
  OBVIOUS
<1>7. PICK node : node = NewNode(def, n0, Len(segs) + 1, occ)
  OBVIOUS
<1>8. /\ LevelFor(s) # 0 /\ def # NoGroup
      /\ nodes' = Append([Counted(k, j) EXCEPT ![n0].children = Append(@, child)], node)
      /\ stack' = Append(SubSeq(stack, 1, k), child)
      /\ slots' = Append(slots, Slot(child, Trigger)) /\ overflows' = Overflowed(k, j)
      /\ unplaced' = unplaced
  BY <1>1, <1>2, <1>3, <1>4, <1>5, <1>6, <1>7 DEF OpenGroup
<1>9. /\ k \in 1..Len(stack) /\ n0 \in 1..Len(nodes)
      /\ j \in Nat \ {0} /\ j \in 1..Len(nodes[n0].counts)
      /\ j \in DOMAIN MembersOf(schema, nodes, n0)
      /\ schema[nodes[n0].def].ordered => j >= FromOf(schema, nodes, n0)
      /\ Exceeds(schema, nodes, slots, Len(segs), n0, j) <=> Full(n0, j)
  BY <1>1, <1>2, <1>3, <1>8, Choice
<1>10. Typed(nodes, stack) /\ segs \in Seq(Segments) /\ Len(nodes) \in Nat
  BY StateFacts DEF GroupInv, Types
<1>11. def = GroupAt(schema, nodes, n0, j) /\ def \in DOMAIN schema
  <2>1. def = GroupAt(schema, nodes, n0, j)
    BY <1>4 DEF GroupAt, MembersOf, Members, DefOf
  <2>2. nodes[n0].def \in DOMAIN schema /\ schema \in Schemas
    BY <1>9, StateFacts DEF GroupInv, DefsIn
  <2>3. /\ DOMAIN schema = 1..Len(schema) /\ Len(schema) \in Nat
        /\ def \in {NoGroup} \cup 2..Len(schema)
    BY <2>1, <2>2, <1>9, SchemaFacts DEF GroupAt, MembersOf
  <2> QED
    BY <2>1, <2>3, <1>8
<1>12. PICK v : v = Names[def]
  OBVIOUS
<1>13. occ = Cardinality(WithLabel(Names, nodes, n0, v)) /\ occ \in Nat
  BY <1>6, <1>9, <1>11, <1>12, OccurrenceCounts
<1>14. /\ node \in Node /\ node.def = def /\ node.parent = n0 /\ node.start = Len(segs) + 1
       /\ node.children = <<>> /\ node.occurrence = occ
       /\ node.cursor = FirstMember(def, schema[def].ordered)
       /\ Len(node.counts) = Len(schema[def].members)
       /\ \A i \in FirstMember(def, schema[def].ordered)..Len(schema[def].members) :
            node.counts[i] = 0
  <2>1. n0 \in 1..Len(nodes)
    BY <1>9
  <2>2. IsNew(node, def, n0, occ)
    BY <2>1, <1>7, <1>11, <1>13, NewNodeFacts
  <2> QED
    BY <2>2 DEF IsNew
<1>15. /\ Typed(nodes', stack') /\ Opened(nodes, stack, nodes', stack', k, Len(segs))
       /\ SameDefs(nodes, nodes') /\ Recounts(nodes', n0, j) /\ nodes'[Len(nodes')] = node
       /\ \A n \in 1..Len(nodes) : nodes'[n].occurrence = nodes[n].occurrence
  <2>1. PICK ms, tt : ms = nodes' /\ tt = stack'
    OBVIOUS
  <2>2. ms = Append(Linked(k, j, n0, child), node) /\ tt = Append(SubSeq(stack, 1, k), child)
    BY <2>1, <1>8 DEF Linked
  <2>3. Fresh(node, n0)
    BY <1>14 DEF Fresh
  <2>4. Opens(ms, tt, k, n0, j, child, node)
    BY <2>2, <2>3, <1>2, <1>5, <1>9 DEF Opens
  <2>5. OpenedFrom(ms, tt, k, n0, j, node)
    BY <2>4, <1>10, OpenedNodes
  <2> QED
    BY <2>1, <2>5 DEF OpenedFrom
<1>16. /\ Len(nodes') = Len(nodes) + 1 /\ Len(nodes') = child /\ child \in Nat
       /\ Len(stack') = k + 1 /\ stack'[Len(stack')] = child
  BY <1>5, <1>10, <1>15 DEF Opened
<1>17. 1..Len(nodes') = 1..Len(nodes) \cup {Len(nodes')}
  BY <1>10, <1>16
<1>18. /\ segs' \in Seq(Segments) /\ Len(segs') = Len(segs) + 1
       /\ slots' \in Seq(Slots) /\ Len(slots') = Len(segs') /\ Extends(slots, slots', Len(segs))
       /\ slots'[Len(segs')] = Slot(child, Trigger)
  <2>1. Trigger \in Int
    BY DEF Trigger
  <2> QED
    BY <2>1, <1>8, <1>16, SlotAppended
<1>19. slots'[Len(segs')].instance = stack'[Len(stack')]
  BY <1>16, <1>18 DEF Slot
<1>20. Took(schema, nodes, nodes', stack[k], j, slots'[Len(segs')])
  BY <1>2, <1>8, <1>9, <1>10, <1>11, <1>14, <1>15, <1>16, <1>18 DEF Took
<1>21. /\ \A n \in 1..Len(nodes) : \A i \in DOMAIN MembersOf(schema, nodes, n) :
            nodes'[n].counts[i] = nodes[n].counts[i] + (IF n = n0 /\ i = j THEN 1 ELSE 0)
       /\ \A n \in 1..Len(nodes) :
            /\ Len(nodes'[n].counts) = Len(MembersOf(schema, nodes', n))
            /\ schema[nodes'[n].def].ordered => nodes'[n].cursor >= FromOf(schema, nodes', n)
  BY <1>9, <1>15, CountsOfStep
<1>22. /\ \A i \in CountedOf(schema, nodes', Len(nodes')) : nodes'[Len(nodes')].counts[i] = 0
       /\ Len(nodes'[Len(nodes')].counts) = Len(MembersOf(schema, nodes', Len(nodes')))
       /\ nodes'[Len(nodes')].cursor = FromOf(schema, nodes', Len(nodes'))
       /\ nodes'[Len(nodes')].cursor \in Nat
  <2>1. nodes'[Len(nodes')].cursor \in Nat
    BY <1>14, <1>15 DEF Node
  <2> QED
    BY <2>1, <1>14, <1>15 DEF CountedOf, FromOf, MembersOf
<1>23. CountsStep(schema, nodes, nodes', stack[k], j)
  BY <1>2, <1>21, <1>22 DEF CountsStep
<1>24. FitOf(schema, nodes')
  BY <1>17, <1>21, <1>22 DEF FitOf
<1>25. DefsIn(schema, nodes')
  BY <1>11, <1>14, <1>15, <1>17 DEF DefsIn, SameDefs, GroupInv
<1>26. Numbers(Names, nodes, stack, nodes', k)
  <2>1. LabelIn(Names, nodes', Len(nodes')) = v
    BY <1>12, <1>14, <1>15 DEF LabelIn
  <2> QED
    BY <2>1, <1>2, <1>13, <1>14, <1>15 DEF Numbers
<1>27. /\ overflows' \in Seq(Nat)
       /\ Full(stack[k], j) => Len(overflows') = Len(overflows) + 1
       /\ ~Full(stack[k], j) => Len(overflows') = Len(overflows)
  BY <1>8, OverflowsAfter
<1>28. unplaced' \in Seq([index: 1..Len(segs'), reason: Reasons])
  BY <1>8, <1>18, UnplacedStays
<1>29. Grown(nodes, stack, nodes', stack', k, Len(segs))
  BY <1>15 DEF Grown
<1>30. Grows(k, j)
  BY <1>2, <1>9, <1>15, <1>18, <1>19, <1>20, <1>23, <1>24, <1>25, <1>26, <1>27, <1>28, <1>29 DEF Grows
<1> QED
  BY <1>30

(* A segment without a place stays in the innermost instance. *)
LEMMA StayGrows ==
  ASSUME GroupInv, NEW s \in Segments, segs' = Append(segs, s), schema' = schema,
         nodes' = nodes, stack' = stack, overflows' = overflows,
         slots' = Append(slots, Slot(Innermost, NoMember)),
         unplaced' \in Seq([index: 1..Len(segs'), reason: Reasons])
  PROVE  Grows(Len(stack), 0)
<1>1. PICK k : k = Len(stack)
  OBVIOUS
<1>2. PICK n0 : n0 = stack[k]
  OBVIOUS
<1>3. /\ Typed(nodes, stack) /\ k \in Nat /\ k >= 1 /\ Len(nodes) \in Nat
      /\ \A i \in 1..Len(stack) : stack[i] \in 1..Len(nodes)
  BY <1>1, StateFacts
<1>4. k \in 1..Len(stack) /\ n0 \in 1..Len(nodes) /\ n0 \in Nat
  BY <1>1, <1>2, <1>3
<1>5. /\ segs' \in Seq(Segments) /\ Len(segs') = Len(segs) + 1
      /\ slots' \in Seq(Slots) /\ Len(slots') = Len(segs') /\ Extends(slots, slots', Len(segs))
      /\ slots'[Len(segs')] = Slot(n0, NoMember)
  <2>1. slots' = Append(slots, Slot(n0, NoMember)) /\ NoMember \in Int
    BY <1>1, <1>2 DEF Innermost, NoMember
  <2> QED
    BY <2>1, <1>4, SlotAppended
<1>6. Moved(nodes, stack, nodes', stack', k, Len(segs))
  <2>1. ~ \E i \in k+1..Len(stack) : TRUE
    BY <1>1, <1>3
  <2> QED
    BY <2>1, <1>4 DEF Moved
<1>7. Grown(nodes, stack, nodes', stack', k, Len(segs)) /\ Typed(nodes', stack')
  BY <1>1, <1>3, <1>6 DEF Grown, Kept
<1>8. Numbers(Names, nodes, stack, nodes', k)
  BY <1>3 DEF Numbers, SameDefs
<1>9. DefsIn(schema, nodes') /\ FitOf(schema, nodes')
  BY DEF GroupInv
<1>10. slots'[Len(segs')].instance = stack'[Len(stack')]
  BY <1>1, <1>2, <1>5 DEF Slot
<1>11. Took(schema, nodes, nodes', stack[k], 0, slots'[Len(segs')])
  BY <1>2, <1>5 DEF Took, NoMember
<1>12. CountsStep(schema, nodes, nodes', stack[k], 0)
  <2>1. ASSUME NEW n \in 1..Len(nodes), NEW i \in DOMAIN MembersOf(schema, nodes, n)
        PROVE  nodes[n].counts[i] = nodes[n].counts[i] + (IF n = stack[k] /\ i = 0 THEN 1 ELSE 0)
    <3>1. i # 0 /\ nodes[n].counts[i] \in Nat
      <4>1. i \in 1..Len(nodes[n].counts) /\ nodes[n].counts[i] \in Nat
        BY CountsFit
      <4>2. Len(nodes[n].counts) \in Nat
        BY CountsFit, LenProperties
      <4> QED
        BY <4>1, <4>2
    <3> QED
      BY <3>1
  <2> QED
    BY <2>1, <1>3 DEF CountsStep
<1>13. ~Exceeds(schema, nodes, slots, Len(segs), stack[k], 0)
  <2>1. FromOf(schema, nodes, n0) \in {1, 2}
    BY DEF FromOf, FirstMember
  <2> QED
    BY <2>1, <1>2 DEF Exceeds, CountedOf
<1>14. overflows' \in Seq(Nat) /\ Len(overflows') = Len(overflows)
  BY DEF GroupInv, Types
<1>15. Grows(k, 0)
  BY <1>5, <1>7, <1>8, <1>9, <1>10, <1>11, <1>12, <1>13, <1>14 DEF Grows
<1> QED
  BY <1>1, <1>15

LEMMA AttachDirectGrows ==
  ASSUME GroupInv, NEW s \in Segments, segs' = Append(segs, s), schema' = schema, AttachDirect(s)
  PROVE  \E k, j0 : Grows(k, j0)
<1>1. /\ nodes' = nodes /\ stack' = stack /\ overflows' = overflows /\ unplaced' = unplaced
      /\ slots' = Append(slots, Slot(Innermost, NoMember))
  BY DEF AttachDirect
<1>2. Len(segs') = Len(segs) + 1
  BY DEF GroupInv, Types
<1>3. unplaced' \in Seq([index: 1..Len(segs'), reason: Reasons])
  BY <1>1, <1>2, UnplacedStays
<1>4. Grows(Len(stack), 0)
  BY <1>1, <1>3, StayGrows
<1> QED
  BY <1>4

LEMMA LeaveUnplacedGrows ==
  ASSUME GroupInv, NEW s \in Segments, segs' = Append(segs, s), schema' = schema, LeaveUnplaced(s)
  PROVE  \E k, j0 : Grows(k, j0)
<1>1. /\ nodes' = nodes /\ stack' = stack /\ overflows' = overflows
      /\ slots' = Append(slots, Slot(Innermost, NoMember))
      /\ unplaced' = Append(unplaced, [index |-> Len(segs) + 1, reason |-> Reason(s)])
  BY DEF LeaveUnplaced
<1>2. Len(segs') = Len(segs) + 1 /\ Len(segs) \in Nat
  BY StateFacts DEF GroupInv, Types
<1>3. PICK S : S = [index: 1..Len(segs'), reason: Reasons]
  OBVIOUS
<1>4. unplaced \in Seq(S)
  <2>1. [index: 1..Len(segs), reason: Reasons] \subseteq S
    BY <1>2, <1>3
  <2>2. unplaced \in Seq([index: 1..Len(segs), reason: Reasons])
    BY DEF GroupInv, Types
  <2> QED
    BY <2>1, <2>2, SeqMonotonic
<1>5. Reason(s) \in Reasons
  BY DEF Reason, Reasons
<1>6. PICK e \in S : e = [index |-> Len(segs) + 1, reason |-> Reason(s)]
  <2>1. PICK next \in 1..Len(segs') : next = Len(segs) + 1
    BY <1>2
  <2>2. PICK why \in Reasons : why = Reason(s)
    BY <1>5
  <2>3. [index |-> next, reason |-> why] \in S
    BY <1>3
  <2> QED
    BY <2>1, <2>2, <2>3
<1>7. unplaced' \in Seq(S)
  BY <1>1, <1>4, <1>6, Appended
<1>8. Grows(Len(stack), 0)
  BY <1>1, <1>3, <1>7, StayGrows
<1> QED
  BY <1>8

LEMMA InitGroups ==
  ASSUME Init
  PROVE  GroupInv
<1>1. schema \in Schemas
  BY DEF Init
<1>2. /\ Root \in DOMAIN schema /\ MembersTyped(schema) /\ Root = 1
  BY <1>1, SchemaFacts DEF Root
<1>3. PICK N \in Nat : N = Len(schema[Root].members) /\ DOMAIN schema[Root].members = 1..N
  BY <1>2 DEF MembersTyped
<1>4. PICK cs : cs = [j \in 1..N |-> 0]
  OBVIOUS
<1>5. cs \in Seq(Nat) /\ Len(cs) = N /\ \A j \in 1..N : cs[j] = 0
  <2>1. cs \in [1..N -> Nat] /\ \A j \in 1..N : cs[j] = 0
    BY <1>4
  <2>2. cs \in Seq(Nat)
    BY <2>1, SeqDef
  <2> QED
    BY <2>1, <2>2, LenProperties
<1>6. PICK none \in Seq(Nat) : none = <<>> /\ Len(none) = 0
  <2>1. <<>> \in Seq(Nat) /\ Len(<<>>) = 0
    BY EmptySeq
  <2> QED
    BY <2>1
<1>7. PICK root : root = [def |-> Root, parent |-> 0, start |-> 1, end |-> 0, occurrence |-> 0,
                          children |-> none, cursor |-> 1, counts |-> cs]
  OBVIOUS
<1>8. /\ root \in Node /\ root.def = 1 /\ root.parent = 0 /\ root.start = 1
      /\ Len(root.children) = 0 /\ root.children = <<>> /\ root.cursor = 1 /\ root.counts = cs
  BY <1>2, <1>5, <1>6, <1>7 DEF Node
<1>9. /\ nodes = <<root>> /\ stack = <<1>> /\ segs = <<>> /\ slots = <<>>
      /\ unplaced = <<>> /\ overflows = <<>>
  BY <1>2, <1>3, <1>4, <1>6, <1>7 DEF Init
<1>10. nodes \in Seq(Node) /\ Len(nodes) = 1 /\ nodes[1] = root /\ 1..Len(nodes) = {1}
  BY <1>8, <1>9
<1>11. stack \in Seq(1..Len(nodes)) /\ Len(stack) = 1 /\ stack[1] = 1
  BY <1>9, <1>10
<1>12. Len(segs) = 0 /\ Len(slots) = 0 /\ Len(overflows) = 0 /\ 1..Len(segs) = {}
  BY <1>9
<1>13. Types
  BY <1>1, <1>9, <1>12, EmptySeq DEF Types
<1>14. DefsIn(schema, nodes)
  BY <1>2, <1>8, <1>10 DEF DefsIn
<1>15. FitOf(schema, nodes)
  <2>1. MembersOf(schema, nodes, 1) = schema[Root].members /\ Len(nodes[1].counts) = N
    BY <1>2, <1>5, <1>8, <1>10 DEF MembersOf
  <2>2. FromOf(schema, nodes, 1) = 1 /\ nodes[1].cursor = 1
    BY <1>2, <1>8, <1>10 DEF FromOf, FirstMember
  <2> QED
    BY <2>1, <2>2, <1>3, <1>10 DEF FitOf
<1>16. On(stack, 1)
  BY <1>11 DEF On
<1>17. Tree
  <2>1. PathOf(nodes, stack)
    BY <1>2, <1>11 DEF PathOf
  <2>2. ParentsOf(nodes)
    BY <1>8, <1>10 DEF ParentsOf
  <2>3. ChildrenOf(nodes) /\ LastIsOpen(nodes, stack)
    BY <1>8, <1>10 DEF ChildrenOf, LastIsOpen
  <2> QED
    BY <2>1, <2>2, <2>3, <1>10, <1>11 DEF Tree, TreeOf, Typed
<1>18. Within
  BY <1>8, <1>10, <1>12, <1>16 DEF Within, WithinOf
<1>19. Placed
  BY <1>12 DEF Placed, PlacedOf
<1>20. Nest
  BY <1>8, <1>10 DEF Nest, NestOf
<1>21. NumberedOf(Names, nodes) /\ UniqueOf(Names, nodes)
  BY <1>10 DEF NumberedOf, UniqueOf
<1>22. \A j : TakenOf(schema, nodes, slots, Len(segs), 1, j) = 0
  <2>1. \A x : SlotsOf(slots, Len(segs), x) = {}
    BY <1>12 DEF SlotsOf
  <2>2. \A lab, v : WithLabel(lab, nodes, 1, v) = {}
    BY <1>8, <1>10 DEF WithLabel, Range
  <2>3. Cardinality({}) = 0
    BY FS_EmptySet
  <2>4. ASSUME NEW j PROVE TakenOf(schema, nodes, slots, Len(segs), 1, j) = 0
    <3>1. Cardinality(SlotsOf(slots, Len(segs), Slot(1, j))) = 0
      BY <2>1, <2>3
    <3>2. Cardinality(WithLabel(Itself(schema), nodes, 1, GroupAt(schema, nodes, 1, j))) = 0
      BY <2>2, <2>3
    <3> QED
      BY <3>1, <3>2 DEF TakenOf
  <2> QED
    BY <2>4
<1>23. CountsOf(schema, nodes, slots, Len(segs))
  <2>1. ASSUME NEW j \in CountedOf(schema, nodes, 1) PROVE nodes[1].counts[j] = 0
    <3>1. j \in 1..N
      BY <1>2, <1>3, <1>8, <1>10 DEF CountedOf, FromOf, FirstMember, MembersOf
    <3> QED
      BY <3>1, <1>5, <1>8, <1>10
  <2> QED
    BY <2>1, <1>10, <1>22 DEF CountsOf
<1>24. ExcessOf(schema, nodes, slots, Len(segs)) = {}
  <2>1. ASSUME NEW j \in CountedOf(schema, nodes, 1)
        PROVE  MaxOf(schema, nodes, 1, j) + 1 .. TakenOf(schema, nodes, slots, Len(segs), 1, j) = {}
    <3>1. j \in DOMAIN schema[Root].members
      BY <1>2, <1>3, <1>8, <1>10 DEF CountedOf, FromOf, FirstMember, MembersOf
    <3>2. MaxOf(schema, nodes, 1, j) \in Nat \ {0}
      BY <3>1, <1>2, <1>8, <1>10 DEF MaxOf, MembersOf, MembersTyped
    <3> QED
      BY <3>2, <1>22
  <2>2. \A e : e \notin ExcessOf(schema, nodes, slots, Len(segs))
    BY <2>1, <1>10, InExcess
  <2> QED
    BY <2>2
<1>25. Counts
  BY <1>12, <1>23, <1>24, FS_EmptySet DEF Counts
<1> QED
  BY <1>13, <1>14, <1>15, <1>17, <1>18, <1>19, <1>20, <1>21, <1>25 DEF GroupInv

LEMMA GroupsInductive == GroupInv /\ [Next]_vars => GroupInv'
<1>1. SUFFICES ASSUME GroupInv, [Next]_vars PROVE GroupInv'
  OBVIOUS
<1>2. CASE Next
  <2>1. PICK s \in Segments : Place(s)
    BY <1>2 DEF Next
  <2>2. segs' = Append(segs, s) /\ schema' = schema
    BY <2>1 DEF Place
  <2>3. \E k, j0 : Grows(k, j0)
    <3>1. CASE PlaceSegment(s)
      BY <3>1, <1>1, <2>2, PlaceSegmentGrows
    <3>2. CASE OpenGroup(s)
      BY <3>2, <1>1, <2>2, OpenGroupGrows
    <3>3. CASE AttachDirect(s)
      BY <3>3, <1>1, <2>2, AttachDirectGrows
    <3>4. CASE LeaveUnplaced(s)
      BY <3>4, <1>1, <2>2, LeaveUnplacedGrows
    <3> QED
      BY <2>1, <3>1, <3>2, <3>3, <3>4 DEF Place
  <2> QED
    BY <1>1, <2>3, GrowsKeepsInv
<1>3. CASE UNCHANGED vars
  BY <1>1, <1>3
    DEF vars, GroupInv, Types, Tree, Within, Placed, Nest, Counts, Names
<1> QED
  BY <1>1, <1>2, <1>3
-----------------------------------------------------------------------------
(***************************************************************************)
(* What the invariant says of the tree.                                    *)
(***************************************************************************)
LEMMA SpanIsIn ==
  ASSUME GroupInv, NEW n \in 1..Len(nodes), NEW i
  PROVE  i \in Span(n) <=> InSpan(nodes, stack, Len(segs), n, i)
<1>1. nodes[n].start \in Nat /\ nodes[n].end \in Nat /\ Len(segs) \in Nat
  BY StateFacts, TypedFacts
<1>2. n \in Range(stack) <=> On(stack, n)
  BY StateFacts, InRange DEF Typed, On
<1> QED
  BY <1>1, <1>2 DEF Span, InSpan

LEMMA KidsFacts ==
  ASSUME GroupInv, NEW n \in 1..Len(nodes)
  PROVE  /\ DOMAIN nodes[n].children = 1..Len(nodes[n].children)
         /\ \A a \in 1..Len(nodes[n].children) : nodes[n].children[a] \in 1..Len(nodes)
         /\ \A c : c \in Range(nodes[n].children)
              <=> \E a \in 1..Len(nodes[n].children) : nodes[n].children[a] = c
<1>1. nodes[n].children \in Seq(Nat) /\ TreeOf(nodes, stack)
  BY StateFacts, TypedFacts
<1>2. \A c : c \in Range(nodes[n].children)
        <=> \E a \in 1..Len(nodes[n].children) : nodes[n].children[a] = c
  BY <1>1, InRange
<1>3. \A c \in Range(nodes[n].children) : c \in 1..Len(nodes)
  BY <1>1, ChildIn
<1> QED
  BY <1>1, <1>2, <1>3, LenProperties

LEMMA GroupsNest == GroupInv => SpansNest
<1>1. SUFFICES ASSUME GroupInv PROVE SpansNest
  OBVIOUS
<1>2. DOMAIN nodes = 1..Len(nodes)
  BY <1>1, StateFacts, LenProperties DEF Typed
<1>3. ASSUME NEW n \in 1..Len(nodes), NEW a \in 1..Len(nodes[n].children)
      PROVE  Span(nodes[n].children[a]) \subseteq Span(n)
  <2>1. nodes[n].children[a] \in 1..Len(nodes)
    BY <1>1, KidsFacts
  <2>2. \A i \in Int : InSpan(nodes, stack, Len(segs), nodes[n].children[a], i)
                         => InSpan(nodes, stack, Len(segs), n, i)
    BY <1>1 DEF GroupInv, Nest, NestOf
  <2>3. ASSUME NEW i \in Span(nodes[n].children[a]) PROVE i \in Span(n)
    <3>1. InSpan(nodes, stack, Len(segs), nodes[n].children[a], i)
      BY <1>1, <2>1, SpanIsIn
    <3>2. i \in Int
      BY <3>1 DEF InSpan
    <3> QED
      BY <1>1, <2>2, <3>1, <3>2, SpanIsIn
  <2> QED
    BY <2>3
<1>4. ASSUME NEW n \in 1..Len(nodes), NEW a \in 1..Len(nodes[n].children),
             NEW b \in 1..Len(nodes[n].children), a < b,
             NEW i \in Span(nodes[n].children[a]), NEW j \in Span(nodes[n].children[b])
      PROVE  i < j
  <2>1. nodes[n].children[a] \in 1..Len(nodes) /\ nodes[n].children[b] \in 1..Len(nodes)
    BY <1>1, KidsFacts
  <2>2. /\ InSpan(nodes, stack, Len(segs), nodes[n].children[a], i)
        /\ InSpan(nodes, stack, Len(segs), nodes[n].children[b], j)
    BY <1>1, <2>1, SpanIsIn
  <2>3. i \in Int /\ j \in Int
    BY <2>2 DEF InSpan
  <2> QED
    BY <1>1, <1>4, <2>2, <2>3 DEF GroupInv, Nest, NestOf
<1>5. ASSUME NEW n \in 1..Len(nodes)
      PROVE  /\ DOMAIN nodes[n].children = 1..Len(nodes[n].children)
             /\ \A c \in Range(nodes[n].children) :
                  \E a \in 1..Len(nodes[n].children) : nodes[n].children[a] = c
  BY <1>1, KidsFacts
<1>6. ASSUME NEW n \in 1..Len(nodes), NEW c \in Range(nodes[n].children)
      PROVE  Span(c) \subseteq Span(n)
  <2>1. PICK a \in 1..Len(nodes[n].children) : nodes[n].children[a] = c
    BY <1>5
  <2> QED
    BY <2>1, <1>3
<1>7. ASSUME NEW n \in 1..Len(nodes)
      PROVE  \A a, b \in DOMAIN nodes[n].children : a < b =>
               \A i \in Span(nodes[n].children[a]) : \A j \in Span(nodes[n].children[b]) : i < j
  BY <1>4, <1>5
<1> QED
  BY <1>2, <1>6, <1>7, Zenon DEF SpansNest

LEMMA GroupsPlaceOnce == GroupInv => PlacedOnce
<1>1. SUFFICES ASSUME GroupInv, NEW i \in DOMAIN segs
               PROVE  {n \in DOMAIN nodes : i \in Direct(n)} =
                        IF i \in UnplacedIndices THEN {} ELSE {slots[i].instance}
  BY DEF PlacedOnce
<1>2. DOMAIN nodes = 1..Len(nodes) /\ DOMAIN segs = 1..Len(segs)
  BY <1>1, StateFacts, LenProperties DEF Typed, GroupInv, Types
<1>3. ASSUME NEW n \in 1..Len(nodes)
      PROVE  i \in Direct(n) <=> slots[i].instance = n /\ i \notin UnplacedIndices
  <2>1. i \in Span(n) <=> InSpan(nodes, stack, Len(segs), n, i)
    BY <1>1, SpanIsIn
  <2>2. \A a \in 1..Len(nodes[n].children) :
          i \in Span(nodes[n].children[a])
            <=> InSpan(nodes, stack, Len(segs), nodes[n].children[a], i)
    BY <1>1, SpanIsIn, KidsFacts
  <2>3. (\A c \in Range(nodes[n].children) : i \notin Span(c))
          <=> \A a \in 1..Len(nodes[n].children) :
                ~InSpan(nodes, stack, Len(segs), nodes[n].children[a], i)
    BY <1>1, <2>2, KidsFacts
  <2>4. slots[i].instance = n
          <=> /\ InSpan(nodes, stack, Len(segs), n, i)
              /\ \A a \in 1..Len(nodes[n].children) :
                   ~InSpan(nodes, stack, Len(segs), nodes[n].children[a], i)
    BY <1>1, <1>2 DEF GroupInv, Placed, PlacedOf
  <2> QED
    BY <2>1, <2>3, <2>4 DEF Direct
<1>4. slots[i].instance \in 1..Len(nodes)
  BY <1>1, <1>2 DEF GroupInv, Types
<1> QED
  BY <1>2, <1>3, <1>4

LEMMA GroupPathsUnique == GroupInv => PathsAreUnique
<1>1. SUFFICES ASSUME GroupInv PROVE PathsAreUnique
  OBVIOUS
<1>2. DOMAIN nodes = 1..Len(nodes)
  BY <1>1, StateFacts, LenProperties DEF Typed
<1>3. \A n \in 1..Len(nodes) : LabelIn(Names, nodes, n) = DefOf(n).name
  BY <1>1 DEF GroupInv, DefsIn, LabelIn, Names, DefOf
<1>4. UniqueOf(Names, nodes)
  BY <1>1 DEF GroupInv
<1> QED
  BY <1>2, <1>3, <1>4 DEF UniqueOf, PathsAreUnique

LEMMA GroupCounts == GroupInv => CountsAreWhatWasTaken
<1>1. SUFFICES ASSUME GroupInv PROVE CountsAreWhatWasTaken
  OBVIOUS
<1>2. DOMAIN nodes = 1..Len(nodes) /\ DOMAIN segs = 1..Len(segs)
  BY <1>1, StateFacts, LenProperties DEF Typed, GroupInv, Types
<1>3. ASSUME NEW n \in 1..Len(nodes)
      PROVE  /\ CountedFrom(n)..Len(Members(n)) = CountedOf(schema, nodes, n)
             /\ \A j : Taken(n, j) = TakenOf(schema, nodes, slots, Len(segs), n, j)
             /\ \A j : Members(n)[j].max = MaxOf(schema, nodes, n, j)
  <2>1. CountedFrom(n)..Len(Members(n)) = CountedOf(schema, nodes, n)
    BY DEF CountedFrom, Members, DefOf, CountedOf, FromOf, MembersOf
  <2>2. ASSUME NEW j PROVE Taken(n, j) = TakenOf(schema, nodes, slots, Len(segs), n, j)
    <3>1. {i \in DOMAIN segs : slots[i] = Slot(n, j)} = SlotsOf(slots, Len(segs), Slot(n, j))
      BY <1>2 DEF SlotsOf
    <3>2. \A c \in Range(nodes[n].children) : nodes[c].def \in DOMAIN schema
      <4>1. \A c \in Range(nodes[n].children) : c \in 1..Len(nodes)
        BY <1>1, KidsFacts
      <4> QED
        BY <1>1, <4>1 DEF GroupInv, DefsIn
    <3>3. {c \in Range(nodes[n].children) : nodes[c].def = Members(n)[j].group}
            = WithLabel(Itself(schema), nodes, n, GroupAt(schema, nodes, n, j))
      BY <3>2 DEF WithLabel, LabelIn, Itself, GroupAt, MembersOf, Members, DefOf
    <3> QED
      BY <3>1, <3>3 DEF Taken, TakenOf
  <2>3. \A j : Members(n)[j].max = MaxOf(schema, nodes, n, j)
    BY DEF Members, DefOf, MaxOf, MembersOf
  <2> QED
    BY <2>1, <2>2, <2>3
<1>4. Excess = ExcessOf(schema, nodes, slots, Len(segs))
  <2> DEFINE A(n, j) == {<<n, j>>} \X (Members(n)[j].max + 1 .. Taken(n, j))
             B(n, j) == {<<n, j>>} \X (MaxOf(schema, nodes, n, j) + 1
                                         .. TakenOf(schema, nodes, slots, Len(segs), n, j))
  <2>1. \A n \in 1..Len(nodes) : \A j : A(n, j) = B(n, j)
    BY <1>3
  <2>2. Excess = UNION {UNION {A(n, j) : j \in CountedFrom(n)..Len(Members(n))} : n \in DOMAIN nodes}
    BY DEF Excess
  <2>3. ExcessOf(schema, nodes, slots, Len(segs))
          = UNION {UNION {B(n, j) : j \in CountedOf(schema, nodes, n)} : n \in 1..Len(nodes)}
    BY DEF ExcessOf
  <2> HIDE DEF A, B
  <2>4. \A n \in 1..Len(nodes) :
          UNION {A(n, j) : j \in CountedFrom(n)..Len(Members(n))}
            = UNION {B(n, j) : j \in CountedOf(schema, nodes, n)}
    BY <1>3, <2>1
  <2> QED
    BY <1>2, <2>2, <2>3, <2>4
<1>5. ASSUME NEW n \in 1..Len(nodes), NEW j \in CountedOf(schema, nodes, n)
      PROVE  nodes[n].counts[j] = Taken(n, j)
  BY <1>1, <1>3 DEF GroupInv, Counts, CountsOf
<1>6. ASSUME NEW n \in DOMAIN nodes, NEW j \in CountedFrom(n)..Len(Members(n))
      PROVE  nodes[n].counts[j] = Taken(n, j)
  <2>1. n \in 1..Len(nodes)
    BY <1>2
  <2>2. CountedFrom(n)..Len(Members(n)) = CountedOf(schema, nodes, n)
    BY <2>1, <1>3
  <2> QED
    BY <2>1, <2>2, <1>5
<1>7. Len(overflows) = Cardinality(Excess)
  BY <1>1, <1>4 DEF GroupInv, Counts
<1> QED
  BY <1>6, <1>7 DEF CountsAreWhatWasTaken

(***************************************************************************)
(* The tree the resolver builds is a partition of the message: spans nest  *)
(* and follow one another, every segment is direct in the one instance it  *)
(* was placed in, paths name one instance, and the counts that decided the *)
(* placements and the overflows that were reported are what was placed.    *)
(***************************************************************************)
THEOREM TreePartitions == Spec => []TreeIsAPartition
<1>1. Init => GroupInv
  BY InitGroups
<1>2. GroupInv /\ [Next]_vars => GroupInv'
  BY GroupsInductive
<1>3. GroupInv => TreeIsAPartition
  BY GroupsNest, GroupsPlaceOnce, GroupPathsUnique, GroupCounts DEF TreeIsAPartition
<1> QED
  BY <1>1, <1>2, <1>3, PTL DEF Spec
=============================================================================
