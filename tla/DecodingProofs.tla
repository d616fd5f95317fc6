---------------------------- MODULE DecodingProofs ----------------------------
(***************************************************************************)
(* The decoding reader, for streams of any length, however they are read   *)
(* and with a caller's buffer of any size.                                 *)
(***************************************************************************)
EXTENDS Decoding, SequenceTheorems, WellFoundedInduction, TLAPS

-----------------------------------------------------------------------------
(* Induction is by the least number for which a claim fails.               *)
LEMMA LeastOne ==
  ASSUME NEW S, S \subseteq Nat, S # {}
  PROVE  \E m \in S : \A q \in S : m <= q
<1>1. PICK x \in S : \A y \in S : <<y, x>> \notin OpToRel(<, Nat)
  BY WFMin, NatLessThanWellFounded
<1>2. ASSUME NEW y \in S
      PROVE  x <= y
  <2>1. <<y, x>> \in Nat \X Nat
    OBVIOUS
  <2>2. ~(y < x)
    BY <1>1, <2>1 DEF OpToRel
  <2> QED BY <2>2
<1> QED BY <1>2

(* What is so at m and passed on from each number to the next is so up to  *)
(* n: F is the set of those for which it is.                               *)
LEMMA UpTo ==
  ASSUME NEW m \in Int, NEW n \in Int, NEW F, m \in F,
         \A i \in m+1..n : i-1 \in F => i \in F
  PROVE  \A i \in m..n : i \in F
<1> DEFINE B == {k \in Nat : k <= n - m /\ m + k \notin F}
<1>1. SUFFICES ASSUME B # {} PROVE FALSE
  <2>1. ASSUME NEW i \in m..n, i \notin F PROVE i - m \in B
    BY <2>1
  <2> QED BY <1>1, <2>1
<1>2. PICK k \in B : \A q \in B : k <= q
  BY <1>1, LeastOne
<1>3. k # 0
  BY <1>2
<1>4. k - 1 \notin B
  BY <1>2
<1>5. m + k \in m+1..n /\ (m + k) - 1 = m + (k - 1) /\ k - 1 \in Nat /\ k - 1 <= n - m
  BY <1>2, <1>3
<1>6. m + (k - 1) \in F
  BY <1>4, <1>5
<1> QED BY <1>2, <1>5, <1>6

-----------------------------------------------------------------------------
(* Bytes that are handed out.                                              *)
Outs == Units \X Nat

LEMMA Assoc ==
  ASSUME NEW a \in Seq(Outs), NEW b \in Seq(Outs), NEW c \in Seq(Outs)
  PROVE  (a \o b) \o c = a \o (b \o c)
BY ConcatAssociative

LEMMA EncodedIs ==
  ASSUME NEW m, NEW byte \in Units
  PROVE  Encoded(m, byte) \in Seq(Outs) /\ Len(Encoded(m, byte)) \in 1..3
<1>1. CASE m = "table" /\ byte \in HighHalf
  <2> DEFINE w == Width(byte)
             e == [k \in 1..w |-> <<byte, k>>]
  <2>1. w \in {2, 3}
    BY DEF Width
  <2> HIDE DEF w
  <2>2. e \in Seq(Outs) /\ Len(e) = w
    BY <2>1 DEF Outs
  <2>3. Encoded(m, byte) = e
    BY <1>1 DEF Encoded, w
  <2> QED BY <2>1, <2>2, <2>3
<1>2. CASE ~(m = "table" /\ byte \in HighHalf)
  BY <1>2 DEF Encoded, Outs
<1> QED BY <1>1, <1>2

(* The loop has a value after every byte, as the definition says.          *)
LEMMA DecodedStep ==
  ASSUME NEW m, NEW s, Len(s) \in Nat
  PROVE  /\ DecodedAfter(m, s)[0] = <<>>
         /\ \A k \in 1..Len(s) :
              DecodedAfter(m, s)[k] = DecodedAfter(m, s)[k-1] \o Encoded(m, s[k])
<1> DEFINE Turn(v, k) == v \o Encoded(m, s[k])
           Is(f, n) == f = [k \in 0..n |-> IF k = 0 THEN <<>> ELSE Turn(f[k-1], k)]
<1> HIDE DEF Turn
<1>1. \E f : Is(f, 0)
  <2> DEFINE f == [k \in 0..0 |-> <<>>]
  <2>1. Is(f, 0)
    OBVIOUS
  <2> QED BY <2>1
<1>2. ASSUME NEW n \in Nat, n # 0, NEW f, Is(f, n-1)
      PROVE  \E g : Is(g, n)
  <2> DEFINE g == [k \in 0..n |-> IF k = n THEN Turn(f[n-1], n) ELSE f[k]]
  <2>1. \A k \in 0..n-1 : g[k] = f[k]
    OBVIOUS
  <2>2. \A k \in 0..n : g[k] = IF k = 0 THEN <<>> ELSE Turn(g[k-1], k)
    BY <1>2, <2>1
  <2>3. Is(g, n)
    BY <2>2
  <2> QED BY <2>3
<1> DEFINE F == {n \in Nat : \E f : Is(f, n)}
<1>3. \A i \in 0+1..Len(s) : i-1 \in F => i \in F
  <2> HIDE DEF Is
  <2>1. SUFFICES ASSUME NEW i \in 0+1..Len(s), i-1 \in F PROVE i \in F
    OBVIOUS
  <2>2. i \in Nat /\ i # 0
    OBVIOUS
  <2>3. PICK f : Is(f, i-1)
    BY <2>1
  <2>4. \E g : Is(g, i)
    BY <1>2, <2>2, <2>3
  <2> QED BY <2>2, <2>4
<1>4. 0 \in F
  BY <1>1
<1>5. \A i \in 0..Len(s) : i \in F
  <2>1. Len(s) \in Int /\ 0 \in Int
    OBVIOUS
  <2> HIDE DEF F
  <2> QED BY <1>3, <1>4, <2>1, UpTo, Zenon
<1>6. \E f : Is(f, Len(s))
  BY <1>5
<1>7. DecodedAfter(m, s) = CHOOSE f : Is(f, Len(s))
  BY DEF DecodedAfter, Turn
<1>8. Is(DecodedAfter(m, s), Len(s))
  <2> HIDE DEF Is
  <2> QED BY <1>6, <1>7
<1>9. /\ DecodedAfter(m, s)[0] = <<>>
      /\ \A k \in 1..Len(s) : DecodedAfter(m, s)[k] = Turn(DecodedAfter(m, s)[k-1], k)
  <2> DEFINE f == DecodedAfter(m, s)
  <2> HIDE DEF f
  <2>1. f = [k \in 0..Len(s) |-> IF k = 0 THEN <<>> ELSE Turn(f[k-1], k)]
    BY <1>8 DEF f
  <2>2. f[0] = <<>> /\ \A k \in 1..Len(s) : f[k] = Turn(f[k-1], k)
    BY <2>1
  <2> QED BY <2>2 DEF f
<1> QED BY <1>9 DEF Turn

(* What bytes decode to is a sequence of bytes handed out.                 *)
LEMMA DecodedTyped ==
  ASSUME NEW m, NEW s \in Seq(Units)
  PROVE  \A k \in 0..Len(s) : DecodedAfter(m, s)[k] \in Seq(Outs)
<1> DEFINE n == Len(s)
           D(k) == DecodedAfter(m, s)[k]
           F == {k \in 0..n : D(k) \in Seq(Outs)}
<1>1. n \in Nat /\ n \in Int /\ 0 \in Int /\ \A k \in 1..n : s[k] \in Units
  OBVIOUS
<1>2. D(0) = <<>> /\ \A k \in 1..n : D(k) = D(k-1) \o Encoded(m, s[k])
  BY <1>1, DecodedStep
<1> HIDE DEF D, n
<1>3. 0 \in F
  <2>1. <<>> \in Seq(Outs) /\ 0 \in 0..n
    BY <1>1, EmptySeq
  <2> QED BY <1>2, <2>1
<1>4. \A k \in 0+1..n : k-1 \in F => k \in F
  <2>1. SUFFICES ASSUME NEW k \in 1..n, D(k-1) \in Seq(Outs) PROVE D(k) \in Seq(Outs)
    BY <1>1
  <2>2. Encoded(m, s[k]) \in Seq(Outs)
    BY <1>1, EncodedIs
  <2> QED BY <1>2, <2>1, <2>2, ConcatProperties
<1>5. \A k \in 0..n : k \in F
  <2> HIDE DEF F
  <2> QED BY <1>1, <1>3, <1>4, UpTo, Zenon
<1>6. \A k \in 0..n : D(k) \in Seq(Outs)
  BY <1>5
<1> QED BY <1>6 DEF D, n

(* What more bytes decode to begins with what fewer do.                    *)
LEMMA DecodedGrows ==
  ASSUME NEW m, NEW s \in Seq(Units), NEW c \in 0..Len(s), NEW e \in c..Len(s)
  PROVE  \E t \in Seq(Outs) : DecodedAfter(m, s)[c] \o t = DecodedAfter(m, s)[e]
<1> DEFINE n == Len(s)
           D(k) == DecodedAfter(m, s)[k]
           F == {k \in c..n : \E t \in Seq(Outs) : D(c) \o t = D(k)}
<1>1. n \in Nat /\ n \in Int /\ c \in Int /\ c \in 0..n /\ e \in c..n
      /\ \A k \in 1..n : s[k] \in Units
  OBVIOUS
<1>2. \A k \in 1..n : D(k) = D(k-1) \o Encoded(m, s[k])
  BY <1>1, DecodedStep
<1>3. \A k \in 0..n : D(k) \in Seq(Outs)
  BY DecodedTyped
<1> HIDE DEF D, n
<1>4. c \in F
  <2>1. c \in c..n
    BY <1>1
  <2> DEFINE d == D(c)
  <2>2. d \in Seq(Outs)
    BY <1>1, <1>3
  <2> HIDE DEF d
  <2>3. d \o <<>> = d /\ <<>> \in Seq(Outs)
    BY <2>2, ConcatEmptySeq, EmptySeq
  <2> QED BY <2>1, <2>3 DEF d
<1>5. \A k \in c+1..n : k-1 \in F => k \in F
  <2>1. SUFFICES ASSUME NEW k \in c+1..n, k-1 \in F PROVE k \in F
    OBVIOUS
  <2>2. k \in c..n /\ k \in 1..n
    BY <1>1
  <2>3. PICK t \in Seq(Outs) : D(c) \o t = D(k-1)
    BY <2>1
  <2> DEFINE enc == Encoded(m, s[k])
  <2>4. enc \in Seq(Outs)
    BY <1>1, <2>2, EncodedIs
  <2>5. D(k) = D(k-1) \o enc
    BY <1>2, <2>2
  <2>6. D(c) \in Seq(Outs)
    BY <1>1, <1>3
  <2> HIDE DEF enc
  <2>7. (D(c) \o t) \o enc = D(c) \o (t \o enc)
    BY <2>4, <2>6, Assoc
  <2>8. t \o enc \in Seq(Outs)
    BY <2>4, ConcatProperties
  <2> QED BY <2>2, <2>3, <2>5, <2>7, <2>8
<1>6. \A k \in c..n : k \in F
  <2> HIDE DEF F
  <2> QED BY <1>1, <1>4, <1>5, UpTo, Zenon
<1>7. \E t \in Seq(Outs) : D(c) \o t = D(e)
  BY <1>1, <1>6
<1> QED BY <1>7 DEF D

(* Bytes that can all be decoded are no more than as many as can be.       *)
Clean(m, s, c) == \A i \in 1..c : ~Undecodable(m, s[i])

(* The least of some positions. *)
LEMMA LeastIsOne ==
  ASSUME NEW n \in Nat, NEW bad \in SUBSET (1..n), bad # {},
         NEW least, least = CHOOSE i \in bad : \A j \in bad : i <= j
  PROVE  least \in bad /\ \A j \in bad : least <= j
<1>1. bad \subseteq Nat
  OBVIOUS
<1>2. \E i \in bad : \A j \in bad : i <= j
  BY <1>1, LeastOne
<1> QED BY <1>2, Zenon

LEMMA BeforeLeast ==
  ASSUME NEW n \in Nat, NEW bad \in SUBSET (1..n), NEW least \in bad,
         \A j \in bad : least <= j
  PROVE  /\ least - 1 \in 0..n /\ (least - 1) + 1 \in bad
         /\ \A i \in 1..least-1 : i \notin bad
<1>1. least \in 1..n
  OBVIOUS
<1>2. (least - 1) + 1 = least /\ least - 1 \in 0..n
  BY <1>1
<1>3. ASSUME NEW i \in 1..least-1, i \in bad PROVE FALSE
  BY <1>1, <1>3
<1> QED BY <1>2, <1>3

(* As many bytes as can be decoded end before the first that cannot.       *)
LEMMA DecodableIs ==
  ASSUME NEW m, NEW s \in Seq(Units), NEW d, d = Decodable(m, s),
         NEW bad, bad = Refused(m, s)
  PROVE  /\ d \in 0..Len(s) /\ \A i \in 1..d : i \notin bad
         /\ d < Len(s) => d + 1 \in bad
<1> DEFINE n == Len(s)
           least == CHOOSE i \in bad : \A j \in bad : i <= j
<1>1. n \in Nat
  OBVIOUS
<1>2. bad \in SUBSET (1..n)
  BY DEF Refused, NotUtf8
<1>3. CASE bad = {}
  <2>1. d = n
    BY <1>3 DEF Decodable
  <2> QED BY <1>1, <1>3, <2>1
<1>4. CASE bad # {}
  <2>1. d = least - 1
    BY <1>4 DEF Decodable
  <2>2. least \in bad /\ \A j \in bad : least <= j
    BY <1>1, <1>2, <1>4, LeastIsOne
  <2> HIDE DEF least, n
  <2>3. /\ least - 1 \in 0..n /\ (least - 1) + 1 \in bad
        /\ \A i \in 1..least-1 : i \notin bad
    BY <1>1, <1>2, <2>2, BeforeLeast
  <2> QED BY <2>1, <2>3 DEF n
<1> QED BY <1>3, <1>4

(* How much of the stream the reader hands out, at most: as they are, it   *)
(* looks at no bytes.                                                      *)
Reached(m, s) == IF m = "as is" THEN Len(s) ELSE Decodable(m, s)

LEMMA DecodableCovers ==
  ASSUME NEW m, NEW s \in Seq(Units)
  PROVE  /\ Decodable(m, s) \in 0..Len(s) /\ Reached(m, s) \in 0..Len(s)
         /\ \A c \in 0..Len(s) : Clean(m, s, c) => c <= Reached(m, s)
         /\ \A c \in 0..Len(s) :
              c < Len(s) /\ Clean(m, s, c) /\ Undecodable(m, s[c + 1]) =>
                /\ m = "table" /\ Decodable(m, s) = c
<1> DEFINE n == Len(s)
           bad == Refused(m, s)
           d == Decodable(m, s)
           r == Reached(m, s)
           passes == m = "as is"
<1>1. n \in Nat
  OBVIOUS
<1>2. ~passes => \A i \in 1..n : i \in bad <=> Undecodable(m, s[i])
  BY DEF Refused
<1>3. (passes => r = n) /\ (~passes => r = d)
  BY DEF Reached
<1>4. d \in 0..n /\ (\A i \in 1..d : i \notin bad) /\ (d < n => d + 1 \in bad)
  BY DecodableIs
<1>5. \A i : Undecodable(m, s[i]) => m = "table" /\ ~passes
  BY DEF Undecodable
<1> HIDE DEF n, bad, d, r, passes
<1>6. r \in 0..n
  BY <1>1, <1>3, <1>4
<1>7. ASSUME NEW c \in 0..n, Clean(m, s, c)
      PROVE  c <= r
  <2>1. CASE passes
    BY <1>1, <1>3, <2>1
  <2>2. CASE ~passes
    <3>1. ASSUME d < c PROVE FALSE
      <4>1. d + 1 \in 1..c /\ d + 1 \in 1..n /\ d < n
        BY <1>1, <1>4, <3>1
      <4>2. Undecodable(m, s[d + 1])
        BY <1>2, <1>4, <2>2, <4>1
      <4> QED BY <1>7, <4>1, <4>2 DEF Clean
    <3> QED BY <1>1, <1>3, <1>4, <2>2, <3>1
  <2> QED BY <2>1, <2>2
<1>8. ASSUME NEW c \in 0..n, c < n, Clean(m, s, c), Undecodable(m, s[c + 1])
      PROVE  m = "table" /\ d = c
  <2>1. m = "table" /\ ~passes
    BY <1>5, <1>8
  <2>2. c + 1 \in 1..n
    BY <1>1, <1>8
  <2>3. c + 1 \in bad
    BY <1>2, <1>8, <2>1, <2>2
  <2>4. ~(c + 1 \in 1..d)
    BY <1>4, <2>3
  <2>5. c <= d
    BY <1>3, <1>7, <1>8, <2>1
  <2>6. d = c
    BY <1>1, <1>4, <2>4, <2>5
  <2> QED BY <2>1, <2>6
<1> QED BY <1>4, <1>6, <1>7, <1>8 DEF n, d, r

LEMMA BeginsWithIt ==
  ASSUME NEW h \in Seq(Outs), NEW t \in Seq(Outs), NEW u \in Seq(Outs)
  PROVE  IsPrefix(h, (h \o t) \o u)
<1> DEFINE v == t \o u
<1>1. v \in Seq(Outs)
  BY ConcatProperties
<1>2. (h \o t) \o u = h \o v
  BY Assoc
<1> HIDE DEF v
<1>3. IsPrefix(h, h \o v)
  BY <1>1 DEF IsPrefix
<1> QED BY <1>2, <1>3

(* The decoding begins with what was handed out, when that and something   *)
(* more is what some bytes decode to that can be decoded.                  *)
LEMMA BeginsTheDecoding ==
  ASSUME NEW m, NEW s \in Seq(Units), NEW c \in 0..Len(s), Clean(m, s, c),
         NEW h \in Seq(Outs), NEW t \in Seq(Outs), h \o t = DecodedAfter(m, s)[c]
  PROVE  IsPrefix(h, DecodedAfter(m, s)[Reached(m, s)])
<1> DEFINE e == Reached(m, s)
           D(k) == DecodedAfter(m, s)[k]
<1>1. e \in c..Len(s)
  BY DecodableCovers
<1>2. PICK u \in Seq(Outs) : D(c) \o u = D(e)
  BY <1>1, DecodedGrows
<1>3. D(e) = (h \o t) \o u
  BY <1>2
<1> QED BY <1>3, BeginsWithIt

-----------------------------------------------------------------------------
(* The source is cut where the probe, the buffer and the rest begin.       *)
Window(s, a, b) == SubSeq(s, a + 1, b)

LEMMA WindowIs ==
  ASSUME NEW s \in Seq(Units), NEW a \in 0..Len(s), NEW b \in a..Len(s)
  PROVE  /\ Window(s, a, b) \in Seq(Units)
         /\ Len(Window(s, a, b)) = b - a
         /\ \A i \in 1..b-a : Window(s, a, b)[i] = s[a + i]
<1>1. a + 1 \in Int /\ b \in Int /\ \A i \in a+1..b : s[i] \in Units
  OBVIOUS
<1>2. /\ SubSeq(s, a + 1, b) \in Seq(Units)
      /\ Len(SubSeq(s, a + 1, b)) = IF a + 1 <= b THEN b - (a + 1) + 1 ELSE 0
      /\ \A i \in 1..b-(a+1)+1 : SubSeq(s, a + 1, b)[i] = s[(a+1)+i-1]
  BY <1>1, SubSeqProperties
<1> QED BY <1>2 DEF Window

(* A window is cut in two.                                                 *)
LEMMA WindowCut ==
  ASSUME NEW s \in Seq(Units), NEW a \in 0..Len(s), NEW b \in a..Len(s),
         NEW k \in 0..b-a
  PROVE  /\ SubSeq(Window(s, a, b), 1, k) = Window(s, a, a + k)
         /\ SubSeq(Window(s, a, b), k + 1, Len(Window(s, a, b))) = Window(s, a + k, b)
<1> DEFINE w == Window(s, a, b)
           d == a + k
           fst == SubSeq(w, 1, k)
           snd == SubSeq(w, k + 1, Len(w))
<1>1. w \in Seq(Units) /\ Len(w) = b - a /\ \A i \in 1..b-a : w[i] = s[a + i]
  BY WindowIs
<1>2. d \in a..b /\ d \in 0..Len(s) /\ d \in a..Len(s) /\ b \in d..Len(s)
  OBVIOUS
<1>3. /\ Window(s, a, d) \in Seq(Units)
      /\ Len(Window(s, a, d)) = d - a
      /\ \A i \in 1..d-a : Window(s, a, d)[i] = s[a + i]
  BY <1>2, WindowIs
<1>4. /\ Window(s, d, b) \in Seq(Units)
      /\ Len(Window(s, d, b)) = b - d
      /\ \A i \in 1..b-d : Window(s, d, b)[i] = s[d + i]
  BY <1>2, WindowIs
<1> HIDE DEF w
<1> DEFINE n == b - a
<1> HIDE DEF n
<1>5. fst \in Seq(Units) /\ Len(fst) = k /\ \A i \in 1..k : fst[i] = s[a + i]
  <2>1. n \in Nat /\ Len(w) = n /\ k \in 0..n /\ \A i \in 1..n : w[i] \in Units /\ w[i] = s[a + i]
    BY <1>1 DEF n
  <2>2. /\ fst \in Seq(Units)
        /\ Len(fst) = IF 1 <= k THEN k - 1 + 1 ELSE 0
        /\ \A i \in 1..k-1+1 : fst[i] = w[1 + i - 1]
    BY <2>1, SubSeqProperties
  <2> HIDE DEF fst
  <2>3. \A i \in 1..k : i \in 1..n /\ fst[i] = w[i]
    BY <2>1, <2>2
  <2> QED BY <2>1, <2>2, <2>3
<1>6. /\ snd \in Seq(Units) /\ Len(snd) = n - k
      /\ \A i \in 1..n-k : snd[i] = s[a + (k + i)]
  <2>1. n \in Nat /\ Len(w) = n /\ k \in 0..n /\ \A i \in 1..n : w[i] \in Units /\ w[i] = s[a + i]
    BY <1>1 DEF n
  <2>2. /\ snd \in Seq(Units)
        /\ Len(snd) = IF k + 1 <= n THEN n - (k + 1) + 1 ELSE 0
        /\ \A i \in 1..n-(k+1)+1 : snd[i] = w[(k + 1) + i - 1]
    BY <2>1, SubSeqProperties
  <2> HIDE DEF snd
  <2>3. ASSUME NEW i \in 1..n-k
        PROVE  k + i \in 1..n /\ snd[i] = w[k + i]
    <3>1. i \in Int /\ k \in Int /\ n \in Int /\ 0 <= k /\ 1 <= i /\ i <= n - k
      BY <2>1
    <3>2. n - (k + 1) + 1 = n - k /\ (k + 1) + i - 1 = k + i
      BY <3>1
    <3>3. i \in 1..n-(k+1)+1 /\ k + i \in 1..n
      BY <3>1, <3>2
    <3>4. snd[i] = w[(k + 1) + i - 1]
      BY <2>2, <3>3
    <3> QED BY <3>2, <3>3, <3>4
  <2> QED BY <2>1, <2>2, <2>3
<1> HIDE DEF fst, snd
<1>7. fst = Window(s, a, d)
  <2> DEFINE v == Window(s, a, d)
  <2>1. v \in Seq(Units) /\ Len(v) = k /\ \A i \in 1..k : v[i] = s[a + i]
    BY <1>3
  <2> HIDE DEF v
  <2>2. Len(fst) = Len(v) /\ \A i \in 1..Len(fst) : fst[i] = v[i]
    BY <1>5, <2>1
  <2>3. fst = v
    BY <1>5, <2>1, <2>2, SeqEqual, Zenon
  <2> QED BY <2>3 DEF v
<1>8. snd = Window(s, d, b)
  <2> DEFINE v == Window(s, d, b)
  <2>1. v \in Seq(Units) /\ Len(v) = n - k /\ \A i \in 1..n-k : v[i] = s[a + (k + i)]
    BY <1>4 DEF n
  <2> HIDE DEF v
  <2>2. Len(snd) = Len(v) /\ \A i \in 1..Len(snd) : snd[i] = v[i]
    BY <1>6, <2>1
  <2>3. snd = v
    BY <1>6, <2>1, <2>2, SeqEqual, Zenon
  <2> QED BY <2>3 DEF v
<1> QED BY <1>7, <1>8 DEF w, d, fst, snd

(* Two windows side by side are one.                                       *)
LEMMA WindowJoin ==
  ASSUME NEW s \in Seq(Units), NEW a \in 0..Len(s), NEW b \in a..Len(s),
         NEW e \in b..Len(s)
  PROVE  Window(s, a, b) \o Window(s, b, e) = Window(s, a, e)
<1>1. a + 1 \in 1..Len(s)+1 /\ b \in (a+1)-1..Len(s) /\ e \in b..Len(s)
  OBVIOUS
<1> QED BY <1>1, ConcatAdjacentSubSeq DEF Window

(* The first byte of a window is taken.                                    *)
LEMMA WindowTail ==
  ASSUME NEW s \in Seq(Units), NEW a \in 0..Len(s), NEW b \in a..Len(s),
         Window(s, a, b) # <<>>
  PROVE  /\ a + 1 \in 1..b
         /\ Window(s, a, b)[1] = s[a + 1]
         /\ Tail(Window(s, a, b)) = Window(s, a + 1, b)
<1>1. /\ Window(s, a, b) \in Seq(Units)
      /\ Len(Window(s, a, b)) = b - a
      /\ \A i \in 1..b-a : Window(s, a, b)[i] = s[a + i]
  BY WindowIs
<1>2. b - a # 0
  BY <1>1
<1>3. a + 1 \in 1..b /\ 1 \in 1..b-a /\ 1 \in 0..b-a
  BY <1>2
<1>4. Tail(Window(s, a, b)) = SubSeq(Window(s, a, b), 2, Len(Window(s, a, b)))
  BY <1>1, TailIsSubSeq
<1>5. SubSeq(Window(s, a, b), 1 + 1, Len(Window(s, a, b))) = Window(s, a + 1, b)
  BY <1>3, WindowCut
<1> QED BY <1>1, <1>3, <1>4, <1>5

-----------------------------------------------------------------------------
(***************************************************************************)
(* The inductive invariant.  While the prologue is probed, head and rest   *)
(* are the source, cut where the probe has come to.  Afterwards mode is    *)
(* what the source declares, and nothing is read under one that is         *)
(* refused.  While no read has failed, the buffer, the rest of the probe   *)
(* and the rest of the source are three adjacent windows, and what is      *)
(* handed out, written and carried over is the decoding up to the first.   *)
(***************************************************************************)
Probing ==
  /\ \E h \in 0..Len(source) :
       h <= ProbeBytes /\ head = Window(source, 0, h) /\ rest = Window(source, h, Len(source))
  /\ src = <<>> /\ spill = <<>> /\ out = <<>> /\ handed = <<>>
  /\ over = "no" /\ interrupts = 0

Found ==
  /\ mode = Declared
  /\ mode = "refused" => phase = "idle" /\ over = "refused"

Cut(c, p, q) ==
  /\ p \in c..q /\ src = Window(source, c, p) /\ head = Window(source, p, q) /\ rest = Window(source, q, Len(source))
  /\ Clean(mode, source, c)
  /\ handed \o (out \o spill) = DecodedAfter(mode, source)[c]

Bounded ==
  /\ phase = "idle" => out = <<>>
  /\ phase = "filling" => /\ room \in Nat \ {0} /\ Len(out) <= room
                          /\ spill # <<>> => Len(out) = room

Going ==
  /\ out \in Seq(Outs) /\ spill \in Seq(Outs)
  /\ \E c \in 0..Len(source), q \in 0..Len(source) : \E p \in c..q : Cut(c, p, q)
  /\ Bounded

Ended ==
  /\ phase = "idle"
  /\ handed = DecodedAfter(mode, source)[Len(source)]
  /\ Clean(mode, source, Len(source))

Failed ==
  /\ phase = "idle"
  /\ \E c \in 0..Len(source), t \in Seq(Outs) :
       /\ Clean(mode, source, c) /\ handed \o t = DecodedAfter(mode, source)[c]
       /\ c < Len(source) /\ Undecodable(mode, source[c + 1])
       /\ room \in Nat /\ Len(t) < room

Decoded ==
  /\ handed \in Seq(Outs)
  /\ over \in {"no", "end", "failed"}
  /\ over = "no" => Going
  /\ over = "end" => Ended
  /\ over = "failed" => Failed

DecodingInvariant ==
  /\ source \in Sources
  /\ phase \in {"probing", "idle", "filling"}
  /\ interrupts \in Nat
  /\ phase = "probing" => Probing
  /\ phase # "probing" => Found
  /\ phase # "probing" /\ mode # "refused" /\ interrupts = 0 => Decoded

(* Windows of nothing, and of everything.                                  *)
LEMMA WindowEnds ==
  ASSUME NEW s \in Seq(Units), NEW a \in 0..Len(s), NEW b \in a..Len(s)
  PROVE  /\ Window(s, a, a) = <<>>
         /\ Window(s, 0, Len(s)) = s
         /\ Window(s, a, b) = <<>> => a = b
<1>1. Window(s, a, a) = <<>>
  <2>1. a + 1 \in Int /\ a \in Int /\ a < a + 1
    OBVIOUS
  <2> QED BY <2>1, SubSeqEmpty DEF Window
<1>2. Window(s, 0, Len(s)) = s
  BY SubSeqFull DEF Window
<1>3. Len(Window(s, a, b)) = b - a
  BY WindowIs
<1> QED BY <1>1, <1>2, <1>3

LEMMA SourceTyped ==
  ASSUME DecodingInvariant
  PROVE  source \in Seq(Units) /\ Len(source) \in Nat
BY DecodingAssumption DEF DecodingInvariant

LEMMA InitInvariant == Init => DecodingInvariant
<1> SUFFICES ASSUME Init PROVE DecodingInvariant
  OBVIOUS
<1>1. source \in Sources /\ source \in Seq(Units) /\ Len(source) \in Nat
  BY DecodingAssumption DEF Init
<1>2. 0 \in 0..Len(source) /\ Len(source) \in 0..Len(source)
  BY <1>1
<1>3. Window(source, 0, 0) = <<>> /\ Window(source, 0, Len(source)) = source
  BY <1>1, <1>2, WindowEnds
<1>4. 0 <= ProbeBytes
  BY DecodingAssumption
<1>5. Probing
  BY <1>2, <1>3, <1>4 DEF Init, Probing
<1> QED BY <1>1, <1>5 DEF Init, DecodingInvariant

LEMMA ProbeKeeps ==
  ASSUME DecodingInvariant, NEW n \in 1..ProbeBytes, Probe(n)
  PROVE  DecodingInvariant'
<1> DEFINE e == Len(source)
<1>1. source \in Seq(Units) /\ e \in Nat /\ ProbeBytes \in Nat /\ n \in Nat
  BY SourceTyped, DecodingAssumption
<1>2. PICK h \in 0..e : h <= ProbeBytes /\ head = Window(source, 0, h) /\ rest = Window(source, h, e)
  BY DEF DecodingInvariant, Probing, Probe
<1> HIDE DEF e
<1>3. Len(head) = h /\ Len(rest) = e - h
  <2>1. 0 \in 0..e /\ h \in 0..e /\ h \in 0..e /\ e \in h..e
    BY <1>1
  <2>2. Len(Window(source, 0, h)) = h - 0 /\ Len(Window(source, h, e)) = e - h
    BY <1>1, <2>1, WindowIs DEF e
  <2> QED BY <1>1, <1>2, <2>2
<1>4. n \in 0..e-h /\ h + n <= ProbeBytes
  BY <1>1, <1>3 DEF Probe
<1> DEFINE g == h + n
<1>5. g \in 0..e /\ g <= ProbeBytes /\ h \in 0..g /\ g \in h..e
  BY <1>1, <1>4
<1>6. /\ SubSeq(Window(source, h, e), 1, n) = Window(source, h, g)
      /\ SubSeq(Window(source, h, e), n + 1, Len(Window(source, h, e))) = Window(source, g, e)
  <2>1. h \in 0..e /\ e \in h..e /\ n \in 0..e-h
    BY <1>1, <1>4
  <2> QED BY <1>1, <2>1, WindowCut DEF e
<1>7. Window(source, 0, h) \o Window(source, h, g) = Window(source, 0, g)
  BY <1>1, <1>5, WindowJoin DEF e
<1>8. head' = Window(source, 0, g) /\ rest' = Window(source, g, e) /\ source' = source
  BY <1>2, <1>6, <1>7 DEF Probe
<1> HIDE DEF g
<1>9. Probing'
  BY <1>5, <1>8 DEF Probing, Probe, e, DecodingInvariant
<1> QED BY <1>8, <1>9 DEF DecodingInvariant, Probe

(* What the probe has is enough to see the UNB.                            *)
LEMMA EndProbeFinds ==
  ASSUME DecodingInvariant, EndProbe
  PROVE  Sniff(head) = Sniff(source)
<1> DEFINE e == Len(source)
<1>1. source \in Seq(Units) /\ e \in Nat /\ ProbeBytes \in Nat \ {0}
  BY SourceTyped, DecodingAssumption
<1>2. PICK h \in 0..e : h <= ProbeBytes /\ head = Window(source, 0, h) /\ rest = Window(source, h, e)
  BY DEF DecodingInvariant, Probing, EndProbe
<1> HIDE DEF e
<1>3. /\ head \in Seq(Units) /\ Len(head) = h
      /\ \A i \in 1..h : head[i] = source[i]
  <2>1. 0 \in 0..e /\ h \in 0..e
    BY <1>1
  <2>2. /\ Window(source, 0, h) \in Seq(Units)
        /\ Len(Window(source, 0, h)) = h - 0
        /\ \A i \in 1..h-0 : Window(source, 0, h)[i] = source[0 + i]
    BY <1>1, <2>1, WindowIs DEF e
  <2> QED BY <1>2, <2>2
<1>4. h = ProbeBytes \/ h = e
  <2>1. CASE rest = <<>>
    <3>1. h \in 0..e /\ e \in h..e
      BY <1>1
    <3>2. Window(source, h, e) = <<>> => h = e
      BY <1>1, <3>1, WindowEnds DEF e
    <3> QED BY <1>2, <2>1, <3>2
  <2>2. CASE Len(head) = ProbeBytes
    BY <1>3, <2>2
  <2> QED BY <2>1, <2>2 DEF EndProbe, ProbeFull
<1>5. DeclaredAt(source) \subseteq 1..h
  <2>1. DeclaredAt(source) \subseteq 1..ProbeBytes
    BY ProbeAssumption DEF DecodingInvariant
  <2>2. DeclaredAt(source) \subseteq 1..e
    BY <1>1 DEF DeclaredAt, e
  <2> QED BY <1>4, <2>1, <2>2
<1>6. (head # <<>> /\ head[1] = "UNA") <=> (source # <<>> /\ source[1] = "UNA")
  <2>1. CASE h = 0
    BY <1>1, <1>3, <1>4, <2>1 DEF e
  <2>2. CASE h # 0
    <3>1. 1 \in 1..h /\ head # <<>> /\ source # <<>>
      BY <1>1, <1>3, <2>2 DEF e
    <3> QED BY <1>3, <3>1
  <2> QED BY <2>1, <2>2
<1>7. DOMAIN head = 1..h /\ DOMAIN source = 1..e
  BY <1>1, <1>3 DEF e
<1>8. DeclaredAt(head) = DeclaredAt(source)
  <2> DEFINE Before(s, i, una) == \A j \in 1..i-1 : s[j] = "ws" \/ (j = 1 /\ una)
             una == source # <<>> /\ source[1] = "UNA"
  <2>1. DeclaredAt(head) = {i \in 1..h : head[i] \in Identified /\ Before(head, i, una)}
    BY <1>6, <1>7 DEF DeclaredAt
  <2>2. DeclaredAt(source) = {i \in 1..e : source[i] \in Identified /\ Before(source, i, una)}
    BY <1>7 DEF DeclaredAt
  <2> HIDE DEF una
  <2>3. \A i \in 1..h : Before(head, i, una) <=> Before(source, i, una)
    BY <1>3
  <2> HIDE DEF Before
  <2>4. \A i \in 1..h : i \in 1..e
    BY <1>1
  <2>5. \A i : i \in DeclaredAt(head) <=> i \in DeclaredAt(source)
    BY <1>3, <1>5, <2>1, <2>2, <2>3, <2>4
  <2> QED BY <2>5
<1>9. CASE DeclaredAt(source) = {}
  BY <1>8, <1>9 DEF Sniff
<1>10. CASE DeclaredAt(source) # {}
  <2> DEFINE at == CHOOSE i \in DeclaredAt(source) : TRUE
  <2>1. at \in DeclaredAt(source)
    BY <1>10
  <2> HIDE DEF at
  <2>2. head[at] = source[at]
    BY <1>3, <1>5, <2>1
  <2>3. Sniff(source) = RepertoireOf(source[at]) /\ Sniff(head) = RepertoireOf(head[at])
    BY <1>8, <1>10 DEF Sniff, at
  <2> QED BY <2>2, <2>3
<1> QED BY <1>9, <1>10

LEMMA EndProbeKeeps ==
  ASSUME DecodingInvariant, EndProbe
  PROVE  DecodingInvariant'
<1> DEFINE e == Len(source)
<1>1. source \in Seq(Units) /\ e \in Nat
  BY SourceTyped
<1>2. PICK h \in 0..e : head = Window(source, 0, h) /\ rest = Window(source, h, e)
  BY DEF DecodingInvariant, Probing, EndProbe
<1>3. /\ src = <<>> /\ spill = <<>> /\ out = <<>> /\ handed = <<>>
      /\ over = "no" /\ interrupts = 0
  BY DEF DecodingInvariant, Probing, EndProbe
<1>4. /\ source' = source /\ mode' = Sniff(source) /\ phase' = "idle"
      /\ over' = IF mode' = "refused" THEN "refused" ELSE "no"
      /\ head' = head /\ rest' = rest /\ src' = <<>> /\ spill' = <<>> /\ out' = <<>>
      /\ handed' = <<>> /\ interrupts' = 0
  BY <1>3, EndProbeFinds DEF EndProbe, reader
<1>5. Found'
  BY <1>4 DEF Found, Declared
<1>6. ASSUME mode' # "refused" PROVE Decoded'
  <2> HIDE DEF e
  <2>1. 0 \in 0..e /\ h \in 0..e /\ 0 \in 0..h
    BY <1>1
  <2>2. Window(source, 0, 0) = <<>>
    BY <1>1, <2>1, WindowEnds DEF e
  <2>3. DecodedAfter(mode', source)[0] = <<>>
    BY <1>1, DecodedStep DEF e
  <2>4. <<>> \in Seq(Outs) /\ <<>> \o (<<>> \o <<>>) = <<>>
    OBVIOUS
  <2>5. Cut(0, 0, h)'
    BY <1>1, <1>2, <1>4, <2>1, <2>2, <2>3, <2>4 DEF Cut, Clean, e
  <2>6. Going'
    BY <1>4, <2>1, <2>4, <2>5 DEF Going, Bounded, e
  <2> QED BY <1>4, <1>6, <2>4, <2>6 DEF Decoded
<1> QED BY <1>4, <1>5, <1>6 DEF DecodingInvariant

-----------------------------------------------------------------------------
(* A read goes on where there is more to come.                             *)
LEMMA ReadingIs ==
  ASSUME DecodingInvariant, phase # "probing", over = "no" \/ phase = "filling"
  PROVE  /\ mode # "refused"
         /\ interrupts = 0 => over = "no" /\ handed \in Seq(Outs) /\ Going
BY DEF DecodingInvariant, Found, Decoded, Ended, Failed

LEMMA ReadingKeeps ==
  ASSUME DecodingInvariant, phase # "probing", mode # "refused",
         source' = source, mode' = mode, phase' \in {"idle", "filling"},
         interrupts' \in Nat, interrupts' = 0 => Decoded'
  PROVE  DecodingInvariant'
BY DEF DecodingInvariant, Found, Declared

(* A sequence of bytes is cut in two.                                      *)
LEMMA SplitsAt ==
  ASSUME NEW s \in Seq(Outs), NEW k \in 0..Len(s)
  PROVE  /\ SubSeq(s, 1, k) \in Seq(Outs) /\ SubSeq(s, k + 1, Len(s)) \in Seq(Outs)
         /\ Len(SubSeq(s, 1, k)) = k /\ Len(SubSeq(s, k + 1, Len(s))) = Len(s) - k
         /\ SubSeq(s, 1, k) \o SubSeq(s, k + 1, Len(s)) = s
<1> DEFINE n == Len(s)
<1>1. n \in Nat /\ k \in 0..n /\ \A i \in 1..n : s[i] \in Outs
  OBVIOUS
<1> HIDE DEF n
<1>2. SubSeq(s, 1, k) \in Seq(Outs) /\ Len(SubSeq(s, 1, k)) = IF 1 <= k THEN k - 1 + 1 ELSE 0
  <2>1. k \in Int /\ 1 \in Int /\ \A i \in 1..k : s[i] \in Outs
    BY <1>1
  <2> QED BY <2>1, SubSeqProperties
<1>3. /\ SubSeq(s, k + 1, n) \in Seq(Outs)
      /\ Len(SubSeq(s, k + 1, n)) = IF k + 1 <= n THEN n - (k + 1) + 1 ELSE 0
  <2>1. k + 1 \in Int /\ n \in Int /\ \A i \in k+1..n : s[i] \in Outs
    BY <1>1
  <2> QED BY <2>1, SubSeqProperties
<1>4. SubSeq(s, 1, k) \o SubSeq(s, k + 1, n) = s
  <2>1. 1 \in 1..n+1 /\ k \in 1-1..n /\ n \in k..n
    BY <1>1
  <2>2. SubSeq(s, 1, k) \o SubSeq(s, k + 1, n) = SubSeq(s, 1, n)
    BY <2>1, ConcatAdjacentSubSeq DEF n
  <2> QED BY <2>2, SubSeqFull DEF n
<1>5. Len(SubSeq(s, 1, k)) = k
  BY <1>1, <1>2
<1>6. Len(SubSeq(s, k + 1, n)) = n - k
  BY <1>1, <1>3
<1> QED BY <1>2, <1>3, <1>4, <1>5, <1>6 DEF n

LEMMA LeastIs ==
  ASSUME NEW a \in Nat, NEW b \in Nat
  PROVE  Least(a, b) \in 0..b /\ Least(a, b) <= a /\ (Least(a, b) = a \/ Least(a, b) = b)
BY DEF Least

LEMMA CallKeeps ==
  ASSUME DecodingInvariant, NEW n \in 1..MaxRead, Call(n)
  PROVE  DecodingInvariant'
<1>1. phase # "probing" /\ over = "no" /\ phase = "idle" /\ n \in Nat \ {0}
  BY DecodingAssumption DEF Call
<1>2. mode # "refused"
  BY <1>1, ReadingIs
<1>3. ASSUME interrupts' = 0 PROVE Decoded'
  <2> DEFINE fits == Least(n, Len(spill))
             first == SubSeq(spill, 1, fits)
             left == SubSeq(spill, fits + 1, Len(spill))
  <2>1. interrupts = 0
    BY <1>3 DEF Call
  <2>2. Going /\ handed \in Seq(Outs)
    BY <1>1, <2>1, ReadingIs
  <2>3. spill \in Seq(Outs) /\ Len(spill) \in Nat /\ out = <<>>
    BY <1>1, <2>2 DEF Going, Bounded
  <2>4. fits \in 0..Len(spill) /\ fits <= n /\ (fits = n \/ fits = Len(spill))
    BY <1>1, <2>3, LeastIs
  <2>5. /\ first \in Seq(Outs) /\ left \in Seq(Outs)
        /\ Len(first) = fits /\ Len(left) = Len(spill) - fits /\ first \o left = spill
    <3> HIDE DEF fits
    <3> QED BY <2>3, <2>4, SplitsAt
  <2>6. /\ out' = first /\ spill' = left /\ room' = n /\ phase' = "filling"
        /\ src' = src /\ head' = head /\ rest' = rest /\ source' = source /\ mode' = mode
        /\ handed' = handed /\ over' = "no"
    BY <1>1 DEF Call, LeftOver
  <2> HIDE DEF fits, first, left
  <2>7. out \o spill = out' \o spill'
    BY <2>3, <2>5, <2>6, ConcatEmptySeq
  <2>8. PICK c \in 0..Len(source), q \in 0..Len(source) : \E p \in c..q : Cut(c, p, q)
    BY <2>2 DEF Going
  <2>9. PICK p \in c..q : Cut(c, p, q)
    BY <2>8
  <2>10. Cut(c, p, q)'
    BY <2>6, <2>7, <2>9 DEF Cut
  <2>11. Bounded'
    <3>1. left # <<>> => Len(left) # 0
      BY <2>5
    <3>2. left # <<>> => fits = n
      BY <2>3, <2>4, <2>5, <3>1
    <3> QED BY <1>1, <2>4, <2>5, <2>6, <3>2 DEF Bounded
  <2>12. Going'
    BY <2>5, <2>6, <2>10, <2>11 DEF Going
  <2> QED BY <2>2, <2>6, <2>12 DEF Decoded
<1>4. /\ source' = source /\ mode' = mode /\ phase' \in {"idle", "filling"}
      /\ interrupts' \in Nat
  BY DEF Call, DecodingInvariant
<1> QED BY <1>1, <1>2, <1>3, <1>4, ReadingKeeps

LEMMA ReturnFullKeeps ==
  ASSUME DecodingInvariant, ReturnFull
  PROVE  DecodingInvariant'
<1>1. phase # "probing" /\ phase = "filling" /\ Len(out) = room
  BY DEF ReturnFull
<1>2. mode # "refused"
  BY <1>1, ReadingIs
<1>3. ASSUME interrupts' = 0 PROVE Decoded'
  <2>1. interrupts = 0
    BY <1>3 DEF ReturnFull, Return
  <2>2. Going /\ handed \in Seq(Outs) /\ over = "no"
    BY <1>1, <2>1, ReadingIs
  <2>3. out \in Seq(Outs) /\ spill \in Seq(Outs) /\ out # <<>>
    BY <1>1, <2>2 DEF Going, Bounded
  <2>4. /\ handed' = handed \o out /\ out' = <<>> /\ over' = "no" /\ phase' = "idle"
        /\ src' = src /\ head' = head /\ rest' = rest /\ source' = source /\ mode' = mode
        /\ spill' = spill
    BY <2>2, <2>3 DEF ReturnFull, Return
  <2>5. handed' \o (out' \o spill') = handed \o (out \o spill)
    <3>1. out' \o spill' = spill
      BY <2>3, <2>4, ConcatEmptySeq
    <3>2. (handed \o out) \o spill = handed \o (out \o spill)
      BY <2>2, <2>3, Assoc
    <3> QED BY <2>4, <3>1, <3>2
  <2>6. PICK c \in 0..Len(source), q \in 0..Len(source) : \E p \in c..q : Cut(c, p, q)
    BY <2>2 DEF Going
  <2>7. PICK p \in c..q : Cut(c, p, q)
    BY <2>6
  <2>8. Cut(c, p, q)'
    BY <2>4, <2>5, <2>7 DEF Cut
  <2>9. Bounded'
    BY <2>4 DEF Bounded
  <2>10. <<>> \in Seq(Outs) /\ handed' \in Seq(Outs)
    BY <2>2, <2>3, <2>4, ConcatProperties
  <2>11. Going'
    BY <2>3, <2>4, <2>8, <2>9, <2>10 DEF Going
  <2> QED BY <2>4, <2>10, <2>11 DEF Decoded
<1>4. /\ source' = source /\ mode' = mode /\ phase' \in {"idle", "filling"}
      /\ interrupts' \in Nat
  BY DEF ReturnFull, Return, DecodingInvariant
<1> QED BY <1>1, <1>2, <1>3, <1>4, ReadingKeeps

LEMMA RefillEndsKeeps ==
  ASSUME DecodingInvariant, RefillEnds
  PROVE  DecodingInvariant'
<1>1. /\ phase # "probing" /\ phase = "filling" /\ Len(out) < room
      /\ src = <<>> /\ head = <<>> /\ rest = <<>>
  BY DEF RefillEnds, NeedsSource
<1>2. mode # "refused"
  BY <1>1, ReadingIs
<1>3. ASSUME interrupts' = 0 PROVE Decoded'
  <2>1. interrupts = 0
    BY <1>3 DEF RefillEnds, Return
  <2>2. Going /\ handed \in Seq(Outs) /\ over = "no"
    BY <1>1, <2>1, ReadingIs
  <2>3. out \in Seq(Outs) /\ Len(out) \in Nat /\ room \in Nat /\ spill = <<>>
    BY <1>1, <2>2 DEF Going, Bounded
  <2>4. /\ handed' = handed \o out /\ out' = <<>> /\ phase' = "idle"
        /\ over' = IF out = <<>> THEN "end" ELSE "no"
        /\ src' = <<>> /\ head' = <<>> /\ rest' = <<>> /\ source' = source /\ mode' = mode
        /\ spill' = <<>>
    BY <1>1, <2>2, <2>3 DEF RefillEnds, Return
  <2>5. handed' \in Seq(Outs) /\ <<>> \in Seq(Outs)
    BY <2>2, <2>3, <2>4, ConcatProperties
  <2> DEFINE e == Len(source)
  <2>6. PICK c \in 0..e, q \in 0..e : \E p \in c..q : Cut(c, p, q)
    BY <2>2 DEF Going
  <2>7. PICK p \in c..q : Cut(c, p, q)
    BY <2>6
  <2>8. c = e /\ p = e /\ q = e
    <3> DEFINE s == source
    <3>1. s \in Seq(Units) /\ e \in Nat /\ e = Len(s)
      BY SourceTyped
    <3>2. Window(s, c, p) = <<>> /\ Window(s, p, q) = <<>> /\ Window(s, q, e) = <<>>
      BY <1>1, <2>7 DEF Cut
    <3> HIDE DEF e, s
    <3>3. c \in 0..e /\ p \in c..e /\ p \in 0..e /\ q \in p..e /\ q \in 0..e /\ e \in q..e
      BY <3>1
    <3>4. c = p
      BY <3>1, <3>2, <3>3, WindowEnds
    <3>5. p = q
      BY <3>1, <3>2, <3>3, WindowEnds
    <3>6. q = e
      BY <3>1, <3>2, <3>3, WindowEnds
    <3> QED BY <3>4, <3>5, <3>6
  <2>9. handed' = DecodedAfter(mode, source)[e] /\ Clean(mode, source, e)
    <3>1. out \o spill = out
      BY <2>3, ConcatEmptySeq
    <3> QED BY <2>4, <2>7, <2>8, <3>1 DEF Cut
  <2>10. CASE out = <<>>
    BY <2>4, <2>5, <2>9, <2>10 DEF Decoded, Ended
  <2>11. CASE out # <<>>
    <3>1. handed' \o (out' \o spill') = handed'
      BY <2>4, <2>5, ConcatEmptySeq
    <3>2. Cut(c, p, q)'
      BY <1>1, <2>4, <2>7, <2>8, <2>9, <3>1 DEF Cut
    <3>3. Bounded'
      BY <2>4 DEF Bounded
    <3>4. Going'
      BY <2>4, <2>5, <3>2, <3>3 DEF Going
    <3> QED BY <2>4, <2>5, <2>11, <3>4 DEF Decoded
  <2> QED BY <2>10, <2>11
<1>4. /\ source' = source /\ mode' = mode /\ phase' \in {"idle", "filling"}
      /\ interrupts' \in Nat
  BY DEF RefillEnds, Return, DecodingInvariant
<1> QED BY <1>1, <1>2, <1>3, <1>4, ReadingKeeps

LEMMA RefillKeeps ==
  ASSUME DecodingInvariant, NEW n \in 1..BufferSize, Refill(n)
  PROVE  DecodingInvariant'
<1>1. phase # "probing" /\ phase = "filling" /\ Len(out) < room /\ src = <<>> /\ n \in Nat \ {0}
  BY DecodingAssumption DEF Refill, NeedsSource
<1>2. mode # "refused"
  BY <1>1, ReadingIs
<1>3. ASSUME interrupts' = 0 PROVE Decoded'
  <2>1. interrupts = 0
    BY <1>3 DEF Refill
  <2>2. Going /\ handed \in Seq(Outs) /\ over = "no"
    BY <1>1, <2>1, ReadingIs
  <2>3. /\ handed' = handed /\ out' = out /\ phase' = "filling" /\ over' = "no"
        /\ source' = source /\ mode' = mode /\ spill' = spill /\ room' = room
    BY <1>1, <2>2 DEF Refill
  <2> DEFINE e == Len(source)
             s == source
  <2>4. PICK c \in 0..e, q \in 0..e : \E p \in c..q : Cut(c, p, q)
    BY <2>2 DEF Going
  <2>5. PICK p \in c..q : Cut(c, p, q)
    BY <2>4
  <2>6. s \in Seq(Units) /\ e \in Nat /\ e = Len(s)
    BY SourceTyped
  <2>7. Window(s, c, p) = <<>> /\ head = Window(s, p, q) /\ rest = Window(s, q, e)
    BY <1>1, <2>5 DEF Cut
  <2>8. /\ Clean(mode, s, c) /\ handed \o (out \o spill) = DecodedAfter(mode, s)[c]
    BY <2>5 DEF Cut
  <2> HIDE DEF e, s
  <2>9. c \in 0..e /\ p \in c..e /\ p \in 0..e /\ q \in p..e /\ q \in 0..e /\ e \in q..e
    BY <2>6
  <2>10. c = p
    BY <2>6, <2>7, <2>9, WindowEnds
  <2>11. CASE head # <<>>
    <3>1. n <= Len(head) /\ src' = SubSeq(head, 1, n)
          /\ head' = SubSeq(head, n + 1, Len(head)) /\ rest' = rest
      <4>1. Len(head) = q - p
        BY <2>6, <2>7, <2>9, WindowIs
      <4>2. Len(head) \in Nat /\ BufferSize \in Nat
        BY <2>9, <4>1, DecodingAssumption
      <4> DEFINE l == Len(head)
      <4> HIDE DEF l
      <4>3. Least(BufferSize, l) \in 0..l
        BY <4>2, LeastIs DEF l
      <4>4. n <= Least(BufferSize, l)
        BY <2>11 DEF Refill, l
      <4>5. n <= l
        BY <1>1, <4>2, <4>3, <4>4 DEF l
      <4> QED BY <2>11, <4>5 DEF Refill, l
    <3>2. Len(head) = q - p
      BY <2>6, <2>7, <2>9, WindowIs
    <3> DEFINE r == p + n
    <3>3. n \in 0..q-p /\ r \in 0..e /\ r \in c..q
      BY <1>1, <2>9, <3>1, <3>2
    <3>4. p \in 0..Len(s) /\ q \in p..Len(s)
      BY <2>6, <2>9
    <3>5. /\ SubSeq(Window(s, p, q), 1, n) = Window(s, p, p + n)
          /\ SubSeq(Window(s, p, q), n + 1, Len(Window(s, p, q))) = Window(s, p + n, q)
      BY <2>6, <3>3, <3>4, WindowCut
    <3>6. src' = Window(s, c, r) /\ head' = Window(s, r, q) /\ rest' = Window(s, q, e)
      BY <2>7, <2>10, <3>1, <3>5
    <3> HIDE DEF r
    <3>7. Cut(c, r, q)'
      BY <2>3, <2>8, <3>3, <3>6 DEF Cut, s, e
    <3>8. Bounded'
      BY <1>1, <2>2, <2>3 DEF Going, Bounded
    <3>9. Going'
      BY <2>2, <2>3, <2>9, <3>3, <3>7, <3>8 DEF Going, e
    <3> QED BY <2>2, <2>3, <3>9 DEF Decoded
  <2>12. CASE head = <<>>
    <3>1. n <= Len(rest) /\ src' = SubSeq(rest, 1, n)
          /\ rest' = SubSeq(rest, n + 1, Len(rest)) /\ head' = head
      <4>1. Len(rest) = e - q
        BY <2>6, <2>7, <2>9, WindowIs
      <4>2. Len(rest) \in Nat /\ BufferSize \in Nat
        BY <2>9, <4>1, DecodingAssumption
      <4> DEFINE l == Len(rest)
      <4> HIDE DEF l
      <4>3. Least(BufferSize, l) \in 0..l
        BY <4>2, LeastIs DEF l
      <4>4. n <= Least(BufferSize, l)
        BY <2>12 DEF Refill, l
      <4>5. n <= l
        BY <1>1, <4>2, <4>3, <4>4 DEF l
      <4> QED BY <2>12, <4>5 DEF Refill, l
    <3>2. Len(rest) = e - q
      BY <2>6, <2>7, <2>9, WindowIs
    <3>3. p = q
      <4>1. Window(s, p, q) = <<>> => p = q
        BY <2>6, <2>9, WindowEnds
      <4> QED BY <2>7, <2>12, <4>1
    <3> DEFINE r == q + n
    <3>4. n \in 0..e-q /\ r \in 0..e /\ r \in c..r /\ r \in c..e
      BY <1>1, <2>9, <3>1, <3>2
    <3>5. q \in 0..Len(s) /\ e \in q..Len(s)
      BY <2>6, <2>9
    <3>6. /\ SubSeq(Window(s, q, e), 1, n) = Window(s, q, q + n)
          /\ SubSeq(Window(s, q, e), n + 1, Len(Window(s, q, e))) = Window(s, q + n, e)
      BY <2>6, <3>4, <3>5, WindowCut
    <3>7. Window(s, r, r) = <<>>
      <4>1. r \in 0..Len(s) /\ r \in r..Len(s)
        BY <2>6, <3>4
      <4> HIDE DEF r
      <4> QED BY <2>6, <4>1, WindowEnds
    <3>8. src' = Window(s, c, r) /\ head' = Window(s, r, r) /\ rest' = Window(s, r, e)
      BY <2>7, <2>10, <2>12, <3>1, <3>3, <3>6, <3>7
    <3> HIDE DEF r
    <3>9. Cut(c, r, r)'
      BY <2>3, <2>8, <3>4, <3>8 DEF Cut, s, e
    <3>10. Bounded'
      BY <1>1, <2>2, <2>3 DEF Going, Bounded
    <3>11. Going'
      BY <2>2, <2>3, <2>9, <3>4, <3>9, <3>10 DEF Going, e
    <3> QED BY <2>2, <2>3, <3>11 DEF Decoded
  <2> QED BY <2>11, <2>12
<1>4. /\ source' = source /\ mode' = mode /\ phase' \in {"idle", "filling"}
      /\ interrupts' \in Nat
  BY <1>1 DEF Refill, DecodingInvariant
<1> QED BY <1>1, <1>2, <1>3, <1>4, ReadingKeeps

LEMMA RefillFailsKeeps ==
  ASSUME DecodingInvariant, RefillFails
  PROVE  DecodingInvariant'
<1>1. phase # "probing" /\ phase = "filling"
  BY DEF RefillFails, NeedsSource
<1>2. mode # "refused"
  BY <1>1, ReadingIs
<1>3. /\ source' = source /\ mode' = mode /\ phase' \in {"idle", "filling"}
      /\ interrupts' = interrupts + 1 /\ interrupts \in Nat
  BY DEF RefillFails, Fail, DecodingInvariant
<1>4. interrupts' \in Nat /\ interrupts' # 0
  BY <1>3
<1> QED BY <1>1, <1>2, <1>3, <1>4, ReadingKeeps

(* What is handed over grows where the decoded bytes do.                   *)
LEMMA Regroup ==
  ASSUME NEW h \in Seq(Outs), NEW o \in Seq(Outs), NEW a \in Seq(Outs), NEW z \in Seq(Outs)
  PROVE  (h \o (o \o a)) \o z = (h \o o) \o (a \o z)
<1>1. h \o (o \o a) = (h \o o) \o a
  BY Assoc
<1>2. h \o o \in Seq(Outs)
  BY ConcatProperties
<1>3. ((h \o o) \o a) \o z = (h \o o) \o (a \o z)
  BY <1>2, Assoc, Zenon
<1> QED BY <1>1, <1>3

(* One more byte is decoded, and lies in the caller's buffer as far as it  *)
(* fits, and in the spill from there on.                                   *)
LEMMA DecodeKeeps ==
  ASSUME DecodingInvariant, Decode
  PROVE  DecodingInvariant'
<1>1. /\ phase # "probing" /\ phase = "filling" /\ Len(out) < room /\ src # <<>>
      /\ ~Undecodable(mode, src[1])
  BY DEF Decode, MayDecode
<1>2. mode # "refused"
  BY <1>1, ReadingIs
<1>3. ASSUME interrupts' = 0 PROVE Decoded'
  <2>1. interrupts = 0
    BY <1>3 DEF Decode, Return
  <2>2. Going /\ handed \in Seq(Outs) /\ over = "no"
    BY <1>1, <2>1, ReadingIs
  <2>3. /\ out \in Seq(Outs) /\ Len(out) \in Nat /\ room \in Nat \ {0}
        /\ room - Len(out) \in Nat /\ spill = <<>>
    BY <1>1, <2>2 DEF Going, Bounded
  <2> DEFINE e == Len(source)
             s == source
             byte == src[1]
             bytes == Encoded(mode, byte)
             n == Len(bytes)
             direct == Least(room - Len(out), n)
             written == out \o SubSeq(bytes, 1, direct)
             carried == SubSeq(bytes, direct + 1, n)
  <2>4. PICK c \in 0..e, q \in 0..e : \E p \in c..q : Cut(c, p, q)
    BY <2>2 DEF Going
  <2>5. PICK p \in c..q : Cut(c, p, q)
    BY <2>4
  <2>6. s \in Seq(Units) /\ e \in Nat /\ e = Len(s)
    BY SourceTyped
  <2>7. src = Window(s, c, p) /\ head = Window(s, p, q) /\ rest = Window(s, q, e)
    BY <2>5 DEF Cut
  <2>8. /\ Clean(mode, s, c) /\ handed \o (out \o spill) = DecodedAfter(mode, s)[c]
    BY <2>5 DEF Cut
  <2>9. /\ ~Undecodable(mode, byte)
        /\ src' = Tail(src) /\ spill' = carried
        /\ head' = head /\ rest' = rest /\ source' = source /\ mode' = mode /\ room' = room
        /\ direct < n => /\ phase' = "idle" /\ handed' = handed \o written /\ out' = <<>>
                         /\ over' = IF written = <<>> THEN "end" ELSE over
        /\ ~(direct < n) => out' = written /\ phase' = "filling" /\ handed' = handed /\ over' = over
    BY <1>1 DEF Decode, Return
  <2> DEFINE r == c + 1
  <2>10. /\ r \in 0..e /\ r \in 1..e /\ p \in r..q /\ r - 1 = c
         /\ byte = s[r] /\ byte \in Units /\ Tail(src) = Window(s, r, p)
    <3> HIDE DEF e, s
    <3>1. p \in c..Len(s) /\ c \in 0..Len(s)
      BY <2>6
    <3>2. Window(s, c, p) # <<>>
      BY <1>1, <2>7
    <3>3. c + 1 \in 1..p /\ Window(s, c, p)[1] = s[c + 1] /\ Tail(Window(s, c, p)) = Window(s, c + 1, p)
      BY <2>6, <3>1, <3>2, WindowTail
    <3>4. r \in 0..e /\ r \in 1..e /\ p \in r..q /\ r - 1 = c
      BY <2>6, <3>3
    <3>5. s[r] \in Units
      BY <2>6, <3>4
    <3> QED BY <2>7, <3>3, <3>4, <3>5
  <2>11. bytes \in Seq(Outs) /\ n \in 1..3
    <3> HIDE DEF byte
    <3> QED BY <2>10, EncodedIs
  <2>12. DecodedAfter(mode, s)[r] = DecodedAfter(mode, s)[c] \o bytes
    <3> HIDE DEF e, s, byte, bytes, n, r, direct, written, carried
    <3>1. r \in 1..Len(s)
      BY <2>6, <2>10
    <3>2. DecodedAfter(mode, s)[r] = DecodedAfter(mode, s)[r-1] \o Encoded(mode, s[r])
      BY <2>6, <3>1, DecodedStep
    <3>3. bytes = Encoded(mode, s[r])
      BY <2>10 DEF bytes
    <3> QED BY <2>10, <3>2, <3>3
  <2>13. Clean(mode, s, r)
    <3> HIDE DEF e, s, byte, bytes, n, r, direct, written, carried
    <3>1. ASSUME NEW i \in 1..r PROVE i \in 1..c \/ i = r
      BY <2>10
    <3>2. ~Undecodable(mode, s[r])
      BY <2>9, <2>10
    <3>3. \A i \in 1..c : ~Undecodable(mode, s[i])
      BY <2>8 DEF Clean
    <3>4. \A i \in 1..r : ~Undecodable(mode, s[i])
      BY <3>1, <3>2, <3>3
    <3> QED BY <3>4 DEF Clean
  <2> HIDE DEF e, s, byte, bytes, n, r
  <2>14. direct \in 0..n /\ direct <= room - Len(out) /\ (direct = room - Len(out) \/ direct = n)
    <3>1. n \in Nat
      BY <2>11
    <3> DEFINE free == room - Len(out)
    <3>2. free \in Nat
      BY <2>3
    <3> HIDE DEF free
    <3>3. Least(free, n) \in 0..n /\ Least(free, n) <= free /\ (Least(free, n) = free \/ Least(free, n) = n)
      BY <3>1, <3>2, LeastIs
    <3> QED BY <3>3 DEF free
  <2> HIDE DEF direct
  <2>15. /\ written \in Seq(Outs) /\ Len(written) = Len(out) + direct
         /\ (handed \o written) \o carried = (handed \o out) \o bytes
    <3> DEFINE lead == SubSeq(bytes, 1, direct)
               left == SubSeq(bytes, direct + 1, Len(bytes))
    <3>1. lead = SubSeq(bytes, 1, direct) /\ left = SubSeq(bytes, direct + 1, Len(bytes))
      OBVIOUS
    <3>2. written = out \o lead /\ carried = left
      BY DEF n
    <3> HIDE DEF lead, left, written, carried
    <3>3. direct \in 0..Len(bytes)
      BY <2>14 DEF n
    <3>4. lead \in Seq(Outs) /\ left \in Seq(Outs) /\ Len(lead) = direct /\ lead \o left = bytes
      BY <2>11, <3>1, <3>3, SplitsAt
    <3>5. handed \in Seq(Outs) /\ out \in Seq(Outs) /\ lead \in Seq(Outs) /\ left \in Seq(Outs)
      BY <2>2, <2>3, <3>4
    <3>6. (handed \o (out \o lead)) \o left = (handed \o out) \o (lead \o left)
      <4>1. \A h, o, x, y \in Seq(Outs) : (h \o (o \o x)) \o y = (h \o o) \o (x \o y)
        BY Regroup
      <4>2. \A o, x, y \in Seq(Outs) : (handed \o (o \o x)) \o y = (handed \o o) \o (x \o y)
        BY <3>5, <4>1
      <4>3. \A x, y \in Seq(Outs) : (handed \o (out \o x)) \o y = (handed \o out) \o (x \o y)
        BY <3>5, <4>2
      <4>4. \A y \in Seq(Outs) : (handed \o (out \o lead)) \o y = (handed \o out) \o (lead \o y)
        BY <3>5, <4>3
      <4> QED BY <3>5, <4>4
    <3>7. out \o lead \in Seq(Outs) /\ Len(out \o lead) = Len(out) + Len(lead)
      BY <3>5, ConcatProperties
    <3> QED BY <3>2, <3>4, <3>6, <3>7
  <2>16. carried \in Seq(Outs) /\ Len(carried) = n - direct
    BY <2>11, <2>14, SplitsAt DEF n
  <2> HIDE DEF written, carried
  <2>17. (handed \o written) \o carried = DecodedAfter(mode, s)[r]
    <3>1. out \o spill = out
      BY <2>3, ConcatEmptySeq
    <3> QED BY <2>8, <2>12, <2>15, <3>1
  <2>18. CASE direct < n
    <3>1. Len(written) = room /\ written # <<>>
      <4>1. direct = room - Len(out)
        BY <2>11, <2>14, <2>18
      <4>2. Len(written) = room
        BY <2>3, <2>15, <4>1
      <4> QED BY <2>3, <4>2
    <3>2. phase' = "idle" /\ handed' = handed \o written /\ out' = <<>> /\ over' = "no"
      BY <2>2, <2>9, <2>18, <3>1
    <3>3. handed' \in Seq(Outs) /\ <<>> \in Seq(Outs)
      BY <2>2, <2>15, <3>2, ConcatProperties
    <3>4. out' \o spill' = carried
      BY <2>9, <2>16, <3>2, ConcatEmptySeq
    <3>5. Cut(r, p, q)'
      BY <2>7, <2>9, <2>10, <2>13, <2>17, <3>2, <3>4 DEF Cut, s, e
    <3>6. Bounded'
      BY <3>2 DEF Bounded
    <3>7. Going'
      BY <2>9, <2>10, <2>16, <3>2, <3>3, <3>5, <3>6 DEF Going, e
    <3> QED BY <3>2, <3>3, <3>7 DEF Decoded
  <2>19. CASE ~(direct < n)
    <3>1. direct = n
      BY <2>11, <2>14, <2>19
    <3>2. carried = <<>>
      BY <2>11, <2>16, <3>1
    <3>3. out' = written /\ phase' = "filling" /\ handed' = handed /\ over' = "no" /\ spill' = <<>>
      BY <2>2, <2>9, <2>19, <3>2
    <3>4. out' \o spill' = written
      BY <2>15, <3>3, ConcatEmptySeq
    <3>5. (handed \o written) \o carried = handed \o written
      <4>1. handed \o written \in Seq(Outs)
        BY <2>2, <2>15, ConcatProperties
      <4> DEFINE x == handed \o written
      <4> HIDE DEF x
      <4>2. x \in Seq(Outs)
        BY <4>1 DEF x
      <4>3. x \o <<>> = x
        BY <4>2, ConcatEmptySeq
      <4> QED BY <3>2, <4>3 DEF x
    <3>6. Cut(r, p, q)'
      BY <2>7, <2>9, <2>10, <2>13, <2>17, <3>3, <3>4, <3>5 DEF Cut, s, e
    <3>7. Len(written) <= room
      BY <2>3, <2>11, <2>14, <2>15
    <3>8. Bounded'
      BY <2>3, <2>9, <3>3, <3>7 DEF Bounded
    <3>9. <<>> \in Seq(Outs)
      OBVIOUS
    <3>10. Going'
      BY <2>9, <2>10, <2>15, <3>3, <3>6, <3>8, <3>9 DEF Going, e
    <3> QED BY <2>2, <3>3, <3>10 DEF Decoded
  <2> QED BY <2>18, <2>19
<1>4. /\ source' = source /\ mode' = mode /\ phase' \in {"idle", "filling"}
      /\ interrupts' \in Nat
  BY <1>1 DEF Decode, Return, DecodingInvariant
<1> QED BY <1>1, <1>2, <1>3, <1>4, ReadingKeeps

LEMMA RefuseByteKeeps ==
  ASSUME DecodingInvariant, RefuseByte
  PROVE  DecodingInvariant'
<1>1. phase # "probing" /\ phase = "filling"
  BY DEF RefuseByte, MayDecode
<1>2. mode # "refused"
  BY <1>1, ReadingIs
<1>3. ASSUME interrupts' = 0 PROVE Decoded'
  <2>1. interrupts = 0
    BY <1>3 DEF RefuseByte
  <2>2. Going /\ handed \in Seq(Outs) /\ over = "no"
    BY <1>1, <2>1, ReadingIs
  <2>3. /\ handed' = handed /\ phase' = "idle" /\ over' = "failed"
        /\ source' = source /\ mode' = mode
    BY DEF RefuseByte, Fail
  <2>4. PICK c \in 0..Len(source), q \in 0..Len(source) : \E p \in c..q : Cut(c, p, q)
    BY <2>2 DEF Going
  <2>5. Clean(mode, source, c) /\ handed \o (out \o spill) = DecodedAfter(mode, source)[c]
    BY <2>4 DEF Cut
  <2>6. /\ out \in Seq(Outs) /\ Len(out) < room /\ room' = room /\ room \in Nat
        /\ spill = <<>> /\ src # <<>> /\ Undecodable(mode, src[1])
    BY <2>2 DEF Going, Bounded, RefuseByte, MayDecode, Fail
  <2>7. handed \o out = DecodedAfter(mode, source)[c]
    <3>1. out \o <<>> = out
      BY <2>6, ConcatEmptySeq
    <3> QED BY <2>5, <2>6, <3>1
  <2>8. c < Len(source) /\ src[1] = source[c + 1]
    <3>1. source \in Seq(Units) /\ Len(source) \in Nat
      BY SourceTyped
    <3>2. PICK p \in c..q : src = Window(source, c, p)
      BY <2>4 DEF Cut
    <3>3. p \in c..Len(source)
      BY <3>1
    <3>4. c + 1 \in 1..p /\ Window(source, c, p)[1] = source[c + 1]
      BY <2>6, <3>1, <3>2, <3>3, WindowTail
    <3> QED BY <3>1, <3>2, <3>3, <3>4
  <2>9. Undecodable(mode, source[c + 1]) /\ Len(out) < room'
    BY <2>6, <2>8
  <2>10. Failed'
    BY <2>3, <2>5, <2>6, <2>7, <2>8, <2>9 DEF Failed
  <2> QED BY <2>2, <2>3, <2>10 DEF Decoded
<1>4. /\ source' = source /\ mode' = mode /\ phase' \in {"idle", "filling"}
      /\ interrupts' \in Nat
  BY DEF RefuseByte, Fail, DecodingInvariant
<1> QED BY <1>1, <1>2, <1>3, <1>4, ReadingKeeps

LEMMA NextKeeps ==
  ASSUME DecodingInvariant, [Next]_vars
  PROVE  DecodingInvariant'
<1>1. CASE UNCHANGED vars
  BY <1>1 DEF vars, reader, DecodingInvariant, Probing, Found, Declared, Decoded, Going, Ended,
       Failed, Cut, Bounded
<1>2. CASE \E n \in 1..ProbeBytes : Probe(n)
  BY <1>2, ProbeKeeps
<1>3. CASE EndProbe
  BY <1>3, EndProbeKeeps
<1>4. CASE \E n \in 1..MaxRead : Call(n)
  BY <1>4, CallKeeps
<1>5. CASE ReturnFull
  BY <1>5, ReturnFullKeeps
<1>6. CASE RefillEnds
  BY <1>6, RefillEndsKeeps
<1>7. CASE RefillFails
  BY <1>7, RefillFailsKeeps
<1>8. CASE Decode
  BY <1>8, DecodeKeeps
<1>9. CASE RefuseByte
  BY <1>9, RefuseByteKeeps
<1>10. CASE \E n \in 1..BufferSize : Refill(n)
  BY <1>10, RefillKeeps
<1> QED BY <1>1, <1>2, <1>3, <1>4, <1>5, <1>6, <1>7, <1>8, <1>9, <1>10 DEF Next, Read

(* The reader's windows, buffers and ends are as the invariant says.       *)
THEOREM DecodingHolds == Spec => []DecodingInvariant
<1>1. Init => DecodingInvariant
  BY InitInvariant
<1>2. DecodingInvariant /\ [Next]_vars => DecodingInvariant'
  BY NextKeeps
<1> QED BY <1>1, <1>2, PTL DEF Spec

(***************************************************************************)
(* However the source's reads are cut, and however many of them fail, the  *)
(* repertoire is the one the whole stream declares, for every stream whose *)
(* UNB lies within the probe.                                              *)
(***************************************************************************)
THEOREM RepertoireFound == Spec => []RepertoireIsFound
<1>1. DecodingInvariant => RepertoireIsFound
  BY DEF DecodingInvariant, Found, RepertoireIsFound
<1> QED BY <1>1, DecodingHolds, PTL

LEMMA InvariantDecodes ==
  ASSUME DecodingInvariant, interrupts = 0
  PROVE  HandsOutTheDecoding
<1> DEFINE e == Len(source)
           d == Decodable(mode, source)
           whole == IF PassedOn THEN DecodedAfter(mode, source)[Len(source)]
                    ELSE DecodedWhole(mode, source)
<1>1. source \in Seq(Units) /\ e \in Nat
  BY SourceTyped
<1> DEFINE r == Reached(mode, source)
           passes == mode = "as is"
           D(i) == DecodedAfter(mode, source)[i]
<1>6. d \in 0..e /\ r \in 0..e
  BY <1>1, DecodableCovers
<1>7. (passes => r = e) /\ (~passes => r = d)
  BY DEF Reached
<1>8. /\ PassedOn <=> passes /\ d < e
      /\ PassedOn => whole = D(e)
      /\ ~PassedOn => whole = D(d)
  BY DEF PassedOn, DecodedWhole
<1> HIDE DEF e, d, r, passes
<1>9. passes /\ ~PassedOn => d = e
  BY <1>1, <1>6, <1>8
<1>4. whole = D(r)
  BY <1>7, <1>8, <1>9, Zenon
<1> USE DEF e
<1> HIDE DEF whole
<1>2. ASSUME mode # "refused", phase # "probing"
      PROVE  IsPrefix(handed, whole)
  <2>1. Decoded
    BY <1>2 DEF DecodingInvariant
  <2>2. handed \in Seq(Outs)
    BY <2>1 DEF Decoded
  <2>3. \E c \in 0..e, t \in Seq(Outs) :
          Clean(mode, source, c) /\ handed \o t = DecodedAfter(mode, source)[c]
    <3>1. CASE over = "no"
      <4>1. Going
        BY <2>1, <3>1 DEF Decoded
      <4>2. PICK c \in 0..Len(source), q \in 0..Len(source) : \E p \in c..q : Cut(c, p, q)
        BY <4>1 DEF Going
      <4>3. Clean(mode, source, c) /\ handed \o (out \o spill) = DecodedAfter(mode, source)[c]
        BY <4>2 DEF Cut
      <4>4. out \o spill \in Seq(Outs)
        BY <4>1, ConcatProperties DEF Going
      <4> QED BY <4>3, <4>4
    <3>2. CASE over = "end"
      <4>1. handed = DecodedAfter(mode, source)[e] /\ Clean(mode, source, e)
        BY <2>1, <3>2 DEF Decoded, Ended
      <4>2. handed \o <<>> = handed /\ <<>> \in Seq(Outs) /\ e \in 0..e
        BY <1>1, <2>2, ConcatEmptySeq
      <4> HIDE DEF e
      <4> QED BY <4>1, <4>2
    <3>3. CASE over = "failed"
      BY <2>1, <3>3, Zenon DEF Decoded, Failed
    <3> QED BY <2>1, <3>1, <3>2, <3>3 DEF Decoded
  <2>4. PICK c \in 0..e, t \in Seq(Outs) :
          Clean(mode, source, c) /\ handed \o t = DecodedAfter(mode, source)[c]
    BY <2>3
  <2> QED BY <1>1, <1>4, <2>2, <2>4, BeginsTheDecoding DEF r
<1>3. ASSUME over = "end"
      PROVE  handed = whole /\ (d = e \/ PassedOn)
  <2>1. phase # "probing" /\ mode # "refused"
    BY <1>3 DEF DecodingInvariant, Probing, Found
  <2>2. Ended
    BY <1>3, <2>1 DEF DecodingInvariant, Decoded
  <2>3. Clean(mode, source, e) /\ handed = DecodedAfter(mode, source)[e]
    BY <2>2 DEF Ended
  <2>4. e <= r
    <3>1. e \in 0..Len(source)
      BY <1>1
    <3> QED BY <1>1, <2>3, <3>1, DecodableCovers DEF r
  <2> HIDE DEF e
  <2>5. r = e
    BY <1>1, <1>6, <2>4
  <2>6. d = e \/ PassedOn
    BY <1>7, <1>9, <2>5
  <2> QED BY <1>4, <2>3, <2>5, <2>6
<1>5. ASSUME over = "failed"
      PROVE  d < e /\ ~PassedOn /\ Len(handed) + room > Len(whole)
  <2>1. Decoded
    BY <1>5 DEF DecodingInvariant, Probing, Found
  <2>2. PICK c \in 0..e, t \in Seq(Outs) :
          /\ Clean(mode, source, c) /\ handed \o t = DecodedAfter(mode, source)[c]
          /\ c < Len(source) /\ Undecodable(mode, source[c + 1])
          /\ room \in Nat /\ Len(t) < room
    BY <1>5, <2>1 DEF Decoded, Failed
  <2>3. mode = "table" /\ d = c
    BY <1>1, <2>2, DecodableCovers DEF d
  <2>4. whole = handed \o t /\ ~PassedOn
    <3>1. ~passes
      BY <2>3 DEF passes
    <3> QED BY <1>8, <2>2, <2>3, <3>1
  <2>5. handed \in Seq(Outs) /\ Len(whole) = Len(handed) + Len(t)
    BY <2>1, <2>4, ConcatProperties DEF Decoded
  <2>6. Len(handed) \in Nat /\ Len(t) \in Nat
    BY <2>5
  <2> QED BY <2>2, <2>3, <2>4, <2>5, <2>6
<1> QED BY <1>2, <1>3, <1>5 DEF HandsOutTheDecoding, whole, d

(***************************************************************************)
(* Whatever the stream, the buffers and the reads, what is handed out is   *)
(* the decoding from the start, and all of it when the caller's loop ends  *)
(* well; when it ends at a byte that has no character, decode_interchange  *)
(* refuses the stream too and less than one buffer is lost.  That is so as *)
(* long as no read of the source failed.  Bytes that are not UTF-8 under   *)
(* UNOA, UNOB or UNOY, which decode_interchange refuses, are handed out as *)
(* they are.                                                               *)
(***************************************************************************)
THEOREM DecodesTheStream == Spec => []DecodesUnlessInterrupted
<1>1. DecodingInvariant => DecodesUnlessInterrupted
  BY InvariantDecodes DEF DecodesUnlessInterrupted
<1> QED BY <1>1, DecodingHolds, PTL
=============================================================================
