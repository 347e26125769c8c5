---------------------------- MODULE SequenceLemmas ----------------------------
(***************************************************************************)
(* What the proofs of several components need of natural numbers and of    *)
(* the sequence operators the models are built from.                       *)
(***************************************************************************)
EXTENDS Lists, SequencesExt, SequenceTheorems, WellFoundedInduction, TLAPS

-----------------------------------------------------------------------------
(* Positions.                                                              *)

\* The first of several positions exists.
LEMMA FirstPosition ==
  ASSUME NEW T, T \subseteq Nat, T # {}
  PROVE  \E x \in T : \A y \in T : x <= y
<1> DEFINE R == OpToRel(<, Nat)
<1>1. IsWellFoundedOn(R, Nat)
  BY NatLessThanWellFounded
<1>2. PICK x \in T : \A y \in T : <<y, x>> \notin R
  <2> HIDE DEF R
  <2> QED BY ONLY <1>1, WFMin, T \subseteq Nat, T # {}
<1>3. \A y \in T : ~(y < x)
  BY <1>2 DEF OpToRel
<1> QED BY <1>3

\* A position is found, and found as the first.
LEMMA FirstOfPositions ==
  ASSUME NEW T, T \subseteq Nat, T # {}
  PROVE  LET i == CHOOSE x \in T : \A y \in T : x <= y
         IN i \in T /\ \A y \in T : i <= y
<1>1. \E x \in T : \A y \in T : x <= y
  BY FirstPosition
<1> QED BY <1>1

\* Numbers with an upper bound have a highest.
LEMMA HighestOf ==
  ASSUME NEW T, T \subseteq Nat, T # {}, NEW n \in Nat, \A y \in T : y <= n
  PROVE  LET m == CHOOSE x \in T : \A y \in T : x >= y
         IN m \in T /\ \A y \in T : m >= y
<1> DEFINE B == {b \in Nat : \A y \in T : y <= b}
<1>1. PICK b \in B : \A a \in B : b <= a
  <2>1. B \subseteq Nat /\ n \in B
    OBVIOUS
  <2> QED BY <2>1, FirstPosition
<1>2. b \in T
  <2>1. CASE b = 0
    <3>1. PICK y \in T : TRUE
      OBVIOUS
    <3> QED BY <3>1, <2>1
  <2>2. CASE b # 0
    <3>1. b - 1 \in Nat /\ b - 1 \notin B
      BY <1>1, <2>2
    <3>2. PICK y \in T : ~(y <= b - 1)
      BY <3>1
    <3> QED BY <3>2
  <2> QED BY <2>1, <2>2
<1>3. \A y \in T : b >= y
  OBVIOUS
<1> QED BY <1>2, <1>3

\* What holds at 0 and from each position of the next holds at all of them.
LEMMA CountedUp ==
  ASSUME NEW n \in Nat, NEW G, 0 \in G, \A k \in 1..n : k - 1 \in G => k \in G
  PROVE  0..n \subseteq G
<1> DEFINE Bad == (0..n) \ G
<1>1. SUFFICES ASSUME Bad # {} PROVE FALSE
  OBVIOUS
<1>2. PICK k \in Bad : \A j \in Bad : k <= j
  <2>1. Bad \subseteq Nat
    OBVIOUS
  <2> HIDE DEF Bad
  <2> QED BY <1>1, <2>1, FirstPosition
<1>3. k \in 1..n /\ k - 1 \in 0..n /\ ~(k <= k - 1)
  OBVIOUS
<1>4. k - 1 \in G
  BY <1>2, <1>3
<1> QED BY <1>3, <1>4

-----------------------------------------------------------------------------
(* Sequences.                                                              *)

\* What stands where after an insertion.
LEMMA Inserted ==
  ASSUME NEW S, NEW q \in Seq(S), NEW d \in S, NEW i \in 1..Len(q) + 1
  PROVE  /\ InsertAt(q, i, d) \in Seq(S)
         /\ Len(InsertAt(q, i, d)) = Len(q) + 1
         /\ \A j \in 1..Len(q) + 1 :
              InsertAt(q, i, d)[j] = IF j < i THEN q[j] ELSE IF j = i THEN d ELSE q[j - 1]
<1> DEFINE a == SubSeq(q, 1, i - 1)
           b == SubSeq(q, i, Len(q))
           m == <<d>>
<1>0. Len(q) \in Nat /\ i \in Int /\ \A j \in 1..Len(q) : q[j] \in S
  BY LenProperties, ElementOfSeq
<1>1. a \in Seq(S) /\ Len(a) = i - 1 /\ \A j \in 1..i - 1 : a[j] = q[j]
  <2>1. \A j \in 1..i - 1 : q[j] \in S
    BY <1>0
  <2>2. /\ SubSeq(q, 1, i - 1) \in Seq(S)
        /\ Len(SubSeq(q, 1, i - 1)) = IF 1 <= i - 1 THEN (i - 1) - 1 + 1 ELSE 0
        /\ \A j \in 1..(i - 1) - 1 + 1 : SubSeq(q, 1, i - 1)[j] = q[1 + j - 1]
    BY ONLY <2>1, <1>0, SubSeqProperties, i - 1 \in Int
  <2> QED BY <2>2, <1>0
<1>2. b \in Seq(S) /\ Len(b) = Len(q) - i + 1 /\ \A j \in 1..Len(q) - i + 1 : b[j] = q[i + j - 1]
  <2>1. \A j \in i..Len(q) : q[j] \in S
    BY <1>0
  <2>2. /\ SubSeq(q, i, Len(q)) \in Seq(S)
        /\ Len(SubSeq(q, i, Len(q))) = IF i <= Len(q) THEN Len(q) - i + 1 ELSE 0
        /\ \A j \in 1..Len(q) - i + 1 : SubSeq(q, i, Len(q))[j] = q[i + j - 1]
    BY ONLY <2>1, <1>0, SubSeqProperties
  <2> QED BY <2>2, <1>0
<1>3. m \in Seq(S) /\ Len(m) = 1 /\ m[1] = d
  OBVIOUS
<1> HIDE DEF a, b, m
<1>4. a \o m \in Seq(S) /\ Len(a \o m) = i
      /\ \A j \in 1..i : (a \o m)[j] = IF j < i THEN q[j] ELSE d
  <2>1. /\ a \o m \in Seq(S) /\ Len(a \o m) = Len(a) + Len(m)
        /\ \A j \in 1..Len(a) + Len(m) : (a \o m)[j] = IF j <= Len(a) THEN a[j] ELSE m[j - Len(a)]
    BY ONLY <1>1, <1>3, ConcatProperties
  <2> QED BY <2>1, <1>0, <1>1, <1>3
<1>5. /\ (a \o m) \o b \in Seq(S) /\ Len((a \o m) \o b) = Len(q) + 1
      /\ \A j \in 1..Len(q) + 1 :
           ((a \o m) \o b)[j] = IF j < i THEN q[j] ELSE IF j = i THEN d ELSE q[j - 1]
  <2> DEFINE c == a \o m
  <2>0. c \in Seq(S) /\ Len(c) = i /\ \A j \in 1..i : c[j] = IF j < i THEN q[j] ELSE d
    BY <1>4
  <2> HIDE DEF c
  <2>1. /\ c \o b \in Seq(S) /\ Len(c \o b) = Len(c) + Len(b)
        /\ \A j \in 1..Len(c) + Len(b) : (c \o b)[j] = IF j <= Len(c) THEN c[j] ELSE b[j - Len(c)]
    BY ONLY <2>0, <1>2, ConcatProperties
  <2>2. Len(c \o b) = Len(q) + 1
    BY <2>0, <2>1, <1>0, <1>2
  <2>3. ASSUME NEW j \in 1..Len(q) + 1
        PROVE  (c \o b)[j] = IF j < i THEN q[j] ELSE IF j = i THEN d ELSE q[j - 1]
    <3>1. j \in 1..Len(c) + Len(b) /\ Len(c) = i
      BY <2>0, <1>0, <1>2
    <3>0. j \in Int /\ i \in Int /\ (j <= i \/ j > i)
      BY <1>0
    <3>2. CASE j <= i
      BY <3>1, <3>2, <2>0, <2>1, <1>0
    <3>3. CASE j > i
      <4>1. j - i \in 1..Len(q) - i + 1 /\ i + (j - i) - 1 = j - 1
        BY <3>3, <1>0
      <4>2. b[j - i] = q[j - 1]
        BY <4>1, <1>2
      <4>3. (c \o b)[j] = b[j - Len(c)]
        BY <3>0, <3>1, <3>3, <2>1
      <4> QED BY ONLY <3>0, <3>1, <3>3, <4>2, <4>3
    <3> QED BY ONLY <3>0, <3>2, <3>3
  <2> QED BY <2>1, <2>2, <2>3 DEF c
<1> QED BY <1>5 DEF InsertAt, a, b, m

\* What stands where after a removal.
LEMMA Removed ==
  ASSUME NEW S, NEW q \in Seq(S), NEW i \in 1..Len(q)
  PROVE  /\ RemoveAt(q, i) \in Seq(S)
         /\ Len(RemoveAt(q, i)) = Len(q) - 1
         /\ \A j \in 1..Len(q) - 1 : RemoveAt(q, i)[j] = IF j < i THEN q[j] ELSE q[j + 1]
<1> DEFINE a == SubSeq(q, 1, i - 1)
           b == SubSeq(q, i + 1, Len(q))
<1>0. Len(q) \in Nat /\ i \in Int /\ \A j \in 1..Len(q) : q[j] \in S
  BY LenProperties, ElementOfSeq
<1>1. a \in Seq(S) /\ Len(a) = i - 1 /\ \A j \in 1..i - 1 : a[j] = q[j]
  <2>1. \A j \in 1..i - 1 : q[j] \in S
    BY <1>0
  <2>2. /\ SubSeq(q, 1, i - 1) \in Seq(S)
        /\ Len(SubSeq(q, 1, i - 1)) = IF 1 <= i - 1 THEN (i - 1) - 1 + 1 ELSE 0
        /\ \A j \in 1..(i - 1) - 1 + 1 : SubSeq(q, 1, i - 1)[j] = q[1 + j - 1]
    BY ONLY <2>1, <1>0, SubSeqProperties, i - 1 \in Int
  <2> QED BY <2>2, <1>0
<1>2. b \in Seq(S) /\ Len(b) = Len(q) - i /\ \A j \in 1..Len(q) - i : b[j] = q[i + j]
  <2>1. \A j \in i + 1..Len(q) : q[j] \in S
    BY <1>0
  <2>2. /\ SubSeq(q, i + 1, Len(q)) \in Seq(S)
        /\ Len(SubSeq(q, i + 1, Len(q))) = IF i + 1 <= Len(q) THEN Len(q) - (i + 1) + 1 ELSE 0
        /\ \A j \in 1..Len(q) - (i + 1) + 1 : SubSeq(q, i + 1, Len(q))[j] = q[(i + 1) + j - 1]
    BY ONLY <2>1, <1>0, SubSeqProperties, i + 1 \in Int
  <2> QED BY <2>2, <1>0
<1> HIDE DEF a, b
<1>3. /\ a \o b \in Seq(S) /\ Len(a \o b) = Len(a) + Len(b)
      /\ \A j \in 1..Len(a) + Len(b) : (a \o b)[j] = IF j <= Len(a) THEN a[j] ELSE b[j - Len(a)]
  BY ONLY <1>1, <1>2, ConcatProperties
<1>4. ASSUME NEW j \in 1..Len(q) - 1
      PROVE  (a \o b)[j] = IF j < i THEN q[j] ELSE q[j + 1]
  <2>1. j \in 1..Len(a) + Len(b) /\ Len(a) = i - 1
    BY <1>0, <1>1, <1>2
  <2>0. j \in Int /\ i \in Int /\ (j < i \/ j >= i)
    BY <1>0
  <2>2. CASE j < i
    BY <2>1, <2>2, <1>0, <1>1, <1>3
  <2>3. CASE j >= i
    <3>1. j - (i - 1) \in 1..Len(q) - i /\ i + (j - (i - 1)) = j + 1
      BY <2>3, <1>0
    <3>2. b[j - (i - 1)] = q[j + 1]
      BY <3>1, <1>2
    <3>3. (a \o b)[j] = b[j - Len(a)]
      BY <2>0, <2>1, <2>3, <1>3
    <3> QED BY ONLY <2>0, <2>1, <2>3, <3>2, <3>3
  <2> QED BY ONLY <2>0, <2>2, <2>3
<1>5. Len(a \o b) = Len(q) - 1
  BY <1>0, <1>1, <1>2, <1>3
<1> QED BY <1>3, <1>4, <1>5 DEF RemoveAt, a, b

\* What the first of a queue is, and what is left.
LEMMA FirstTaken ==
  ASSUME NEW S, NEW s \in Seq(S), s # <<>>
  PROVE  /\ Head(s) \in S /\ Head(s) = s[1]
         /\ Tail(s) \in Seq(S) /\ Len(Tail(s)) = Len(s) - 1 /\ Len(s) \in Nat \ {0}
         /\ DOMAIN s = 1..Len(s) /\ DOMAIN Tail(s) = 1..Len(s) - 1
         /\ \A i \in 1..Len(s) - 1 : Tail(s)[i] = s[i + 1]
<1>1. Len(s) \in Nat \ {0}
  BY EmptySeq
<1> QED BY <1>1, HeadTailProperties, LenProperties

\* What joins a queue stands at its end.
LEMMA Joined ==
  ASSUME NEW S, NEW s \in Seq(S), NEW e \in S
  PROVE  /\ Append(s, e) \in Seq(S) /\ Len(Append(s, e)) = Len(s) + 1 /\ Len(s) \in Nat
         /\ DOMAIN s = 1..Len(s) /\ DOMAIN Append(s, e) = 1..Len(s) + 1
         /\ Append(s, e)[Len(s) + 1] = e /\ Append(s, e) # <<>>
         /\ \A i \in 1..Len(s) : Append(s, e)[i] = s[i]
<1>1. Append(s, e) \in Seq(S) /\ Len(Append(s, e)) = Len(s) + 1 /\ Len(s) \in Nat
  BY AppendProperties, LenProperties
<1>2. Append(s, e) # <<>>
  BY <1>1, EmptySeq
<1> QED BY <1>1, <1>2, AppendProperties, LenProperties

\* A part of a sequence.
LEMMA PartOf ==
  ASSUME NEW S, NEW s \in Seq(S), NEW m \in 1..Len(s) + 1, NEW n \in 0..Len(s)
  PROVE  /\ SubSeq(s, m, n) \in Seq(S)
         /\ Len(SubSeq(s, m, n)) = IF m <= n THEN n - m + 1 ELSE 0
         /\ \A i \in 1..n - m + 1 : SubSeq(s, m, n)[i] = s[m + i - 1]
<1>1. Len(s) \in Nat /\ \A i \in 1..Len(s) : s[i] \in S
  BY LenProperties, ElementOfSeq
<1>2. m \in Int /\ n \in Int /\ \A i \in m..n : i \in 1..Len(s)
  BY <1>1
<1>3. \A i \in m..n : s[i] \in S
  BY <1>1, <1>2
<1> QED BY ONLY <1>2, <1>3, SubSeqProperties

-----------------------------------------------------------------------------
(* The elements of a sequence that are in a set.                           *)

\* f[n] is what is kept of the first n elements of s.
Keeps(f, m, s, S) ==
  f = [n \in 0..m |->
         IF n = 0 THEN <<>> ELSE IF s[n] \in S THEN Append(f[n - 1], s[n]) ELSE f[n - 1]]

\* The recursion of Those has a solution.
LEMMA KeepsExists ==
  ASSUME NEW s, NEW S, NEW m \in Nat
  PROVE  \E f : Keeps(f, m, s, S)
<1> DEFINE Bad == {n \in Nat : ~\E f : Keeps(f, n, s, S)}
<1>1. SUFFICES ASSUME Bad # {} PROVE FALSE
  OBVIOUS
<1>2. PICK n \in Bad : \A k \in Bad : n <= k
  <2>1. Bad \subseteq Nat
    OBVIOUS
  <2> HIDE DEF Bad
  <2> QED BY <1>1, <2>1, FirstPosition
<1>3. CASE n = 0
  <2>1. Keeps([k \in 0..0 |-> <<>>], 0, s, S)
    BY DEF Keeps
  <2> QED BY <2>1, <1>3
<1>4. CASE n # 0
  <2>1. n - 1 \in Nat /\ n - 1 \notin Bad
    BY <1>2, <1>4
  <2>2. PICK f : Keeps(f, n - 1, s, S)
    BY <2>1
  <2> DEFINE end == IF s[n] \in S THEN Append(f[n - 1], s[n]) ELSE f[n - 1]
             g == [k \in 0..n |-> IF k < n THEN f[k] ELSE end]
  <2> HIDE DEF end
  <2>3. \A k \in 0..n - 1 : g[k] = f[k]
    BY <1>4
  <2>4. \A k \in 0..n - 1 :
          f[k] = IF k = 0 THEN <<>> ELSE IF s[k] \in S THEN Append(f[k - 1], s[k]) ELSE f[k - 1]
    BY <2>2 DEF Keeps
  <2>5. \A k \in 1..n : k - 1 \in 0..n - 1
    BY <2>1
  <2>6. ASSUME NEW k \in 0..n
        PROVE  g[k] = IF k = 0 THEN <<>> ELSE IF s[k] \in S THEN Append(g[k - 1], s[k]) ELSE g[k - 1]
    <3>1. CASE k = n
      <4>1. g[n] = end /\ g[n - 1] = f[n - 1]
        BY <1>4, <2>3, <2>1
      <4> HIDE DEF g
      <4> QED BY <3>1, <4>1, <1>4 DEF end
    <3>2. CASE k # n
      <4>1. k \in 0..n - 1 /\ (k # 0 => k - 1 \in 0..n - 1)
        BY <3>2, <2>1
      <4>2. g[k] = f[k] /\ (k # 0 => g[k - 1] = f[k - 1])
        BY <4>1, <2>3
      <4> HIDE DEF g
      <4> QED BY <4>1, <4>2, <2>4
    <3> QED BY <3>1, <3>2
  <2>7. DOMAIN g = 0..n /\ g = [k \in DOMAIN g |-> g[k]]
    OBVIOUS
  <2> HIDE DEF g
  <2>8. Keeps(g, n, s, S)
    BY <2>6, <2>7 DEF Keeps
  <2> QED BY <2>8, <1>2
<1> QED BY <1>3, <1>4

\* No element of K stands in s at two places.
OnceIn(s, K) == \A i, j \in 1..Len(s) : s[i] = s[j] /\ s[i] \in K => i = j

\* What is kept are the elements that are in S; those of K stand there once if they did.
LEMMA KeptOnce ==
  ASSUME NEW T, NEW s \in Seq(T), NEW S, NEW K
  PROVE  /\ Those(s, S) \in Seq(T)
         /\ ToSet(Those(s, S)) = ToSet(s) \cap S
         /\ OnceIn(s, K) => OnceIn(Those(s, S), K)
<1> DEFINE F == CHOOSE f : Keeps(f, Len(s), s, S)
<1>1. Those(s, S) = F[Len(s)]
  BY DEF Those, Keeps
<1>2. Len(s) \in Nat /\ DOMAIN s = 1..Len(s) /\ \A i \in 1..Len(s) : s[i] \in T
  BY LenProperties, ElementOfSeq
<1>3. Keeps(F, Len(s), s, S)
  BY <1>2, KeepsExists
<1> HIDE DEF F
<1>4. \A n \in 0..Len(s) :
        F[n] = IF n = 0 THEN <<>> ELSE IF s[n] \in S THEN Append(F[n - 1], s[n]) ELSE F[n - 1]
  BY <1>3 DEF Keeps
<1> DEFINE Seen(n) == {i \in 1..n : s[i] \in S}
           Once == \A i, j \in 1..Len(s) : s[i] = s[j] /\ s[i] \in K => i = j
           Fits(q, V) == /\ q \in Seq(T)
                         /\ \A j \in 1..Len(q) : \E i \in V : q[j] = s[i]
                         /\ \A i \in V : \E j \in 1..Len(q) : q[j] = s[i]
                         /\ Once => \A j, k \in 1..Len(q) : q[j] = q[k] /\ q[j] \in K => j = k
           Good(n) == Fits(F[n], Seen(n))
           Bad == {n \in 0..Len(s) : ~Good(n)}
<1>5. Good(0)
  <2>1. F[0] = <<>> /\ Seen(0) = {}
    BY <1>2, <1>4
  <2>2. F[0] \in Seq(T) /\ Len(F[0]) = 0
    BY <2>1, EmptySeq
  <2> QED BY <2>1, <2>2
<1>6. ASSUME NEW n \in 1..Len(s), Good(n - 1)
      PROVE  Good(n)
  <2>1. n \in 0..Len(s) /\ n # 0 /\ n - 1 \in 0..Len(s) /\ n \in Int
    BY <1>2
  <2>2. Seen(n) = IF s[n] \in S THEN Seen(n - 1) \cup {n} ELSE Seen(n - 1)
    BY <1>2, <2>1
  <2>3. CASE s[n] \notin S
    <3>1. F[n] = F[n - 1] /\ Seen(n) = Seen(n - 1)
      BY <2>1, <2>2, <2>3, <1>4
    <3> HIDE DEF Seen, Fits
    <3> QED BY <3>1, <1>6
  <2>4. CASE s[n] \in S
    <3> DEFINE q == F[n - 1]
    <3>1. F[n] = Append(q, s[n]) /\ Seen(n) = Seen(n - 1) \cup {n}
      BY <2>1, <2>2, <2>4, <1>4
    <3>2. q \in Seq(T) /\ s[n] \in T
      BY <1>6, <1>2
    <3>3. /\ F[n] \in Seq(T) /\ Len(F[n]) = Len(q) + 1 /\ Len(q) \in Nat
          /\ F[n][Len(q) + 1] = s[n]
          /\ \A j \in 1..Len(q) : F[n][j] = q[j]
      <4> HIDE DEF q
      <4> QED BY <3>1, <3>2, Joined
    <3>4. /\ \A j \in 1..Len(q) : \E i \in Seen(n - 1) : q[j] = s[i]
          /\ \A i \in Seen(n - 1) : \E j \in 1..Len(q) : q[j] = s[i]
          /\ Once => \A j, k \in 1..Len(q) : q[j] = q[k] /\ q[j] \in K => j = k
      BY <1>6
    <3>5. Seen(n - 1) \subseteq 1..Len(s) /\ n \notin Seen(n - 1)
      BY <1>2, <2>1
    <3>6. \A j \in 1..Len(q) + 1 : j = Len(q) + 1 \/ j \in 1..Len(q)
      BY <3>3
    <3>7. \A j \in 1..Len(q) : j \in 1..Len(q) + 1 /\ j # Len(q) + 1
      BY <3>3
    <3>8. Len(q) + 1 \in 1..Len(q) + 1
      BY <3>3
    <3> HIDE DEF q, Seen
    <3>9. \A j \in 1..Len(F[n]) : \E i \in Seen(n) : F[n][j] = s[i]
      BY <3>1, <3>3, <3>4, <3>6
    <3>10. \A i \in Seen(n) : \E j \in 1..Len(F[n]) : F[n][j] = s[i]
      BY <3>1, <3>3, <3>4, <3>7, <3>8
    <3>11. ASSUME Once, NEW j \in 1..Len(F[n]), NEW k \in 1..Len(F[n]), F[n][j] = F[n][k], F[n][j] \in K
           PROVE  j = k
      <4>1. \A i \in 1..Len(s) : s[i] = s[n] /\ s[i] \in K => i = n
        BY <3>11, <1>2
      <4>2. \A i \in 1..Len(q) : q[i] \in K => q[i] # s[n]
        BY <4>1, <3>4, <3>5
      <4>3. \A i \in 1..Len(q), h \in 1..Len(q) : q[i] = q[h] /\ q[i] \in K => i = h
        BY <3>4, <3>11
      <4>4. (j = Len(q) + 1 \/ j \in 1..Len(q)) /\ (k = Len(q) + 1 \/ k \in 1..Len(q))
        BY <3>3, <3>6, <3>11
      <4>5. CASE j \in 1..Len(q) /\ k \in 1..Len(q)
        BY <4>3, <4>5, <3>3, <3>11
      <4>6. CASE j = Len(q) + 1 \/ k = Len(q) + 1
        BY <4>2, <4>4, <4>6, <3>3, <3>11
      <4> QED BY <4>4, <4>5, <4>6
    <3> QED BY <3>3, <3>9, <3>10, <3>11
  <2> QED BY <2>3, <2>4
<1> HIDE DEF Good
<1>7. Bad = {}
  <2>1. SUFFICES ASSUME Bad # {} PROVE FALSE
    OBVIOUS
  <2>2. PICK n \in Bad : \A k \in Bad : n <= k
    <3>1. Bad \subseteq Nat
      BY <1>2
    <3> HIDE DEF Bad
    <3> QED BY <2>1, <3>1, FirstPosition
  <2>3. n \in 1..Len(s) /\ n - 1 \in 0..Len(s) /\ ~(n <= n - 1)
    BY <2>2, <1>2, <1>5
  <2>4. Good(n - 1)
    BY <2>2, <2>3
  <2> QED BY <2>2, <2>3, <2>4, <1>6
<1>8. Good(Len(s))
  BY <1>2, <1>7
<1> DEFINE r == F[Len(s)]
<1>9. /\ r \in Seq(T)
      /\ \A j \in 1..Len(r) : \E i \in 1..Len(s) : s[i] \in S /\ r[j] = s[i]
      /\ \A i \in 1..Len(s) : s[i] \in S => \E j \in 1..Len(r) : r[j] = s[i]
      /\ Once => \A j, k \in 1..Len(r) : r[j] = r[k] /\ r[j] \in K => j = k
  BY <1>8 DEF Good
<1> HIDE DEF r
<1>10. DOMAIN r = 1..Len(r)
  BY <1>9, LenProperties
<1>11. ToSet(r) = ToSet(s) \cap S
  <2>1. \A e : e \in ToSet(r) <=> \E j \in 1..Len(r) : r[j] = e
    BY <1>10 DEF ToSet
  <2>2. \A e : e \in ToSet(s) <=> \E i \in 1..Len(s) : s[i] = e
    BY <1>2 DEF ToSet
  <2>3. ASSUME NEW e \in ToSet(r)
        PROVE  e \in ToSet(s) /\ e \in S
    <3>1. PICK j \in 1..Len(r) : r[j] = e
      BY <2>1
    <3>2. PICK i \in 1..Len(s) : s[i] \in S /\ r[j] = s[i]
      BY <1>9
    <3> QED BY <3>1, <3>2, <2>2
  <2>4. ASSUME NEW e \in ToSet(s), e \in S
        PROVE  e \in ToSet(r)
    <3>1. PICK i \in 1..Len(s) : s[i] = e
      BY <2>2
    <3>2. PICK j \in 1..Len(r) : r[j] = s[i]
      BY <1>9, <2>4, <3>1
    <3> QED BY <3>1, <3>2, <2>1
  <2> QED BY <2>3, <2>4
<1>12. Those(s, S) = r
  BY <1>1 DEF r
<1>13. Once <=> OnceIn(s, K)
  BY DEF OnceIn
<1>14. (\A j, k \in 1..Len(r) : r[j] = r[k] /\ r[j] \in K => j = k) <=> OnceIn(r, K)
  BY DEF OnceIn
<1> QED BY <1>9, <1>11, <1>12, <1>13, <1>14

\* Each is kept once, if it stands there once.
LEMMA Kept ==
  ASSUME NEW T, NEW s \in Seq(T), NEW S
  PROVE  /\ Those(s, S) \in Seq(T)
         /\ ToSet(Those(s, S)) = ToSet(s) \cap S
         /\ IsInjective(s) => IsInjective(Those(s, S))
<1>1. /\ Those(s, S) \in Seq(T)
      /\ ToSet(Those(s, S)) = ToSet(s) \cap S
      /\ OnceIn(s, T) => OnceIn(Those(s, S), T)
  BY KeptOnce
<1>2. \A q \in Seq(T) : OnceIn(q, T) <=> IsInjective(q)
  <2>1. ASSUME NEW q \in Seq(T)
        PROVE  OnceIn(q, T) <=> IsInjective(q)
    <3>1. DOMAIN q = 1..Len(q) /\ \A i \in 1..Len(q) : q[i] \in T
      BY LenProperties, ElementOfSeq
    <3> QED BY <3>1 DEF OnceIn, IsInjective
  <2> QED BY <2>1
<1> QED BY <1>1, <1>2

\* The recursion that Those stands for.
LEMMA ThoseSteps ==
  ASSUME NEW s, NEW S, Len(s) \in Nat
  PROVE  \E f : Keeps(f, Len(s), s, S) /\ Those(s, S) = f[Len(s)]
<1> DEFINE F == CHOOSE f : Keeps(f, Len(s), s, S)
<1>1. Those(s, S) = F[Len(s)]
  BY DEF Those, Keeps
<1>2. Keeps(F, Len(s), s, S)
  BY KeepsExists
<1> QED BY <1>1, <1>2

\* Of nothing nothing is kept.
LEMMA NothingKept ==
  ASSUME NEW s, NEW S, Len(s) = 0
  PROVE  Those(s, S) = <<>>
<1>1. PICK f : Keeps(f, Len(s), s, S) /\ Those(s, S) = f[Len(s)]
  BY ThoseSteps
<1>2. f[0] = <<>>
  BY <1>1 DEF Keeps
<1> QED BY <1>1, <1>2

\* With one more element, that one is kept or not.
LEMMA KeptNext ==
  ASSUME NEW T, NEW s \in Seq(T), NEW e \in T, NEW S
  PROVE  Those(Append(s, e), S) = IF e \in S THEN Append(Those(s, S), e) ELSE Those(s, S)
<1> DEFINE r == Append(s, e)
           n == Len(s)
<1>1. n \in Nat /\ Len(r) = n + 1 /\ r[n + 1] = e
  BY Joined
<1>2. \A i \in 1..n : r[i] = s[i]
  BY Joined
<1>3. PICK F : Keeps(F, n, s, S) /\ Those(s, S) = F[n]
  BY <1>1, ThoseSteps
<1> HIDE DEF r
<1>4. PICK G : Keeps(G, n + 1, r, S) /\ Those(r, S) = G[n + 1]
  <2>1. Len(r) \in Nat
    BY <1>1
  <2>2. PICK g : Keeps(g, Len(r), r, S) /\ Those(r, S) = g[Len(r)]
    BY <2>1, ThoseSteps
  <2> QED BY <2>2, <1>1
<1> HIDE DEF n
<1>5. \A k \in 0..n :
        F[k] = IF k = 0 THEN <<>> ELSE IF s[k] \in S THEN Append(F[k - 1], s[k]) ELSE F[k - 1]
  BY <1>3 DEF Keeps
<1>6. \A k \in 0..n + 1 :
        G[k] = IF k = 0 THEN <<>> ELSE IF r[k] \in S THEN Append(G[k - 1], r[k]) ELSE G[k - 1]
  BY <1>4 DEF Keeps
<1> DEFINE Bad == {k \in 0..n : F[k] # G[k]}
<1>7. Bad = {}
  <2>1. SUFFICES ASSUME Bad # {} PROVE FALSE
    OBVIOUS
  <2>2. PICK k \in Bad : \A j \in Bad : k <= j
    <3>1. Bad \subseteq Nat
      BY <1>1
    <3> HIDE DEF Bad
    <3> QED BY <2>1, <3>1, FirstPosition
  <2>3. k \in 0..n /\ k \in 0..n + 1 /\ F[k] # G[k]
    BY <1>1
  <2>4. k # 0
    BY <1>1, <1>5, <1>6, <2>3
  <2>5. k \in 1..n /\ k - 1 \in 0..n /\ ~(k <= k - 1)
    BY <1>1, <2>3, <2>4
  <2>6. F[k - 1] = G[k - 1]
    BY <2>2, <2>5
  <2>7. s[k] = r[k]
    BY <1>2, <2>5
  <2> QED BY <1>5, <1>6, <2>3, <2>4, <2>6, <2>7
<1>8. F[n] = G[n]
  BY <1>1, <1>7
<1>9. G[n + 1] = IF r[n + 1] \in S THEN Append(G[n], r[n + 1]) ELSE G[n]
  <2>1. n + 1 \in 0..n + 1 /\ n + 1 # 0 /\ (n + 1) - 1 = n
    BY <1>1
  <2> QED BY <1>6, <2>1
<1>10. Those(r, S) = IF e \in S THEN Append(Those(s, S), e) ELSE Those(s, S)
  BY <1>1, <1>3, <1>4, <1>8, <1>9
<1> QED BY <1>10 DEF r

\* To append at the end of the second of two lists is to append to both together.
LEMMA ConcatAppend ==
  ASSUME NEW T, NEW s \in Seq(T), NEW u \in Seq(T), NEW e \in T
  PROVE  s \o Append(u, e) = Append(s \o u, e)
<1> DEFINE m == <<e>>
<1>1. m \in Seq(T)
  OBVIOUS
<1>2. s \o u \in Seq(T)
  BY ConcatProperties
<1>3. Append(u, e) = u \o m /\ Append(s \o u, e) = (s \o u) \o m
  BY <1>2, AppendIsConcat
<1> HIDE DEF m
<1>4. (s \o u) \o m = s \o (u \o m)
  BY <1>1, ConcatAssociative
<1> QED BY <1>3, <1>4

\* What is kept of two lists, one after the other.
LEMMA KeptOfBoth ==
  ASSUME NEW T, NEW s \in Seq(T), NEW u \in Seq(T), NEW S
  PROVE  Those(s \o u, S) = Those(s, S) \o Those(u, S)
<1> DEFINE P(n) == SubSeq(u, 1, n)
           Good(n) == Those(s \o P(n), S) = Those(s, S) \o Those(P(n), S)
           Bad == {n \in 0..Len(u) : ~Good(n)}
<1>1. Len(u) \in Nat /\ \A n \in 1..Len(u) : u[n] \in T
  BY LenProperties, ElementOfSeq
<1>2. ASSUME NEW n \in 0..Len(u)
      PROVE  /\ P(n) \in Seq(T) /\ Len(P(n)) = n
             /\ \A i \in 1..n : P(n)[i] = u[i]
  <2>1. 1 \in 1..Len(u) + 1 /\ n \in Int
    BY <1>1
  <2>2. /\ P(n) \in Seq(T)
        /\ Len(P(n)) = IF 1 <= n THEN n - 1 + 1 ELSE 0
        /\ \A i \in 1..n - 1 + 1 : P(n)[i] = u[1 + i - 1]
    BY ONLY <2>1, PartOf, u \in Seq(T), n \in 0..Len(u)
  <2> QED BY <1>1, <2>2
<1>3. Those(s, S) \in Seq(T) /\ \A q \in Seq(T) : Those(q, S) \in Seq(T)
  BY Kept
<1>4. P(Len(u)) = u
  <2>1. Len(u) \in 0..Len(u)
    BY <1>1
  <2>2. /\ P(Len(u)) \in Seq(T) /\ Len(P(Len(u))) = Len(u)
        /\ \A i \in 1..Len(u) : P(Len(u))[i] = u[i]
    BY <1>2, <2>1
  <2> HIDE DEF P
  <2> QED BY <2>2, SeqEqual
<1>5. Good(0)
  <2>1. 0 \in 0..Len(u)
    BY <1>1
  <2>2. P(0) \in Seq(T) /\ Len(P(0)) = 0
    BY <1>2, <2>1
  <2>3. Those(P(0), S) = <<>>
    BY <2>2, NothingKept
  <2>4. P(0) = <<>>
    BY <2>2, EmptySeq
  <2>5. s \o <<>> = s /\ Those(s, S) \o <<>> = Those(s, S)
    BY <1>3, ConcatEmptySeq
  <2> HIDE DEF P
  <2> QED BY <2>3, <2>4, <2>5
<1> HIDE DEF P
<1>6. ASSUME NEW n \in 1..Len(u), Good(n - 1)
      PROVE  Good(n)
  <2> DEFINE p == P(n - 1)
  <2>1. n - 1 \in 0..Len(u) /\ n \in 0..Len(u) /\ (n - 1) + 1 = n
    BY <1>1
  <2>2. /\ p \in Seq(T) /\ Len(p) = n - 1 /\ \A i \in 1..n - 1 : p[i] = u[i]
        /\ P(n) \in Seq(T) /\ Len(P(n)) = n /\ \A i \in 1..n : P(n)[i] = u[i]
        /\ u[n] \in T
    BY <1>1, <1>2, <2>1
  <2>3. Those(s \o p, S) = Those(s, S) \o Those(p, S)
    BY <1>6
  <2> HIDE DEF p
  <2>4. P(n) = Append(p, u[n])
    <3>1. /\ Append(p, u[n]) \in Seq(T) /\ Len(Append(p, u[n])) = n
          /\ Append(p, u[n])[n] = u[n]
          /\ \A i \in 1..n - 1 : Append(p, u[n])[i] = u[i]
      BY <2>1, <2>2, Joined
    <3>2. \A i \in 1..n : i = n \/ i \in 1..n - 1
      OBVIOUS
    <3>3. \A i \in 1..n : Append(p, u[n])[i] = P(n)[i]
      BY <2>2, <3>1, <3>2
    <3> DEFINE a == Append(p, u[n])
    <3> HIDE DEF a
    <3>4. a \in Seq(T) /\ Len(a) = n /\ \A i \in 1..n : a[i] = P(n)[i]
      BY <3>1, <3>3 DEF a
    <3>5. a = P(n)
      BY <3>4, <2>2, SeqEqual
    <3> QED BY <3>5 DEF a
  <2>5. s \o P(n) = Append(s \o p, u[n])
    BY <2>2, <2>4, ConcatAppend
  <2>6. s \o p \in Seq(T) /\ Those(p, S) \in Seq(T)
    BY <1>3, <2>2, ConcatProperties
  <2> DEFINE sp == s \o p
             a == Those(s, S)
             b == Those(p, S)
             e == u[n]
  <2>7. /\ Those(sp, S) = a \o b /\ sp \in Seq(T) /\ a \in Seq(T) /\ b \in Seq(T) /\ e \in T
        /\ P(n) = Append(p, e) /\ s \o P(n) = Append(sp, e)
    BY <1>3, <2>2, <2>3, <2>4, <2>5, <2>6
  <2> HIDE DEF e, sp
  <2>8. Those(Append(p, e), S) = IF e \in S THEN Append(Those(p, S), e) ELSE Those(p, S)
    <3>1. p \in Seq(T) /\ e \in T
      BY <2>2, <2>7
    <3> QED BY ONLY <3>1, KeptNext
  <2>9. Those(Append(sp, e), S) = IF e \in S THEN Append(Those(sp, S), e) ELSE Those(sp, S)
    <3>1. sp \in Seq(T) /\ e \in T
      BY <2>7
    <3> QED BY ONLY <3>1, KeptNext
  <2>10. a \o Append(b, e) = Append(a \o b, e)
    <3>1. a \in Seq(T) /\ b \in Seq(T) /\ e \in T
      BY <2>7
    <3> HIDE DEF a, b
    <3> QED BY ONLY <3>1, ConcatAppend
  <2>11. Those(s \o P(n), S) = a \o Those(P(n), S)
    BY <2>7, <2>8, <2>9, <2>10
  <2> QED BY <2>11 DEF a
<1> HIDE DEF Good
<1>7. Bad = {}
  <2>1. SUFFICES ASSUME Bad # {} PROVE FALSE
    OBVIOUS
  <2>2. PICK n \in Bad : \A k \in Bad : n <= k
    <3>1. Bad \subseteq Nat
      BY <1>1
    <3> HIDE DEF Bad
    <3> QED BY <2>1, <3>1, FirstPosition
  <2>3. n # 0
    BY <1>5
  <2>4. n \in 1..Len(u) /\ n - 1 \in 0..Len(u) /\ ~(n <= n - 1)
    BY <1>1, <2>3
  <2>5. Good(n - 1)
    BY <2>2, <2>4
  <2> QED BY <2>2, <2>4, <2>5, <1>6
<1>8. Good(Len(u))
  BY <1>1, <1>7
<1> QED BY <1>4, <1>8 DEF Good

\* Where all are wanted all are kept, where none is none.
LEMMA AllKept ==
  ASSUME NEW T, NEW s \in Seq(T), NEW S
  PROVE  /\ (\A i \in 1..Len(s) : s[i] \in S) => Those(s, S) = s
         /\ (\A i \in 1..Len(s) : s[i] \notin S) => Those(s, S) = <<>>
<1>1. Len(s) \in Nat /\ \A i \in 1..Len(s) : s[i] \in T
  BY LenProperties, ElementOfSeq
<1>2. PICK f : Keeps(f, Len(s), s, S) /\ Those(s, S) = f[Len(s)]
  BY <1>1, ThoseSteps
<1>3. \A n \in 0..Len(s) :
        f[n] = IF n = 0 THEN <<>> ELSE IF s[n] \in S THEN Append(f[n - 1], s[n]) ELSE f[n - 1]
  BY <1>2 DEF Keeps
<1>4. ASSUME \A i \in 1..Len(s) : s[i] \in S
      PROVE  Those(s, S) = s
  <2> DEFINE Fits(q, n) == q \in Seq(T) /\ Len(q) = n /\ \A i \in 1..n : q[i] = s[i]
             Good(n) == Fits(f[n], n)
             Bad == {n \in 0..Len(s) : ~Good(n)}
  <2>1. Good(0)
    <3>1. f[0] = <<>>
      BY <1>1, <1>3
    <3>2. f[0] \in Seq(T) /\ Len(f[0]) = 0
      BY <3>1, EmptySeq
    <3> QED BY <3>2
  <2>2. ASSUME NEW n \in 1..Len(s), Good(n - 1)
        PROVE  Good(n)
    <3> DEFINE q == f[n - 1]
    <3>0. n \in 0..Len(s) /\ n # 0 /\ s[n] \in S
      BY <1>1, <1>4
    <3>1. f[n] = Append(q, s[n]) /\ s[n] \in T
      BY <1>1, <1>3, <3>0
    <3>2. q \in Seq(T) /\ Len(q) = n - 1 /\ \A i \in 1..n - 1 : q[i] = s[i]
      BY <2>2
    <3> HIDE DEF q
    <3>3. /\ Append(q, s[n]) \in Seq(T) /\ Len(Append(q, s[n])) = Len(q) + 1
          /\ Append(q, s[n])[Len(q) + 1] = s[n]
          /\ \A i \in 1..Len(q) : Append(q, s[n])[i] = q[i]
      BY <3>1, <3>2, Joined
    <3>4. n \in Int /\ (n - 1) + 1 = n /\ \A i \in 1..n : i = n \/ i \in 1..n - 1
      BY <1>1
    <3> DEFINE r == Append(q, s[n])
    <3> HIDE DEF r
    <3>5. r \in Seq(T) /\ Len(r) = n /\ r[n] = s[n] /\ \A i \in 1..n - 1 : r[i] = s[i]
      BY <3>2, <3>3, <3>4 DEF r
    <3>6. Fits(r, n)
      BY <3>4, <3>5
    <3>7. f[n] = r
      BY <3>1 DEF r
    <3> HIDE DEF Fits
    <3> QED BY <3>6, <3>7
  <2> HIDE DEF Good
  <2>3. Bad = {}
    <3>1. SUFFICES ASSUME Bad # {} PROVE FALSE
      OBVIOUS
    <3>2. PICK n \in Bad : \A k \in Bad : n <= k
      <4>1. Bad \subseteq Nat
        BY <1>1
      <4> HIDE DEF Bad
      <4> QED BY <3>1, <4>1, FirstPosition
    <3>3. n # 0
      BY <2>1
    <3>4. n \in 1..Len(s) /\ n - 1 \in 0..Len(s) /\ ~(n <= n - 1)
      BY <1>1, <3>3
    <3>5. Good(n - 1)
      BY <3>2, <3>4
    <3> QED BY <3>2, <3>4, <3>5, <2>2
  <2>4. Good(Len(s))
    BY <1>1, <2>3
  <2> DEFINE r == f[Len(s)]
  <2>5. r \in Seq(T) /\ Len(r) = Len(s) /\ \A i \in 1..Len(s) : r[i] = s[i]
    BY <2>4 DEF Good
  <2> HIDE DEF r
  <2>6. r = s
    BY <2>5, SeqEqual
  <2> QED BY <1>2, <2>6 DEF r
<1>5. ASSUME \A i \in 1..Len(s) : s[i] \notin S
      PROVE  Those(s, S) = <<>>
  <2> DEFINE q == Those(s, S)
  <2>1. q \in Seq(T) /\ ToSet(q) = ToSet(s) \cap S
    BY Kept
  <2> HIDE DEF q
  <2>2. DOMAIN q = 1..Len(q) /\ DOMAIN s = 1..Len(s) /\ Len(q) \in Nat
    BY <2>1, LenProperties
  <2>3. \A e \in ToSet(s) : e \notin S
    BY <1>5, <2>2 DEF ToSet
  <2>4. ToSet(q) = {}
    BY <2>1, <2>3
  <2>5. \A i \in 1..Len(q) : q[i] \in ToSet(q)
    BY <2>2 DEF ToSet
  <2>6. Len(q) = 0
    BY <2>2, <2>4, <2>5
  <2> QED BY <2>1, <2>6, EmptySeq DEF q
<1> QED BY <1>4, <1>5

\* A list of one.
LEMMA Single ==
  ASSUME NEW T, NEW e \in T, NEW S
  PROVE  /\ <<e>> \in Seq(T) /\ Len(<<e>>) = 1 /\ <<e>>[1] = e /\ DOMAIN <<e>> = 1..1
         /\ Those(<<e>>, S) = IF e \in S THEN <<e>> ELSE <<>>
<1> DEFINE m == <<e>>
<1>1. m \in Seq(T) /\ Len(m) = 1 /\ m[1] = e /\ DOMAIN m = 1..1
  OBVIOUS
<1> HIDE DEF m
<1>2. \A i \in 1..Len(m) : m[i] = e
  BY <1>1
<1>3. /\ (\A i \in 1..Len(m) : m[i] \in S) => Those(m, S) = m
      /\ (\A i \in 1..Len(m) : m[i] \notin S) => Those(m, S) = <<>>
  BY <1>1, AllKept
<1>4. Those(m, S) = IF e \in S THEN m ELSE <<>>
  BY <1>2, <1>3
<1> QED BY <1>1, <1>4 DEF m

\* What stands where in two lists, one after the other.
LEMMA BothLists ==
  ASSUME NEW T, NEW s \in Seq(T), NEW u \in Seq(T)
  PROVE  /\ s \o u \in Seq(T) /\ Len(s \o u) = Len(s) + Len(u)
         /\ Len(s) \in Nat /\ Len(u) \in Nat /\ DOMAIN (s \o u) = 1..Len(s) + Len(u)
         /\ \A i \in 1..Len(s) : (s \o u)[i] = s[i]
         /\ \A i \in 1..Len(u) : (s \o u)[Len(s) + i] = u[i]
         /\ \A i \in 1..Len(s) + Len(u) :
              \/ i \in 1..Len(s) /\ (s \o u)[i] = s[i]
              \/ i - Len(s) \in 1..Len(u) /\ (s \o u)[i] = u[i - Len(s)]
<1> DEFINE r == s \o u
<1>1. /\ r \in Seq(T) /\ Len(r) = Len(s) + Len(u)
      /\ \A i \in 1..Len(s) + Len(u) : r[i] = IF i <= Len(s) THEN s[i] ELSE u[i - Len(s)]
  BY ConcatProperties
<1>2. Len(s) \in Nat /\ Len(u) \in Nat
  BY LenProperties
<1> HIDE DEF r
<1>3. DOMAIN r = 1..Len(s) + Len(u)
  BY <1>1, LenProperties
<1>4. \A i \in 1..Len(s) : r[i] = s[i]
  BY <1>1, <1>2
<1>5. ASSUME NEW i \in 1..Len(u)
      PROVE  r[Len(s) + i] = u[i]
  <2>1. /\ Len(s) + i \in 1..Len(s) + Len(u) /\ ~(Len(s) + i <= Len(s))
        /\ (Len(s) + i) - Len(s) = i
    BY <1>2
  <2> QED BY <2>1, <1>1
<1>6. ASSUME NEW i \in 1..Len(s) + Len(u)
      PROVE  \/ i \in 1..Len(s) /\ r[i] = s[i]
             \/ i - Len(s) \in 1..Len(u) /\ r[i] = u[i - Len(s)]
  <2>1. CASE i <= Len(s)
    BY <2>1, <1>1, <1>2
  <2>2. CASE ~(i <= Len(s))
    BY <2>2, <1>1, <1>2
  <2> QED BY <2>1, <2>2
<1> QED BY <1>1, <1>2, <1>3, <1>4, <1>5, <1>6 DEF r

\* A list is its first element and the rest.
LEMMA OneAndRest ==
  ASSUME NEW T, NEW s \in Seq(T), NEW one \in Seq(T), NEW rest \in Seq(T),
         Len(s) \in Nat \ {0}, Len(one) = 1, one[1] = s[1],
         Len(rest) = Len(s) - 1, \A i \in 1..Len(s) - 1 : rest[i] = s[i + 1]
  PROVE  one \o rest = s
<1> DEFINE r == one \o rest
<1>1. /\ r \in Seq(T) /\ Len(r) = Len(one) + Len(rest)
      /\ \A i \in 1..Len(one) : r[i] = one[i]
      /\ \A i \in 1..Len(rest) : r[Len(one) + i] = rest[i]
  BY BothLists
<1> HIDE DEF r
<1>2. Len(r) = Len(s)
  BY <1>1
<1>3. ASSUME NEW i \in 1..Len(r)
      PROVE  r[i] = s[i]
  <2>1. CASE i = 1
    BY <2>1, <1>1
  <2>2. CASE i # 1
    <3>1. i - 1 \in 1..Len(rest) /\ 1 + (i - 1) = i /\ (i - 1) + 1 = i
      BY <2>2, <1>2
    <3>2. r[1 + (i - 1)] = rest[i - 1] /\ rest[i - 1] = s[(i - 1) + 1]
      BY <1>1, <3>1
    <3> QED BY <3>1, <3>2
  <2> QED BY <2>1, <2>2
<1>4. r = s
  BY <1>1, <1>2, <1>3, SeqEqual
<1> QED BY <1>4 DEF r

\* Two lists without a common element of K.
LEMMA OnceInBoth ==
  ASSUME NEW T, NEW s \in Seq(T), NEW u \in Seq(T), NEW K,
         OnceIn(s, K), OnceIn(u, K),
         \A i \in 1..Len(s), j \in 1..Len(u) : s[i] \in K => s[i] # u[j]
  PROVE  OnceIn(s \o u, K)
<1> DEFINE r == s \o u
<1>1. /\ Len(r) = Len(s) + Len(u) /\ Len(s) \in Nat /\ Len(u) \in Nat
      /\ \A i \in 1..Len(s) + Len(u) :
              \/ i \in 1..Len(s) /\ r[i] = s[i]
              \/ i - Len(s) \in 1..Len(u) /\ r[i] = u[i - Len(s)]
  BY BothLists
<1> HIDE DEF r
<1>2. ASSUME NEW i \in 1..Len(r), NEW j \in 1..Len(r), r[i] = r[j], r[i] \in K
      PROVE  i = j
  <2>1. /\ i \in Int /\ j \in Int /\ Len(s) \in Int
        /\ (i \in 1..Len(s) /\ r[i] = s[i]) \/ (i - Len(s) \in 1..Len(u) /\ r[i] = u[i - Len(s)])
        /\ (j \in 1..Len(s) /\ r[j] = s[j]) \/ (j - Len(s) \in 1..Len(u) /\ r[j] = u[j - Len(s)])
    BY <1>1
  <2>2. CASE i \in 1..Len(s) /\ r[i] = s[i] /\ j \in 1..Len(s) /\ r[j] = s[j]
    BY <1>2, <2>2 DEF OnceIn
  <2>3. CASE /\ i - Len(s) \in 1..Len(u) /\ r[i] = u[i - Len(s)]
             /\ j - Len(s) \in 1..Len(u) /\ r[j] = u[j - Len(s)]
    <3>1. i - Len(s) = j - Len(s)
      BY <1>2, <2>3 DEF OnceIn
    <3> QED BY <2>1, <3>1
  <2>4. CASE i \in 1..Len(s) /\ r[i] = s[i] /\ j - Len(s) \in 1..Len(u) /\ r[j] = u[j - Len(s)]
    BY <1>2, <2>4
  <2>5. CASE i - Len(s) \in 1..Len(u) /\ r[i] = u[i - Len(s)] /\ j \in 1..Len(s) /\ r[j] = s[j]
    BY <1>2, <2>5
  <2> QED BY <2>1, <2>2, <2>3, <2>4, <2>5
<1> QED BY <1>2 DEF OnceIn, r
=============================================================================
