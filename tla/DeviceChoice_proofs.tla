-------------------------- MODULE DeviceChoice_proofs --------------------------
(***************************************************************************)
(* Proofs about which device gets what.  DeviceCommands and RoutingPolicy: *)
(* whatever is asked of however many devices, the gateway knows the        *)
(* pictures it has drawn over a link that lasts, and a text goes to the    *)
(* devices its length calls for.  Attention: whatever the devices, the     *)
(* priorities and the configuration, one device is attended to, nobody     *)
(* waits for attention that nobody has, and no device waits twice.         *)
(***************************************************************************)
EXTENDS DeviceCommands, Attention, FiniteSetTheorems, SequenceLemmas

-----------------------------------------------------------------------------
(* The devices of a dict.                                                  *)

\* A device that joins the dict stands in it once.
LEMMA JoinedOnce ==
  ASSUME NEW S, NEW q \in Seq(S), IsInjective(q), NEW d \in S, d \notin ToSet(q)
  PROVE  /\ Append(q, d) \in Seq(S) /\ IsInjective(Append(q, d))
         /\ ToSet(Append(q, d)) = ToSet(q) \cup {d}
<1> DEFINE r == Append(q, d)
<1>1. /\ r \in Seq(S) /\ Len(q) \in Nat /\ DOMAIN q = 1..Len(q) /\ DOMAIN r = 1..Len(q) + 1
      /\ r[Len(q) + 1] = d /\ \A i \in 1..Len(q) : r[i] = q[i]
  BY Joined
<1> HIDE DEF r
<1>2. \A i \in 1..Len(q) : q[i] # d
  BY <1>1 DEF ToSet
<1>3. \A i \in 1..Len(q) + 1 : i \in 1..Len(q) \/ i = Len(q) + 1
  BY <1>1
<1>4. \A i \in 1..Len(q) : i \in 1..Len(q) + 1
  BY <1>1
<1>5. \A i, j \in 1..Len(q) : q[i] = q[j] => i = j
  BY <1>1 DEF IsInjective
<1>6. IsInjective(r)
  BY <1>1, <1>2, <1>3, <1>5 DEF IsInjective
<1>7. \A e : e \in ToSet(r) <=> e \in ToSet(q) \cup {d}
  <2>1. ToSet(r) = {r[i] : i \in 1..Len(q) + 1} /\ ToSet(q) = {q[i] : i \in 1..Len(q)}
    BY <1>1 DEF ToSet
  <2>2. Len(q) + 1 \in 1..Len(q) + 1
    BY <1>1
  <2> QED BY <1>1, <1>3, <1>4, <2>1, <2>2
<1> QED BY <1>1, <1>6, <1>7 DEF r

\* The last of a list is in it, and is what was appended.
LEMMA LastOne ==
  ASSUME NEW S, NEW q \in Seq(S)
  PROVE  /\ q # <<>> => Last(q) \in ToSet(q)
         /\ \A e \in S : Last(Append(q, e)) = e
<1>1. Len(q) \in Nat /\ DOMAIN q = 1..Len(q) /\ (q # <<>> => Len(q) # 0)
  BY LenProperties, EmptySeq
<1>2. ASSUME q # <<>> PROVE Last(q) \in ToSet(q)
  <2>1. Len(q) \in DOMAIN q
    BY <1>1, <1>2
  <2> QED BY <2>1 DEF Last, ToSet
<1>3. ASSUME NEW e \in S PROVE Last(Append(q, e)) = e
  <2>1. Len(Append(q, e)) = Len(q) + 1 /\ Append(q, e)[Len(q) + 1] = e
    BY Joined
  <2> QED BY <2>1 DEF Last
<1> QED BY <1>2, <1>3

\* The head of a list that has none twice is taken.
LEMMA HeadOut ==
  ASSUME NEW S, NEW q \in Seq(S), IsInjective(q), q # <<>>
  PROVE  /\ Tail(q) \in Seq(S) /\ IsInjective(Tail(q)) /\ Head(q) \in ToSet(q)
         /\ ToSet(Tail(q)) = ToSet(q) \ {Head(q)}
         /\ Last(q) = IF Tail(q) = <<>> THEN Head(q) ELSE Last(Tail(q))
<1> DEFINE r == Tail(q)
           n == Len(q)
<1>1. /\ r \in Seq(S) /\ Len(r) = n - 1 /\ n \in Nat \ {0} /\ Head(q) = q[1]
      /\ DOMAIN q = 1..n /\ DOMAIN r = 1..n - 1 /\ \A i \in 1..n - 1 : r[i] = q[i + 1]
  BY FirstTaken
<1>2. r = <<>> <=> n = 1
  BY <1>1, EmptySeq
<1> HIDE DEF r, n
<1>3. \A i, j \in 1..n : q[i] = q[j] => i = j
  BY <1>1 DEF IsInjective
<1>4. \A i \in 1..n - 1 : i + 1 \in 1..n /\ i + 1 # 1
  BY <1>1
<1>5. IsInjective(r)
  <2>1. ASSUME NEW i \in 1..n - 1, NEW j \in 1..n - 1, r[i] = r[j] PROVE i = j
    <3>1. i + 1 = j + 1
      BY <1>1, <1>3, <1>4, <2>1
    <3> QED BY <1>1, <3>1
  <2> QED BY <1>1, <2>1 DEF IsInjective
<1>6. \A e : e \in ToSet(r) <=> e \in ToSet(q) /\ e # q[1]
  <2>1. ToSet(r) = {r[i] : i \in 1..n - 1} /\ ToSet(q) = {q[i] : i \in 1..n}
    BY <1>1 DEF ToSet
  <2>2. \A i \in 1..n : i = 1 \/ (i - 1 \in 1..n - 1 /\ (i - 1) + 1 = i)
    BY <1>1
  <2>3. ASSUME NEW e \in ToSet(r) PROVE e \in ToSet(q) /\ e # q[1]
    <3>1. PICK i \in 1..n - 1 : e = q[i + 1]
      BY <1>1, <2>1
    <3>2. 1 \in 1..n
      BY <1>1
    <3> QED BY <1>3, <1>4, <2>1, <3>1, <3>2
  <2>4. ASSUME NEW e \in ToSet(q), e # q[1] PROVE e \in ToSet(r)
    <3>1. PICK i \in 1..n : e = q[i]
      BY <2>1
    <3>2. i - 1 \in 1..n - 1 /\ r[i - 1] = e
      BY <1>1, <2>2, <2>4, <3>1
    <3> QED BY <2>1, <3>2
  <2> QED BY <2>3, <2>4
<1>7. q[1] \in ToSet(q)
  BY <1>1 DEF ToSet
<1>8. Last(q) = IF r = <<>> THEN q[1] ELSE Last(r)
  <2>1. Last(q) = q[n] /\ Last(r) = r[n - 1]
    BY <1>1 DEF Last, n
  <2>2. n # 1 => n - 1 \in 1..n - 1 /\ (n - 1) + 1 = n
    BY <1>1
  <2> QED BY <1>1, <1>2, <2>1, <2>2
<1> QED BY <1>1, <1>5, <1>6, <1>7, <1>8 DEF r

-----------------------------------------------------------------------------
(* RoutingPolicy: what is chosen.                                          *)

\* The first of several devices, or none of none.
LEMMA FirstChosen ==
  ASSUME NEW S, NEW q \in Seq(S)
  PROVE  /\ FirstOf(q) \in Seq(S)
         /\ ToSet(FirstOf(q)) \subseteq ToSet(q)
         /\ IsFiniteSet(ToSet(FirstOf(q))) /\ Cardinality(ToSet(FirstOf(q))) <= 1
         /\ q = <<>> <=> ToSet(q) = {}
         /\ q # <<>> => ToSet(FirstOf(q)) # {}
<1>1. CASE q = <<>>
  <2>1. FirstOf(q) = q /\ ToSet(q) = {}
    BY <1>1 DEF FirstOf, ToSet
  <2>2. IsFiniteSet(ToSet(q)) /\ Cardinality(ToSet(q)) = 0
    BY <2>1, FS_EmptySet
  <2>3. /\ FirstOf(q) \in Seq(S) /\ ToSet(FirstOf(q)) = {}
        /\ IsFiniteSet(ToSet(FirstOf(q))) /\ Cardinality(ToSet(FirstOf(q))) <= 1
    BY <2>1, <2>2
  <2> QED BY <1>1, <2>1, <2>3
<1>2. CASE q # <<>>
  <2>1. Head(q) \in S /\ Head(q) = q[1] /\ DOMAIN q = 1..Len(q) /\ Len(q) \in Nat \ {0}
    BY <1>2, FirstTaken
  <2>2. FirstOf(q) = <<q[1]>>
    BY <1>2, <2>1 DEF FirstOf
  <2>3. ToSet(FirstOf(q)) = {q[1]} /\ FirstOf(q) \in Seq(S)
    BY <2>1, <2>2 DEF ToSet
  <2>4. q[1] \in ToSet(q)
    BY <2>1 DEF ToSet
  <2>5. IsFiniteSet({q[1]}) /\ Cardinality({q[1]}) = 1
    BY FS_Singleton
  <2>6. IsFiniteSet(ToSet(FirstOf(q))) /\ Cardinality(ToSet(FirstOf(q))) <= 1
    BY <2>3, <2>5
  <2>7. ToSet(FirstOf(q)) \subseteq ToSet(q) /\ ToSet(FirstOf(q)) # {} /\ ToSet(q) # {}
    BY <2>3, <2>4
  <2> QED BY <1>2, <2>3, <2>6, <2>7
<1> QED BY <1>1, <1>2

\* Those of one list, and then those of another.
LEMMA Both ==
  ASSUME NEW S, NEW a \in Seq(S), NEW b \in Seq(S)
  PROVE  a \o b \in Seq(S) /\ ToSet(a \o b) = ToSet(a) \cup ToSet(b)
<1> DEFINE c == a \o b
<1>1. /\ c \in Seq(S) /\ Len(c) = Len(a) + Len(b)
      /\ \A j \in 1..Len(a) + Len(b) : c[j] = IF j <= Len(a) THEN a[j] ELSE b[j - Len(a)]
  BY ConcatProperties
<1>2. /\ Len(a) \in Nat /\ Len(b) \in Nat
      /\ DOMAIN a = 1..Len(a) /\ DOMAIN b = 1..Len(b)
  BY LenProperties
<1> HIDE DEF c
<1>3. DOMAIN c = 1..Len(a) + Len(b)
  BY <1>1, LenProperties
<1>4. \A e : /\ e \in ToSet(a) <=> \E i \in 1..Len(a) : a[i] = e
             /\ e \in ToSet(b) <=> \E i \in 1..Len(b) : b[i] = e
             /\ e \in ToSet(c) <=> \E i \in 1..Len(a) + Len(b) : c[i] = e
  BY <1>2, <1>3 DEF ToSet
<1>5. \A i \in 1..Len(a) : i \in 1..Len(a) + Len(b) /\ c[i] = a[i]
  BY <1>1, <1>2
<1>6. \A i \in 1..Len(b) : Len(a) + i \in 1..Len(a) + Len(b) /\ c[Len(a) + i] = b[i]
  <2> TAKE i \in 1..Len(b)
  <2>1. Len(a) + i \in 1..Len(a) + Len(b) /\ ~(Len(a) + i <= Len(a)) /\ (Len(a) + i) - Len(a) = i
    BY <1>2
  <2> QED BY <1>1, <2>1
<1>7. \A i \in 1..Len(a) + Len(b) : \/ i \in 1..Len(a) /\ c[i] = a[i]
                                    \/ i - Len(a) \in 1..Len(b) /\ c[i] = b[i - Len(a)]
  BY <1>1, <1>2
<1>8. \A e : e \in ToSet(c) <=> e \in ToSet(a) \/ e \in ToSet(b)
  <2> TAKE e
  <2>1. ASSUME e \in ToSet(a) PROVE e \in ToSet(c)
    BY <1>4, <1>5, <2>1
  <2>2. ASSUME e \in ToSet(b) PROVE e \in ToSet(c)
    BY <1>4, <1>6, <2>2
  <2>3. ASSUME e \in ToSet(c) PROVE e \in ToSet(a) \/ e \in ToSet(b)
    BY <1>4, <1>7, <2>3
  <2> QED BY <2>1, <2>2, <2>3
<1> QED BY <1>1, <1>8 DEF c

\* Of some devices, those in front and those behind.
InFront(some, c) == {d \in some : Read(c[d]).foreground}
Behind(some, c) == {d \in some : Read(c[d]).background}

\* The devices in front, and those behind.
LEMMA Placed ==
  ASSUME NEW S, NEW q \in Seq(S), NEW c
  PROVE  /\ Foreground(q, c) \in Seq(S) /\ Background(q, c) \in Seq(S)
         /\ ToSet(Foreground(q, c)) = InFront(ToSet(q), c)
         /\ ToSet(Background(q, c)) = Behind(ToSet(q), c)
<1> DEFINE F == {d \in ToSet(q) : Read(c[d]).foreground}
           B == {d \in ToSet(q) : Read(c[d]).background}
<1>1. F \subseteq ToSet(q) /\ B \subseteq ToSet(q)
  OBVIOUS
<1>2. Foreground(q, c) = Those(q, F) /\ Background(q, c) = Those(q, B)
  BY DEF Foreground, Background
<1> HIDE DEF F, B
<1>3. /\ Those(q, F) \in Seq(S) /\ ToSet(Those(q, F)) = ToSet(q) \cap F
      /\ Those(q, B) \in Seq(S) /\ ToSet(Those(q, B)) = ToSet(q) \cap B
  BY Kept
<1>4. ToSet(Foreground(q, c)) = F /\ ToSet(Background(q, c)) = B
  BY <1>1, <1>2, <1>3
<1> QED BY <1>2, <1>3, <1>4 DEF F, B, InFront, Behind

\* The devices that can speak a text.
LEMMA Fluent ==
  ASSUME NEW S, NEW q \in Seq(S), NEW c, NEW w
  PROVE  /\ Capable(q, c, w) \in Seq(S)
         /\ ToSet(Capable(q, c, w)) = {d \in ToSet(q) : CanSpeak(Read(c[d]), w)}
<1> DEFINE C == {d \in ToSet(q) : CanSpeak(Read(c[d]), w)}
<1>1. C \subseteq ToSet(q)
  OBVIOUS
<1>2. Capable(q, c, w) = Those(q, C)
  BY DEF Capable
<1> HIDE DEF C
<1>3. Those(q, C) \in Seq(S) /\ ToSet(Those(q, C)) = ToSet(q) \cap C
  BY Kept
<1>4. ToSet(Capable(q, c, w)) = C
  BY <1>1, <1>2, <1>3
<1> QED BY <1>2, <1>3, <1>4 DEF C

\* A short text: one device in front, which can speak it if there is one.
LEMMA ShortChosen ==
  ASSUME NEW S, NEW q \in Seq(S), NEW c, NEW w
  PROVE  LET CanDo(d) == CanSpeak(Read(c[d]), w)
             Primary(d) == Read(c[d]).foreground
             taken == ToSet(RouteShort(q, c, w))
         IN /\ RouteShort(q, c, w) \in Seq(S)
            /\ taken \subseteq ToSet(q) /\ Cardinality(taken) <= 1
            /\ \A d \in taken : Primary(d)
            /\ \A d \in ToSet(q) : Primary(d) => \E e \in taken : CanDo(d) => CanDo(e)
<1> DEFINE f == Foreground(q, c)
           g == Capable(f, c, w)
           CanDo(d) == CanSpeak(Read(c[d]), w)
           Primary(d) == Read(c[d]).foreground
<1>1. f \in Seq(S) /\ ToSet(f) = {d \in ToSet(q) : Primary(d)}
  <2>1. Foreground(q, c) \in Seq(S) /\ ToSet(Foreground(q, c)) = InFront(ToSet(q), c)
    BY Placed
  <2> QED BY <2>1 DEF f, Primary, InFront
<1>2. RouteShort(q, c, w) = IF g # <<>> THEN FirstOf(g) ELSE FirstOf(f)
  BY DEF RouteShort
<1> HIDE DEF f
<1>3. g \in Seq(S) /\ ToSet(g) = {d \in ToSet(f) : CanDo(d)}
  BY <1>1, Fluent
<1> HIDE DEF g, CanDo, Primary
<1>4. CASE g # <<>>
  <2>1. /\ FirstOf(g) \in Seq(S) /\ ToSet(FirstOf(g)) \subseteq ToSet(g)
        /\ Cardinality(ToSet(FirstOf(g))) <= 1 /\ ToSet(FirstOf(g)) # {}
    BY <1>3, <1>4, FirstChosen
  <2>2. PICK e \in ToSet(FirstOf(g)) : Primary(e) /\ CanDo(e)
    BY <1>1, <1>3, <2>1
  <2>3. RouteShort(q, c, w) = FirstOf(g)
    BY <1>2, <1>4
  <2> QED BY <1>1, <1>3, <2>1, <2>2, <2>3 DEF CanDo, Primary
<1>5. CASE g = <<>>
  <2>1. ToSet(g) = {}
    BY <1>3, <1>5, FirstChosen
  <2>2. /\ FirstOf(f) \in Seq(S) /\ ToSet(FirstOf(f)) \subseteq ToSet(f)
        /\ Cardinality(ToSet(FirstOf(f))) <= 1
        /\ (f = <<>> <=> ToSet(f) = {}) /\ (f # <<>> => ToSet(FirstOf(f)) # {})
    BY <1>1, FirstChosen
  <2>3. RouteShort(q, c, w) = FirstOf(f)
    BY <1>2, <1>5
  <2>4. ASSUME NEW d \in ToSet(q), Primary(d)
        PROVE  \E e \in ToSet(FirstOf(f)) : CanDo(d) => CanDo(e)
    BY <1>1, <1>3, <2>1, <2>2, <2>4
  <2> QED BY <1>1, <2>2, <2>3, <2>4 DEF CanDo, Primary
<1> QED BY <1>4, <1>5

\* A long text: devices that can speak it, every one behind, one in front if there is
\* one, one at most besides those behind, and one if there is one.
LEMMA LongChosen ==
  ASSUME NEW S, NEW q \in Seq(S), NEW c, NEW w
  PROVE  LET CanDo(d) == CanSpeak(Read(c[d]), w)
             Primary(d) == Read(c[d]).foreground
             Rear(d) == Read(c[d]).background
             taken == ToSet(RouteLong(q, c, w))
         IN /\ RouteLong(q, c, w) \in Seq(S)
            /\ taken \subseteq ToSet(q) /\ \A d \in taken : CanDo(d)
            /\ \A d \in ToSet(q) : CanDo(d) =>
                 /\ taken # {} /\ (Rear(d) => d \in taken)
                 /\ Primary(d) => \E e \in taken : Primary(e)
            /\ Cardinality({d \in taken : ~Rear(d)}) <= 1
<1> DEFINE CanDo(d) == CanSpeak(Read(c[d]), w)
           Primary(d) == Read(c[d]).foreground
           Rear(d) == Read(c[d]).background
           g == Capable(q, c, w)
           f == Foreground(g, c)
           b == Background(g, c)
           h == FirstOf(f)
<1>1. g \in Seq(S) /\ ToSet(g) = {d \in ToSet(q) : CanDo(d)}
  BY Fluent
<1>2. RouteLong(q, c, w) = IF h \o b # <<>> THEN h \o b ELSE FirstOf(g)
  BY DEF RouteLong
<1> HIDE DEF g
<1>3. /\ f \in Seq(S) /\ ToSet(f) = {d \in ToSet(g) : Primary(d)}
      /\ b \in Seq(S) /\ ToSet(b) = {d \in ToSet(g) : Rear(d)}
  <2>1. /\ Foreground(g, c) \in Seq(S) /\ Background(g, c) \in Seq(S)
        /\ ToSet(Foreground(g, c)) = InFront(ToSet(g), c)
        /\ ToSet(Background(g, c)) = Behind(ToSet(g), c)
    BY <1>1, Placed
  <2> QED BY <2>1 DEF f, b, InFront, Behind, Primary, Rear
<1> HIDE DEF f, b
<1>4. /\ h \in Seq(S) /\ ToSet(h) \subseteq ToSet(f)
      /\ IsFiniteSet(ToSet(h)) /\ Cardinality(ToSet(h)) <= 1
      /\ (f = <<>> <=> ToSet(f) = {}) /\ (f # <<>> => ToSet(h) # {})
  BY <1>3, FirstChosen
<1> HIDE DEF h, CanDo, Primary, Rear
<1>5. h \o b \in Seq(S) /\ ToSet(h \o b) = ToSet(h) \cup ToSet(b)
  BY <1>3, <1>4, Both
<1> DEFINE taken == ToSet(RouteLong(q, c, w))
<1> SUFFICES /\ RouteLong(q, c, w) \in Seq(S)
             /\ taken \subseteq ToSet(q) /\ \A d \in taken : CanDo(d)
             /\ \A d \in ToSet(q) : CanDo(d) =>
                  /\ taken # {} /\ (Rear(d) => d \in taken)
                  /\ Primary(d) => \E e \in taken : Primary(e)
             /\ Cardinality({d \in taken : ~Rear(d)}) <= 1
  BY DEF CanDo, Primary, Rear
<1>6. CASE h \o b # <<>>
  <2>1. ToSet(h \o b) # {}
    BY <1>5, <1>6, FirstChosen
  <2>2. RouteLong(q, c, w) = h \o b /\ taken = ToSet(h) \cup ToSet(b)
    BY <1>2, <1>5, <1>6
  <2> HIDE DEF taken
  <2>3. {d \in taken : ~Rear(d)} \subseteq ToSet(h)
    BY <1>3, <2>2
  <2>4. Cardinality({d \in taken : ~Rear(d)}) <= 1
    <3> DEFINE R == {d \in taken : ~Rear(d)}
    <3>1. R \subseteq ToSet(h)
      BY <2>3
    <3> HIDE DEF R
    <3>2. IsFiniteSet(R) /\ Cardinality(R) <= Cardinality(ToSet(h))
      BY <1>4, <3>1, FS_Subset
    <3>3. Cardinality(R) \in Nat /\ Cardinality(ToSet(h)) \in Nat
      BY <1>4, <3>2, FS_CardinalityType
    <3> QED BY <1>4, <3>2, <3>3 DEF R
  <2>5. taken \subseteq ToSet(g) /\ taken # {}
    BY <1>3, <1>4, <1>5, <2>1, <2>2
  <2>6. ASSUME NEW d \in ToSet(g), Primary(d) PROVE \E e \in taken : Primary(e)
    <3>1. d \in ToSet(f)
      BY <1>3, <2>6
    <3>2. PICK e \in ToSet(h) : TRUE
      BY <1>4, <3>1
    <3> QED BY <1>3, <1>4, <2>2, <3>2
  <2>7. \A d \in ToSet(g) : Rear(d) => d \in taken
    BY <1>3, <2>2
  <2>8. RouteLong(q, c, w) \in Seq(S)
    BY <1>5, <2>2
  <2> QED BY <1>1, <2>4, <2>5, <2>6, <2>7, <2>8
<1>7. CASE h \o b = <<>>
  <2>1. ToSet(h) = {} /\ ToSet(b) = {}
    BY <1>5, <1>7, FirstChosen
  <2>2. RouteLong(q, c, w) = FirstOf(g)
    BY <1>2, <1>7
  <2>3. /\ FirstOf(g) \in Seq(S) /\ ToSet(FirstOf(g)) \subseteq ToSet(g)
        /\ IsFiniteSet(ToSet(FirstOf(g))) /\ Cardinality(ToSet(FirstOf(g))) <= 1
        /\ (g = <<>> <=> ToSet(g) = {}) /\ (g # <<>> => ToSet(FirstOf(g)) # {})
    BY <1>1, FirstChosen
  <2>4. taken = ToSet(FirstOf(g))
    BY <2>2
  <2> HIDE DEF taken
  <2>5. \A d \in ToSet(g) : ~Rear(d) /\ ~Primary(d)
    BY <1>3, <1>4, <2>1
  <2>6. {d \in taken : ~Rear(d)} = taken
    BY <2>3, <2>4, <2>5
  <2> QED BY <1>1, <2>2, <2>3, <2>4, <2>5, <2>6
<1> QED BY <1>6, <1>7

\* What evaluate returns is a list of devices.
LEMMA EvaluateType ==
  ASSUME NEW S, NEW q \in Seq(S), NEW c, NEW r, r.ids \in Seq(S)
  PROVE  Evaluate(r, q, c) \in Seq(S)
<1>1. RouteShort(q, c, r.words) \in Seq(S) /\ RouteLong(q, c, r.words) \in Seq(S)
  BY ShortChosen, LongChosen
<1>2. <<>> \in Seq(S)
  BY EmptySeq
<1> QED BY <1>1, <1>2 DEF Evaluate

-----------------------------------------------------------------------------
(* What the scripts say.                                                   *)

\* What a task was asked.
LEMMA Asking ==
  ASSUME IsCourse(left), NEW t \in Task, t \in DOMAIN ask
  PROVE  /\ ask[t].kind \in {"status", "event", "play", "mute", "route"}
         /\ ask[t].kind \in {"status", "event"} => ask[t].picture \in Picture
         /\ ask[t].kind # "route" => ask[t].device \in Device
         /\ ask[t].kind = "route" => ask[t].ids \in Seq(Device)
<1>1. ask[t] \in Ask
  BY DEF IsCourse, ask
<1> QED BY <1>1 DEF Ask

\* A picture is one of the pictures, or none.
LEMMA Pictured ==
  ASSUME IsCourse(left), NEW t \in Task, t \in DOMAIN ask, NEW n \in 0..NumChunks + 1
  PROVE  PictureOf(t, n) \in Picture \cup {None}
<1>1. /\ ask[t].kind \in {"status", "event", "play", "mute", "route"}
      /\ ask[t].kind \in {"status", "event"} => ask[t].picture \in Picture
  BY Asking
<1>2. NumChunks \in Nat /\ {"Buffering", "Ready", "Speaking", "Muted"} \subseteq Picture
  BY ScriptAssumption, PictureAssumption
<1>3. n = 0 \/ n \in 1..NumChunks \/ n > NumChunks
  BY <1>2
<1> QED BY <1>1, <1>2, <1>3 DEF PictureOf

\* The script stays what it is, except for how much is still to come.
LEMMA CourseKept ==
  ASSUME IsCourse(left),
         NEW n \in Nat,
         left' \in {left, [left EXCEPT !.breaks = n], [left EXCEPT !.repacks = n], [left EXCEPT !.updates = n]}
  PROVE  IsCourse(left') /\ left'.asks = left.asks /\ left'.offers = left.offers
<1>1. /\ left \in [asks : {left.asks}, offers : {left.offers}, packed : SUBSET Device,
                   breaks : Nat, repacks : Nat, updates : Nat]
      /\ DOMAIN left.asks \subseteq Task /\ left.asks \in [DOMAIN left.asks -> Ask]
      /\ DOMAIN left.offers \subseteq Device /\ left.offers \in [DOMAIN left.offers -> Offer]
  BY DEF IsCourse
<1>2. left'.asks = left.asks /\ left'.offers = left.offers
  BY <1>1
<1>3. left' \in [asks : {left.asks}, offers : {left.offers}, packed : SUBSET Device,
                 breaks : Nat, repacks : Nat, updates : Nat]
  BY <1>1
<1> QED BY <1>1, <1>2, <1>3 DEF IsCourse

\* The devices of a dict, in any order.
LEMMA Ordering ==
  ASSUME NEW S \in SUBSET Device, NEW q \in SetToSeqs(S)
  PROVE  q \in Seq(Device) /\ IsInjective(q)
<1>1. IsFiniteSet(S) /\ Cardinality(S) \in Nat
  <2>1. IsFiniteSet(S)
    BY FiniteAssumption, FS_Subset
  <2> QED BY <2>1, FS_CardinalityType
<1>2. q \in [1..Cardinality(S) -> S] /\ \A i, j \in 1..Cardinality(S) : i # j => q[i] # q[j]
  BY DEF SetToSeqs
<1>3. q \in Seq(Device)
  BY <1>1, <1>2, IsASeq
<1> QED BY <1>2, <1>3 DEF IsInjective

-----------------------------------------------------------------------------
(* The invariant of DeviceCommands, in the two halves that its actions     *)
(* change.                                                                 *)

\* The devices, and what the gateway knows of them.
DevicesFit ==
  /\ IsCourse(left)
  /\ device_registry \in Seq(Device) /\ IsInjective(device_registry)
  /\ link \in [Device -> {"up", "dead", "none"}]
  /\ \A d \in Device : link[d] = "none" <=> d \notin Registered
  /\ pack \in [Device -> BOOLEAN]
  /\ last \in [Device -> Picture \cup {None}] /\ drain \in [Device -> Seq(Task)]
  /\ shown \in [Device -> Picture \cup {None}] /\ sure \subseteq Registered
  /\ CharacterKnown /\ ToldOnline /\ Draining

\* The tasks, and the devices they serve.
TasksFit ==
  /\ pc \in [Task -> {"new", "synthesizing", "rendering", "drawing", "awaiting", "done"}]
  /\ answer \in [Task -> {None, "ack", "no"}] /\ heard \in [Task -> BOOLEAN]
  /\ step \in [Task -> 0..NumChunks + 1] /\ todo \in [Task -> Seq(Device)]
  /\ among \in [Task -> Seq(Device)] /\ tried \in [Task -> SUBSET Device]
  /\ Serving

LEMMA Halves == CommandsInv <=> DevicesFit /\ TasksFit
BY DEF CommandsInv, TypeOK, DevicesFit, TasksFit

LEMMA HalvesNext == CommandsInv' <=> DevicesFit' /\ TasksFit'
BY Halves, PTL

\* Nobody waits for a socket that nobody waits for.
LEMMA NobodyWaits == IsInjective(<<>>) /\ ToSet(<<>>) = {}
BY DEF IsInjective, ToSet

LEMMA CommandsInit == Init => CommandsInv
<1> SUFFICES ASSUME Init PROVE CommandsInv
  OBVIOUS
<1>1. IsCourse(left) /\ NumChunks \in Nat
  BY ScriptAssumption DEF Init
<1>2. device_registry \in Seq(Device) /\ IsInjective(device_registry)
  <2>1. DOMAIN left.offers \in SUBSET Device
    BY <1>1 DEF IsCourse
  <2> QED BY <2>1, Ordering DEF Init
<1>3. Registered \subseteq Device
  BY <1>2, LenProperties, ElementOfSeq DEF Registered, ToSet
<1>4. DevicesFit
  <2>1. /\ link \in [Device -> {"up", "dead", "none"}]
        /\ \A d \in Device : link[d] = IF d \in Registered THEN "up" ELSE "none"
    BY DEF Init
  <2>2. pack \in [Device -> BOOLEAN]
    BY DEF Init
  <2>3. /\ last = [d \in Device |-> None] /\ shown = last /\ sure = Registered
    BY DEF Init
  <2>4. drain = [d \in Device |-> <<>>] /\ <<>> \in Seq(Task)
    BY EmptySeq DEF Init
  <2>5. CharacterKnown /\ ToldOnline
    BY <1>3, <2>1, <2>3, <2>4 DEF CharacterKnown, ToldOnline
  <2>6. Draining
    BY <2>4, NobodyWaits DEF Draining
  <2> QED BY <1>1, <1>2, <2>1, <2>2, <2>3, <2>4, <2>5, <2>6 DEF DevicesFit
<1>5. TasksFit
  BY <1>1, EmptySeq DEF Init, TasksFit, Serving
<1> QED BY <1>4, <1>5, Halves

-----------------------------------------------------------------------------
(* Its steps.                                                              *)

\* What the gateway knows of one device (CharacterKnown is this of those in `sure`).
KnownOn(d) ==
  IF drain[d] = <<>> THEN last[d] \in {None, shown[d]}
  ELSE shown[d] = PictureOf(Last(drain[d]), step[Last(drain[d])])

\* Sockets that somebody waits for go on, or have no one waiting any more.
LEMMA DrainingRest ==
  ASSUME CommandsInv, drain' \in [Device -> Seq(Task)],
         \A d \in Device : drain'[d] \in {drain[d], <<>>},
         \A u \in Task : pc[u] = "drawing" => pc'[u] = "drawing" /\ todo'[u] = todo[u]
  PROVE  Draining'
<1>1. Draining /\ drain \in [Device -> Seq(Task)]
  BY Halves DEF DevicesFit
<1> SUFFICES ASSUME NEW d \in Device
             PROVE  /\ IsInjective(drain'[d])
                    /\ \A u \in ToSet(drain'[d]) : pc'[u] = "drawing" /\ Head(todo'[u]) = d
  BY DEF Draining
<1>2. CASE drain'[d] = drain[d]
  <2>1. \A u \in ToSet(drain[d]) : u \in Task
    BY <1>1, LenProperties, ElementOfSeq DEF ToSet
  <2> QED BY <1>1, <1>2, <2>1 DEF Draining
<1>3. CASE drain'[d] = <<>>
  BY <1>3, NobodyWaits
<1> QED BY <1>2, <1>3

\* What the gateway knows stays known, while nobody is told anything.
LEMMA KnownRest ==
  ASSUME CommandsInv, left'.asks = left.asks, sure' \subseteq sure,
         \A u \in Task : pc[u] = "drawing" => step'[u] = step[u],
         \A d \in sure' : /\ drain'[d] = drain[d] /\ shown'[d] = shown[d]
                          /\ last'[d] \in {last[d], None}
  PROVE  CharacterKnown'
<1>1. Draining /\ CharacterKnown /\ drain \in [Device -> Seq(Task)] /\ sure \subseteq Device
  <2>1. Registered \subseteq Device
    BY Halves, LenProperties, ElementOfSeq DEF DevicesFit, Registered, ToSet
  <2> QED BY <2>1, Halves DEF DevicesFit
<1> SUFFICES ASSUME NEW d \in Device, d \in sure'
             PROVE  KnownOn(d)'
  BY <1>1 DEF CharacterKnown, KnownOn
<1>2. CASE drain[d] = <<>>
  BY <1>1, <1>2 DEF CharacterKnown, KnownOn
<1>3. CASE drain[d] # <<>>
  <2> DEFINE u == Last(drain[d])
  <2>1. u \in ToSet(drain[d]) /\ u \in Task
    BY <1>1, <1>3, LastOne, LenProperties, ElementOfSeq DEF ToSet
  <2>2. pc[u] = "drawing" /\ shown[d] = PictureOf(u, step[u])
    BY <1>1, <1>3, <2>1 DEF Draining, CharacterKnown
  <2>3. step'[u] = step[u] /\ Last(drain'[d]) = u /\ drain'[d] # <<>> /\ shown'[d] = shown[d]
    BY <1>3, <2>1, <2>2
  <2> HIDE DEF u
  <2> QED BY <2>2, <2>3 DEF KnownOn, PictureOf, ask
<1> QED BY <1>2, <1>3

\* Nothing happens to the devices, and nothing to the tasks that wait for a socket.
LEMMA DevicesRest ==
  ASSUME CommandsInv, UNCHANGED <<left, devices, pack, last, drain, shown>>,
         \A u \in Task : pc[u] = "drawing" =>
           pc'[u] = "drawing" /\ todo'[u] = todo[u] /\ step'[u] = step[u]
  PROVE  DevicesFit'
<1>1. drain \in [Device -> Seq(Task)]
  BY Halves DEF DevicesFit
<1>2. Draining'
  BY <1>1, DrainingRest
<1>3. CharacterKnown'
  BY KnownRest DEF devices
<1> QED BY <1>2, <1>3, Halves DEF DevicesFit, IsCourse, ToldOnline, Registered, devices

\* A task that does not wait for a socket takes a step: the others do not.
LEMMA OthersRest ==
  ASSUME CommandsInv, NEW t \in Task, pc[t] # "drawing",
         (\E ds, n : Begin(t, ds, n)) \/ End(t)
           \/ (\E d : SendCommand(t, d) /\ UNCHANGED <<todo, step>>)
           \/ \E v, ds : pc' = [pc EXCEPT ![t] = v] /\ todo' = [todo EXCEPT ![t] = ds] /\ step' = step
  PROVE  \A u \in Task : pc[u] = "drawing" =>
           pc'[u] = "drawing" /\ todo'[u] = todo[u] /\ step'[u] = step[u]
<1>1. DOMAIN pc = Task /\ DOMAIN todo = Task /\ DOMAIN step = Task
  BY Halves DEF TasksFit
<1>2. ASSUME NEW ds, NEW n, Begin(t, ds, n)
      PROVE  \A u \in Task \ {t} : pc'[u] = pc[u] /\ todo'[u] = todo[u] /\ step'[u] = step[u]
  BY <1>1, <1>2 DEF Begin, SendCommand
<1>3. ASSUME End(t)
      PROVE  \A u \in Task \ {t} : pc'[u] = pc[u] /\ todo'[u] = todo[u] /\ step'[u] = step[u]
  BY <1>1, <1>3 DEF End
<1>4. ASSUME NEW d, SendCommand(t, d), UNCHANGED <<todo, step>>
      PROVE  \A u \in Task \ {t} : pc'[u] = pc[u] /\ todo'[u] = todo[u] /\ step'[u] = step[u]
  BY <1>1, <1>4 DEF SendCommand
<1>5. ASSUME NEW v, NEW ds, pc' = [pc EXCEPT ![t] = v], todo' = [todo EXCEPT ![t] = ds], step' = step
      PROVE  \A u \in Task \ {t} : pc'[u] = pc[u] /\ todo'[u] = todo[u] /\ step'[u] = step[u]
  BY <1>1, <1>5
<1> QED BY <1>2, <1>3, <1>4, <1>5

\* Nothing happens to the tasks.
LEMMA TasksRest ==
  ASSUME CommandsInv, UNCHANGED work, left'.asks = left.asks
  PROVE  TasksFit'
BY Halves DEF TasksFit, Serving, work, ask

\* A command is sent to the first device a task serves.
LEMMA SendFits ==
  ASSUME CommandsInv, NEW t \in Task, t \in DOMAIN ask,
         NEW d \in Device, SendCommand(t, d), UNCHANGED <<left, among>>,
         todo' \in [Task -> Seq(Device)], todo'[t] # <<>>, \A u \in Task \ {t} : todo'[u] = todo[u],
         step' \in [Task -> 0..NumChunks + 1]
  PROVE  TasksFit'
<1>1. TasksFit /\ link \in [Device -> {"up", "dead", "none"}]
  BY Halves DEF DevicesFit
<1>2. /\ pc' = [pc EXCEPT ![t] = "awaiting"]
      /\ answer' \in [Task -> {None, "ack", "no"}] /\ heard' \in [Task -> BOOLEAN]
      /\ tried' \in [Task -> SUBSET Device]
  BY <1>1 DEF SendCommand, TasksFit
<1>3. Serving'
  BY <1>1, <1>2 DEF TasksFit, Serving, ask
<1> QED BY <1>1, <1>2, <1>3 DEF TasksFit

\* A task begins to serve the first of some devices.
LEMMA BeginFits ==
  ASSUME CommandsInv, NEW t \in Task, t \in DOMAIN ask,
         NEW ds \in Seq(Device), ds # <<>>, NEW n \in 0..NumChunks + 1,
         Begin(t, ds, n), UNCHANGED <<left, among>>
  PROVE  TasksFit'
<1>1. TasksFit
  BY Halves
<1>2. Head(ds) \in Device
  BY FirstTaken
<1>3. /\ todo' = [todo EXCEPT ![t] = ds] /\ step' = [step EXCEPT ![t] = n]
      /\ \/ pc' = [pc EXCEPT ![t] = "rendering"] /\ UNCHANGED <<answer, heard, tried>>
         \/ SendCommand(t, Head(ds))
  BY DEF Begin
<1>4. /\ todo' \in [Task -> Seq(Device)] /\ todo'[t] = ds /\ \A u \in Task \ {t} : todo'[u] = todo[u]
      /\ step' \in [Task -> 0..NumChunks + 1]
  BY <1>1, <1>3 DEF TasksFit
<1>5. CASE SendCommand(t, Head(ds))
  BY <1>2, <1>4, <1>5, SendFits
<1>6. CASE pc' = [pc EXCEPT ![t] = "rendering"] /\ UNCHANGED <<answer, heard, tried>>
  <2>1. Serving'
    BY <1>1, <1>4, <1>6 DEF TasksFit, Serving, ask
  <2> QED BY <1>1, <1>4, <1>6, <2>1 DEF TasksFit
<1> QED BY <1>3, <1>5, <1>6

\* A task is done.
LEMMA EndFits ==
  ASSUME CommandsInv, NEW t \in Task, End(t), UNCHANGED left, among' \in [Task -> Seq(Device)]
  PROVE  TasksFit'
<1>1. TasksFit
  BY Halves
<1>2. <<>> \in Seq(Device)
  BY EmptySeq
<1>3. Serving'
  BY <1>1 DEF End, TasksFit, Serving, ask
<1> QED BY <1>1, <1>2, <1>3 DEF End, TasksFit

LEMMA CommandStep ==
  ASSUME CommandsInv, NEW t \in Task, Command(t)
  PROVE  CommandsInv'
<1>1. DevicesFit'
  <2>1. pc[t] # "drawing"
    BY DEF Command
  <2>2. (\E ds, n : Begin(t, ds, n)) \/ End(t)
    BY DEF Command
  <2> QED BY <2>1, <2>2, OthersRest, DevicesRest DEF Command
<1>2. t \in DOMAIN ask /\ IsCourse(left) /\ TasksFit
  BY Halves DEF DevicesFit, TasksFit, Serving, Command
<1>3. ask[t].device \in Device /\ NumChunks \in Nat
  BY <1>2, Asking, ScriptAssumption DEF Command
<1>4. CASE Begin(t, <<ask[t].device>>, 0)
  <2> DEFINE ds == <<ask[t].device>>
  <2>1. ds \in Seq(Device) /\ ds # <<>>
    BY <1>3
  <2>2. Begin(t, ds, 0)
    BY <1>4
  <2> HIDE DEF ds
  <2>3. TasksFit'
    BY <1>2, <1>3, <2>1, <2>2, BeginFits DEF Command
  <2> QED BY <2>3, <1>1, HalvesNext
<1>5. CASE End(t)
  <2>1. TasksFit'
    BY <1>2, <1>5, EndFits DEF Command, TasksFit
  <2> QED BY <2>1, <1>1, HalvesNext
<1> QED BY <1>4, <1>5 DEF Command

LEMMA EventStep ==
  ASSUME CommandsInv, NEW t \in Task, Event(t)
  PROVE  CommandsInv'
<1>1. DevicesFit'
  <2>1. pc[t] # "drawing"
    BY DEF Event
  <2>2. (\E ds, n : Begin(t, ds, n)) \/ End(t)
    BY DEF Event
  <2> QED BY <2>1, <2>2, OthersRest, DevicesRest DEF Event
<1>2. t \in DOMAIN ask /\ IsCourse(left) /\ TasksFit
  BY Halves DEF DevicesFit, TasksFit, Serving, Event
<1>3. ask[t].device \in Device /\ NumChunks \in Nat
  BY <1>2, Asking, ScriptAssumption DEF Event
<1>4. CASE Begin(t, <<ask[t].device>>, 0)
  <2> DEFINE ds == <<ask[t].device>>
  <2>1. ds \in Seq(Device) /\ ds # <<>>
    BY <1>3
  <2>2. Begin(t, ds, 0)
    BY <1>4
  <2> HIDE DEF ds
  <2>3. TasksFit'
    BY <1>2, <1>3, <2>1, <2>2, BeginFits DEF Event
  <2> QED BY <2>3, <1>1, HalvesNext
<1>5. CASE End(t)
  <2>1. TasksFit'
    BY <1>2, <1>5, EndFits DEF Event, TasksFit
  <2> QED BY <2>1, <1>1, HalvesNext
<1> QED BY <1>4, <1>5 DEF Event

\* The task of a route has chosen its devices.
LEMMA RouteStep ==
  ASSUME CommandsInv, NEW t \in Task, Route(t)
  PROVE  CommandsInv'
<1>1. DevicesFit'
  <2>1. pc[t] # "drawing"
    BY DEF Route
  <2>2. \/ \E v, ds : pc' = [pc EXCEPT ![t] = v] /\ todo' = [todo EXCEPT ![t] = ds] /\ step' = step
        \/ End(t)
    BY DEF Route
  <2> QED BY <2>1, <2>2, OthersRest, DevicesRest DEF Route
<1>2. t \in DOMAIN ask /\ IsCourse(left) /\ TasksFit /\ device_registry \in Seq(Device)
  BY Halves DEF DevicesFit, TasksFit, Serving, Route
<1> DEFINE ds == Evaluate(ask[t], device_registry, caps)
<1>3. ds \in Seq(Device)
  <2>1. ask[t].ids \in Seq(Device)
    BY <1>2, Asking DEF Route
  <2> QED BY <2>1, <1>2, EvaluateType
<1>4. among' \in [Task -> Seq(Device)]
  BY <1>2 DEF Route, TasksFit
<1>5. CASE End(t)
  <2>1. TasksFit'
    BY <1>4, <1>5, EndFits DEF Route
  <2> QED BY <2>1, <1>1, HalvesNext
<1>6. CASE /\ ds # <<>>
           /\ pc' = [pc EXCEPT ![t] = "synthesizing"] /\ todo' = [todo EXCEPT ![t] = ds]
           /\ UNCHANGED <<step, answer, heard, tried>>
  <2> HIDE DEF ds
  <2>1. UNCHANGED left
    BY DEF Route
  <2>2. Serving'
    BY <1>2, <1>6, <2>1 DEF TasksFit, Serving, ask
  <2>3. TasksFit'
    BY <1>2, <1>3, <1>4, <1>6, <2>2 DEF TasksFit
  <2> QED BY <2>3, <1>1, HalvesNext
<1> HIDE DEF ds
<1>7. \/ /\ ds # <<>>
         /\ pc' = [pc EXCEPT ![t] = "synthesizing"] /\ todo' = [todo EXCEPT ![t] = ds]
         /\ UNCHANGED <<step, answer, heard, tried>>
      \/ End(t)
  BY DEF Route, ds
<1> QED BY <1>5, <1>6, <1>7

LEMMA SynthesizedStep ==
  ASSUME CommandsInv, NEW t \in Task, Synthesized(t)
  PROVE  CommandsInv'
<1>1. DevicesFit'
  <2>1. pc[t] # "drawing"
    BY DEF Synthesized
  <2>2. (\E ds, n : Begin(t, ds, n)) \/ End(t)
    BY DEF Synthesized
  <2> QED BY <2>1, <2>2, OthersRest, DevicesRest DEF Synthesized
<1>2. t \in DOMAIN ask /\ TasksFit /\ todo[t] \in Seq(Device) /\ todo[t] # <<>> /\ UNCHANGED <<left, among>>
  BY Halves DEF TasksFit, Serving, Synthesized
<1>3. 0 \in 0..NumChunks + 1
  BY ScriptAssumption
<1>4. CASE Begin(t, todo[t], 0)
  <2>1. TasksFit'
    BY <1>2, <1>3, <1>4, BeginFits
  <2> QED BY <2>1, <1>1, HalvesNext
<1>5. CASE End(t)
  <2>1. TasksFit'
    BY <1>2, <1>5, EndFits DEF TasksFit
  <2> QED BY <2>1, <1>1, HalvesNext
<1> QED BY <1>4, <1>5 DEF Synthesized

LEMMA ResumeStep ==
  ASSUME CommandsInv, NEW t \in Task, Resume(t)
  PROVE  CommandsInv'
<1>1. DevicesFit'
  <2>1. pc[t] # "drawing"
    BY DEF Resume
  <2>2. (\E ds, n : Begin(t, ds, n)) \/ End(t)
    BY DEF Resume
  <2> QED BY <2>1, <2>2, OthersRest, DevicesRest DEF Resume
<1>2. /\ t \in DOMAIN ask /\ TasksFit /\ todo[t] \in Seq(Device) /\ todo[t] # <<>>
      /\ step[t] \in 0..NumChunks + 1 /\ UNCHANGED <<left, among>>
  BY Halves DEF TasksFit, Serving, Resume
<1>3. NumChunks \in Nat /\ 0 \in 0..NumChunks + 1
  BY ScriptAssumption
<1>4. CASE step[t] <= NumChunks /\ Begin(t, todo[t], step[t] + 1)
  <2>1. step[t] + 1 \in 0..NumChunks + 1
    BY <1>2, <1>3, <1>4
  <2>2. TasksFit'
    BY <1>2, <1>4, <2>1, BeginFits
  <2> QED BY <2>2, <1>1, HalvesNext
<1>5. CASE Len(todo[t]) > 1 /\ Begin(t, Tail(todo[t]), 0)
  <2> DEFINE ds == Tail(todo[t])
  <2>1. ds \in Seq(Device) /\ Len(ds) = Len(todo[t]) - 1
    BY <1>2, FirstTaken
  <2>2. Len(todo[t]) \in Nat
    BY <1>2, LenProperties
  <2>3. ds # <<>>
    <3> HIDE DEF ds
    <3> QED BY <1>5, <2>1, <2>2, EmptySeq
  <2>4. Begin(t, ds, 0)
    BY <1>5
  <2> HIDE DEF ds
  <2>5. TasksFit'
    BY <1>2, <1>3, <2>1, <2>3, <2>4, BeginFits
  <2> QED BY <2>5, <1>1, HalvesNext
<1>6. CASE End(t)
  <2>1. TasksFit'
    BY <1>2, <1>6, EndFits DEF TasksFit
  <2> QED BY <2>1, <1>1, HalvesNext
<1> QED BY <1>4, <1>5, <1>6 DEF Resume

\* What a task goes on with.
LEMMA GoOnFits ==
  ASSUME CommandsInv, NEW t \in Task, pc[t] \in {"rendering", "drawing"},
         GoOn(t), UNCHANGED <<left, among>>
  PROVE  /\ TasksFit' /\ step' = step
         /\ \A u \in Task \ {t} : pc'[u] = pc[u] /\ todo'[u] = todo[u]
<1> DEFINE d == Head(todo[t])
<1>1. TasksFit
  BY Halves
<1>2. t \in DOMAIN ask /\ todo[t] \in Seq(Device) /\ todo[t] # <<>>
  BY <1>1 DEF TasksFit, Serving
<1>3. d \in Device
  BY <1>2, FirstTaken
<1>4. End(t) \/ (SendCommand(t, d) /\ UNCHANGED <<todo, step>>)
  BY DEF GoOn
<1> HIDE DEF d
<1>5. CASE End(t)
  <2>1. TasksFit'
    BY <1>1, <1>5, EndFits DEF TasksFit
  <2> QED BY <1>1, <1>5, <2>1 DEF End, TasksFit
<1>6. CASE SendCommand(t, d) /\ UNCHANGED <<todo, step>>
  <2>1. TasksFit'
    BY <1>1, <1>2, <1>3, <1>6, SendFits DEF TasksFit
  <2> QED BY <1>1, <1>6, <2>1 DEF SendCommand, TasksFit
<1> QED BY <1>4, <1>5, <1>6

\* A picture goes out to a device, or there is none to send.
LEMMA DrawnStep ==
  ASSUME CommandsInv, NEW t \in Task, Drawn(t)
  PROVE  CommandsInv'
<1> DEFINE d == Head(todo[t])
           p == PictureOf(t, step[t])
<1>1. DevicesFit /\ TasksFit
  BY Halves
<1>2. /\ t \in DOMAIN ask /\ todo[t] \in Seq(Device) /\ todo[t] # <<>> /\ step[t] \in 0..NumChunks + 1
      /\ pc[t] = "rendering"
  BY <1>1 DEF TasksFit, Serving, Drawn
<1>3. d \in Device
  BY <1>2, FirstTaken
<1>4. p \in Picture \cup {None}
  BY <1>1, <1>2, Pictured DEF DevicesFit
<1>5. /\ UNCHANGED <<left, device_registry, link, pack, last, among>>
      /\ \/ GoOn(t) /\ UNCHANGED <<shown, sure, drain>>
         \/ /\ d \in Registered /\ pc' = [pc EXCEPT ![t] = "drawing"]
            /\ drain' = [drain EXCEPT ![d] = Append(@, t)]
            /\ shown' = IF link[d] = "up" THEN [shown EXCEPT ![d] = p] ELSE shown
            /\ sure' = IF link[d] = "up" THEN sure \cup {d} ELSE sure
            /\ UNCHANGED <<todo, step, answer, heard, tried>>
  BY DEF Drawn
<1>6. CASE GoOn(t) /\ UNCHANGED <<shown, sure, drain>>
  <2>1. /\ TasksFit' /\ step' = step
        /\ \A u \in Task \ {t} : pc'[u] = pc[u] /\ todo'[u] = todo[u]
    BY <1>2, <1>5, <1>6, GoOnFits
  <2>2. DevicesFit'
    BY <1>2, <1>5, <1>6, <2>1, DevicesRest DEF devices
  <2> QED BY <2>1, <2>2, HalvesNext
<1>7. CASE /\ d \in Registered /\ pc' = [pc EXCEPT ![t] = "drawing"]
           /\ drain' = [drain EXCEPT ![d] = Append(@, t)]
           /\ shown' = IF link[d] = "up" THEN [shown EXCEPT ![d] = p] ELSE shown
           /\ sure' = IF link[d] = "up" THEN sure \cup {d} ELSE sure
           /\ UNCHANGED <<todo, step, answer, heard, tried>>
  <2> DEFINE q == drain[d]
             r == Append(q, t)
  <2>1. /\ q \in Seq(Task) /\ IsInjective(q) /\ t \notin ToSet(q)
        /\ \A u \in ToSet(q) : u \in Task /\ u # t /\ pc[u] = "drawing" /\ Head(todo[u]) = d
    <3>1. q \in Seq(Task) /\ IsInjective(q)
      BY <1>1, <1>3 DEF DevicesFit, Draining
    <3>2. \A u \in ToSet(q) : pc[u] = "drawing" /\ Head(todo[u]) = d
      BY <1>1, <1>3 DEF DevicesFit, Draining
    <3>3. \A u \in ToSet(q) : u \in Task
      BY <3>1, LenProperties, ElementOfSeq DEF ToSet
    <3> QED BY <1>2, <3>1, <3>2, <3>3
  <2> HIDE DEF q
  <2>2. /\ r \in Seq(Task) /\ IsInjective(r) /\ ToSet(r) = ToSet(q) \cup {t} /\ r # <<>> /\ Last(r) = t
    BY <2>1, JoinedOnce, Joined, LastOne
  <2>3. drain' = [drain EXCEPT ![d] = r]
    BY <1>7 DEF q
  <2> HIDE DEF r, p
  <2>4. /\ drain' \in [Device -> Seq(Task)] /\ drain'[d] = r
        /\ \A e \in Device \ {d} : drain'[e] = drain[e]
    BY <1>1, <1>3, <2>2, <2>3 DEF DevicesFit
  <2>5. /\ last' \in [Device -> Picture \cup {None}] /\ shown' \in [Device -> Picture \cup {None}]
        /\ sure' \subseteq Registered /\ Registered \subseteq Device
    BY <1>1, <1>4, <1>5, <1>7, LenProperties, ElementOfSeq DEF DevicesFit, Registered, ToSet
  <2>6. /\ \A u \in Task \ {t} : pc'[u] = pc[u] /\ todo'[u] = todo[u] /\ step'[u] = step[u]
        /\ pc'[t] = "drawing" /\ Head(todo'[t]) = d /\ step'[t] = step[t]
    BY <1>1, <1>7 DEF TasksFit
  <2>7. Draining'
    <3> SUFFICES ASSUME NEW e \in Device
                 PROVE  /\ IsInjective(drain'[e])
                        /\ \A u \in ToSet(drain'[e]) : pc'[u] = "drawing" /\ Head(todo'[u]) = e
      BY DEF Draining
    <3>1. CASE e = d
      <4>1. IsInjective(drain'[d])
        BY <2>2, <2>4
      <4>2. \A u \in ToSet(q) : pc'[u] = "drawing" /\ Head(todo'[u]) = d
        BY <2>1, <2>6
      <4>3. ToSet(drain'[d]) = ToSet(q) \cup {t}
        BY <2>2, <2>4
      <4> QED BY <2>6, <3>1, <4>1, <4>2, <4>3
    <3>2. CASE e # d
      <4>1. /\ drain'[e] = drain[e] /\ drain[e] \in Seq(Task) /\ IsInjective(drain[e])
            /\ \A u \in ToSet(drain[e]) : pc[u] = "drawing" /\ Head(todo[u]) = e
        BY <1>1, <2>4, <3>2 DEF DevicesFit, Draining
      <4>2. \A u \in ToSet(drain[e]) : u \in Task \ {t}
        BY <1>2, <4>1, LenProperties, ElementOfSeq DEF ToSet
      <4> QED BY <2>6, <4>1, <4>2
    <3> QED BY <3>1, <3>2
  <2>8. CharacterKnown'
    <3> SUFFICES ASSUME NEW e \in Device, e \in sure'
                 PROVE  KnownOn(e)'
      BY <2>5 DEF CharacterKnown, KnownOn
    <3>1. CASE e = d
      <4>1. link[d] = "up" /\ shown'[d] = p
        BY <1>1, <1>3, <1>7, <3>1 DEF DevicesFit, ToldOnline
      <4> QED BY <1>5, <2>2, <2>4, <2>6, <3>1, <4>1 DEF KnownOn, p, PictureOf, ask
    <3>2. CASE e # d
      <4>1. e \in sure /\ e \in Device /\ shown'[e] = shown[e] /\ last'[e] = last[e] /\ drain'[e] = drain[e]
        BY <1>1, <1>5, <1>7, <2>4, <2>5, <3>2 DEF DevicesFit
      <4>2. CASE drain[e] = <<>>
        BY <1>1, <4>1, <4>2 DEF DevicesFit, CharacterKnown, KnownOn
      <4>3. CASE drain[e] # <<>>
        <5> DEFINE u == Last(drain[e])
        <5>1. drain[e] # <<>> /\ shown[e] = PictureOf(u, step[u]) /\ step' = step /\ left' = left
          BY <1>1, <1>5, <1>7, <4>1, <4>3 DEF DevicesFit, CharacterKnown
        <5>2. Last(drain'[e]) = u
          BY <4>1
        <5> HIDE DEF u
        <5> QED BY <4>1, <5>1, <5>2 DEF KnownOn, PictureOf, ask
      <4> QED BY <4>2, <4>3
    <3> QED BY <3>1, <3>2
  <2>9. ToldOnline'
    BY <1>1, <1>5, <1>7 DEF DevicesFit, ToldOnline
  <2>10. DevicesFit'
    BY <1>1, <1>5, <2>4, <2>5, <2>7, <2>8, <2>9 DEF DevicesFit, IsCourse, Registered
  <2>11. Serving' /\ pc' \in [Task -> {"new", "synthesizing", "rendering", "drawing", "awaiting", "done"}]
    BY <1>1, <1>2, <1>5, <1>7 DEF TasksFit, Serving, ask
  <2>12. TasksFit'
    BY <1>1, <1>5, <1>7, <2>11 DEF TasksFit
  <2> QED BY <2>10, <2>12, HalvesNext
<1> QED BY <1>5, <1>6, <1>7

\* The socket has drained, and what was sent is noted, or its connection has ended.
LEMMA NotedStep ==
  ASSUME CommandsInv, NEW t \in Task, Noted(t)
  PROVE  CommandsInv'
<1> DEFINE d == Head(todo[t])
           p == PictureOf(t, step[t])
           q == drain[d]
           r == Tail(q)
<1>1. DevicesFit /\ TasksFit
  BY Halves
<1>2. /\ t \in DOMAIN ask /\ todo[t] \in Seq(Device) /\ todo[t] # <<>> /\ step[t] \in 0..NumChunks + 1
      /\ pc[t] = "drawing"
  BY <1>1 DEF TasksFit, Serving, Noted
<1>3. d \in Device
  BY <1>2, FirstTaken
<1>4. p \in Picture \cup {None}
  BY <1>1, <1>2, Pictured DEF DevicesFit
<1>5. /\ UNCHANGED <<left, devices, pack, shown, among>> /\ GoOn(t)
      /\ \/ /\ t \in ToSet(q) /\ t = Head(q)
            /\ drain' = [drain EXCEPT ![d] = r] /\ last' = [last EXCEPT ![d] = p]
         \/ t \notin ToSet(q) /\ UNCHANGED <<last, drain>>
  BY DEF Noted
<1>6. /\ TasksFit' /\ step' = step
      /\ \A u \in Task \ {t} : pc'[u] = pc[u] /\ todo'[u] = todo[u]
  BY <1>2, <1>5, GoOnFits
<1>7. q \in Seq(Task) /\ IsInjective(q)
  BY <1>1, <1>3 DEF DevicesFit, Draining
<1>8. /\ \A e \in Device : /\ drain[e] \in Seq(Task) /\ IsInjective(drain[e])
                          /\ \A u \in ToSet(drain[e]) : u \in Task /\ pc[u] = "drawing" /\ Head(todo[u]) = e
      /\ \A e \in Device \ {d} : t \notin ToSet(drain[e])
  <2>1. ASSUME NEW e \in Device
        PROVE  /\ drain[e] \in Seq(Task) /\ IsInjective(drain[e])
               /\ \A u \in ToSet(drain[e]) : u \in Task /\ pc[u] = "drawing" /\ Head(todo[u]) = e
    <3>1. /\ drain[e] \in Seq(Task) /\ IsInjective(drain[e])
          /\ \A u \in ToSet(drain[e]) : pc[u] = "drawing" /\ Head(todo[u]) = e
      BY <1>1 DEF DevicesFit, Draining
    <3>2. \A u \in ToSet(drain[e]) : u \in Task
      BY <3>1, LenProperties, ElementOfSeq DEF ToSet
    <3> QED BY <3>1, <3>2
  <2>2. ASSUME NEW e \in Device \ {d} PROVE t \notin ToSet(drain[e])
    BY <2>1, <2>2
  <2> QED BY <2>1, <2>2
<1>9. Registered' = Registered /\ Registered \subseteq Device /\ sure' = sure /\ sure \subseteq Device
  <2>1. device_registry' = device_registry /\ sure' = sure
    BY <1>5 DEF devices
  <2> QED BY <1>1, <2>1, LenProperties, ElementOfSeq DEF Registered, DevicesFit, ToSet
\* What waits, unless it is the task's own place, is as before.
<1>10. ASSUME NEW e \in Device, NEW u \in Task, u # t, u \in ToSet(drain[e])
       PROVE  pc'[u] = "drawing" /\ Head(todo'[u]) = e
  BY <1>6, <1>8, <1>10
<1>11. ASSUME NEW e \in Device, e \in sure,
              drain'[e] = drain[e], last'[e] = last[e], t \notin ToSet(drain[e])
       PROVE  KnownOn(e)'
  <2>1. shown'[e] = shown[e]
    BY <1>5
  <2>2. CASE drain[e] = <<>>
    BY <1>1, <1>11, <2>1, <2>2 DEF DevicesFit, CharacterKnown, KnownOn
  <2>3. CASE drain[e] # <<>>
    <3> DEFINE u == Last(drain[e])
    <3>1. u \in ToSet(drain[e])
      BY <1>8, <2>3, LastOne
    <3>2. shown[e] = PictureOf(u, step[u]) /\ u \in Task /\ u # t /\ Last(drain'[e]) = u
      BY <1>1, <1>8, <1>11, <2>3, <3>1 DEF DevicesFit, CharacterKnown
    <3> HIDE DEF u
    <3>3. step' = step /\ left' = left
      BY <1>5, <1>6
    <3> QED BY <1>11, <2>1, <2>3, <3>2, <3>3 DEF KnownOn, PictureOf, ask
  <2> QED BY <2>2, <2>3
<1>12. ToldOnline'
  BY <1>1, <1>5 DEF DevicesFit, ToldOnline, devices
<1>13. CASE /\ t \in ToSet(q) /\ t = Head(q)
            /\ drain' = [drain EXCEPT ![d] = r] /\ last' = [last EXCEPT ![d] = p]
  <2>1. q # <<>>
    BY <1>13, NobodyWaits
  <2>2. /\ r \in Seq(Task) /\ IsInjective(r) /\ ToSet(r) = ToSet(q) \ {t}
        /\ Last(q) = IF r = <<>> THEN t ELSE Last(r)
    BY <1>7, <1>13, <2>1, HeadOut
  <2>3. /\ drain' \in [Device -> Seq(Task)] /\ drain'[d] = r
        /\ \A e \in Device \ {d} : drain'[e] = drain[e] /\ last'[e] = last[e]
        /\ last' \in [Device -> Picture \cup {None}] /\ last'[d] = p
    BY <1>1, <1>3, <1>4, <1>13, <2>2 DEF DevicesFit
  <2> HIDE DEF r
  <2>4. Draining'
    <3> SUFFICES ASSUME NEW e \in Device
                 PROVE  /\ IsInjective(drain'[e])
                        /\ \A u \in ToSet(drain'[e]) : pc'[u] = "drawing" /\ Head(todo'[u]) = e
      BY DEF Draining
    <3>1. IsInjective(drain'[e]) /\ \A u \in ToSet(drain'[e]) : u \in ToSet(drain[e]) /\ u # t
      BY <1>8, <2>2, <2>3
    <3> QED BY <1>8, <1>10, <3>1
  <2>5. CharacterKnown'
    <3> SUFFICES ASSUME NEW e \in Device, e \in sure
                 PROVE  KnownOn(e)'
      BY <1>9 DEF CharacterKnown, KnownOn
    <3>1. CASE e # d
      BY <1>8, <1>9, <1>11, <2>3, <3>1
    <3>2. CASE e = d
      <4> DEFINE u == Last(q)
      <4>1. shown'[d] = shown[d] /\ shown[d] = PictureOf(u, step[u])
        BY <1>1, <1>5, <2>1, <3>2 DEF DevicesFit, CharacterKnown
      <4>2. CASE r = <<>>
        <5>1. shown[d] = p
          BY <2>2, <4>1, <4>2
        <5> QED BY <2>3, <3>2, <4>1, <4>2, <5>1 DEF KnownOn
      <4>3. CASE r # <<>>
        <5>1. u = Last(r) /\ Last(drain'[e]) = u
          BY <2>2, <2>3, <3>2, <4>3
        <5>2. step' = step /\ left' = left
          BY <1>5, <1>6
        <5> HIDE DEF u
        <5> QED BY <2>3, <3>2, <4>1, <4>3, <5>1, <5>2 DEF KnownOn, PictureOf, ask
      <4> QED BY <4>2, <4>3
    <3> QED BY <3>1, <3>2
  <2>6. DevicesFit'
    BY <1>1, <1>5, <1>9, <1>12, <2>3, <2>4, <2>5 DEF DevicesFit, IsCourse, devices
  <2> QED BY <1>6, <2>6, HalvesNext
<1>14. CASE t \notin ToSet(q) /\ UNCHANGED <<last, drain>>
  <2>1. \A e \in Device : t \notin ToSet(drain[e])
    BY <1>8, <1>14
  <2>2. Draining'
    <3> SUFFICES ASSUME NEW e \in Device
                 PROVE  /\ IsInjective(drain'[e])
                        /\ \A u \in ToSet(drain'[e]) : pc'[u] = "drawing" /\ Head(todo'[u]) = e
      BY DEF Draining
    <3> QED BY <1>8, <1>10, <1>14, <2>1
  <2>3. CharacterKnown'
    <3> SUFFICES ASSUME NEW e \in Device, e \in sure
                 PROVE  KnownOn(e)'
      BY <1>9 DEF CharacterKnown, KnownOn
    <3> QED BY <1>9, <1>11, <1>14, <2>1
  <2>4. DevicesFit'
    BY <1>1, <1>5, <1>9, <1>12, <1>14, <2>2, <2>3 DEF DevicesFit, IsCourse, devices
  <2> QED BY <1>6, <2>4, HalvesNext
<1> QED BY <1>5, <1>13, <1>14

\* An answer comes, or none in time.
LEMMA AnsweredStep ==
  ASSUME CommandsInv, NEW t \in Task, AckArrives(t) \/ Timeout(t)
  PROVE  CommandsInv'
<1>1. UNCHANGED <<left, devices, pack, last, drain, shown, pc, todo, step, heard, among, tried>>
  BY DEF AckArrives, Timeout
<1>2. DevicesFit'
  BY <1>1, DevicesRest
<1>3. TasksFit
  BY Halves
<1>4. answer' \in [Task -> {None, "ack", "no"}]
  BY <1>3 DEF AckArrives, Timeout, TasksFit
<1>5. TasksFit'
  BY <1>1, <1>3, <1>4 DEF TasksFit, Serving, ask
<1> QED BY <1>2, <1>5, HalvesNext

\* A pack is written, what was drawn is forgotten, a link breaks.
LEMMA ForgottenStep ==
  ASSUME CommandsInv, NEW d \in Device, SetPack(d) \/ CapabilityUpdated(d) \/ Break(d)
  PROVE  CommandsInv'
<1>1. DevicesFit /\ IsCourse(left)
  BY Halves DEF DevicesFit
<1>2. left.breaks \in Nat /\ left.repacks \in Nat /\ left.updates \in Nat
  BY <1>1 DEF IsCourse
<1>3. IsCourse(left') /\ left'.asks = left.asks
  <2>1. CASE SetPack(d)
    <3>1. left.repacks - 1 \in Nat /\ left' = [left EXCEPT !.repacks = left.repacks - 1]
      BY <1>2, <2>1 DEF SetPack
    <3> QED BY <1>1, <3>1, CourseKept
  <2>2. CASE CapabilityUpdated(d)
    <3>1. left.updates - 1 \in Nat /\ left' = [left EXCEPT !.updates = left.updates - 1]
      BY <1>2, <2>2 DEF CapabilityUpdated
    <3> QED BY <1>1, <3>1, CourseKept
  <2>3. CASE Break(d)
    <3>1. left.breaks - 1 \in Nat /\ left' = [left EXCEPT !.breaks = left.breaks - 1]
      BY <1>2, <2>3 DEF Break
    <3> QED BY <1>1, <3>1, CourseKept
  <2> QED BY <2>1, <2>2, <2>3
<1>4. UNCHANGED <<device_registry, drain, work, shown>>
  BY DEF SetPack, CapabilityUpdated, Break, devices
<1>5. TasksFit'
  BY <1>3, <1>4, TasksRest
<1>6. Registered' = Registered /\ Registered \subseteq Device
  BY <1>1, <1>4, LenProperties, ElementOfSeq DEF Registered, DevicesFit, ToSet
<1>7. /\ link' \in [Device -> {"up", "dead", "none"}]
      /\ \A e \in Device : link'[e] = "none" <=> link[e] = "none"
      /\ pack' \in [Device -> BOOLEAN] /\ last' \in [Device -> Picture \cup {None}]
      /\ sure' \subseteq sure /\ \A e \in Device : e \in sure' => link'[e] = link[e]
      /\ \A e \in Device : last'[e] \in {last[e], None}
  <2>1. CASE SetPack(d)
    BY <1>1, <2>1 DEF SetPack, devices, DevicesFit
  <2>2. CASE CapabilityUpdated(d)
    BY <1>1, <2>2 DEF CapabilityUpdated, devices, DevicesFit
  <2>3. CASE Break(d)
    BY <1>1, <2>3 DEF Break, DevicesFit
  <2> QED BY <2>1, <2>2, <2>3
<1>8. CharacterKnown' /\ ToldOnline' /\ Draining'
  <2>1. sure \subseteq Device /\ drain \in [Device -> Seq(Task)]
    BY <1>1, <1>6 DEF DevicesFit
  <2>2. UNCHANGED <<pc, todo, step>>
    BY <1>4 DEF work
  <2>3. Draining'
    BY <1>4, <2>1, <2>2, DrainingRest
  <2>4. CharacterKnown'
    BY <1>3, <1>4, <1>7, <2>1, <2>2, KnownRest
  <2> QED BY <1>1, <1>7, <2>1, <2>3, <2>4 DEF DevicesFit, ToldOnline
<1>9. DevicesFit'
  BY <1>1, <1>3, <1>4, <1>6, <1>7, <1>8 DEF DevicesFit, IsCourse
<1> QED BY <1>5, <1>9, HalvesNext

\* The gateway notices that a device is gone.
LEMMA LeaveStep ==
  ASSUME CommandsInv, NEW d \in Device, Leave(d)
  PROVE  CommandsInv'
<1>1. DevicesFit
  BY Halves
<1>2. UNCHANGED <<left, sure, pack, last, work, shown>>
  BY DEF Leave
<1>3. TasksFit'
  BY <1>2, TasksRest
<1>4. /\ device_registry' \in Seq(Device) /\ IsInjective(device_registry')
      /\ Registered' = Registered \cap (Device \ {d})
  BY <1>1, Kept DEF Leave, DevicesFit, Registered
<1>5. link[d] = "dead" /\ link' = [link EXCEPT ![d] = "none"]
  BY DEF Leave
<1>6. d \notin sure /\ sure \subseteq Registered' /\ Registered \subseteq Device
  <2>1. Registered \subseteq Device
    BY <1>1, LenProperties, ElementOfSeq DEF DevicesFit, Registered, ToSet
  <2>2. d \notin sure /\ sure \subseteq Registered
    BY <1>1, <1>5 DEF DevicesFit, ToldOnline
  <2> QED BY <1>4, <2>1, <2>2
<1>7. CharacterKnown' /\ ToldOnline' /\ Draining' /\ drain' \in [Device -> Seq(Task)]
  <2>1. /\ sure \subseteq Device /\ drain \in [Device -> Seq(Task)] /\ <<>> \in Seq(Task)
        /\ drain' = [drain EXCEPT ![d] = <<>>]
    BY <1>1, <1>6, EmptySeq DEF DevicesFit, Leave
  <2>2. UNCHANGED <<pc, todo, step>>
    BY <1>2 DEF work
  <2>3. drain' \in [Device -> Seq(Task)] /\ \A e \in Device : drain'[e] \in {drain[e], <<>>}
    BY <2>1
  <2>4. Draining'
    BY <2>2, <2>3, DrainingRest
  <2>5. CharacterKnown'
    BY <1>2, <1>6, <2>1, <2>2, KnownRest
  <2> QED BY <1>1, <1>2, <1>5, <1>6, <2>1, <2>3, <2>4, <2>5 DEF DevicesFit, ToldOnline, Registered
<1>8. /\ link' \in [Device -> {"up", "dead", "none"}]
      /\ \A e \in Device : link'[e] = "none" <=> e \notin Registered'
  BY <1>1, <1>4, <1>5 DEF DevicesFit
<1>9. DevicesFit'
  BY <1>1, <1>2, <1>4, <1>6, <1>7, <1>8 DEF DevicesFit, IsCourse
<1> QED BY <1>3, <1>9, HalvesNext

\* A device is back.
LEMMA JoinStep ==
  ASSUME CommandsInv, NEW d \in Device, Join(d)
  PROVE  CommandsInv'
<1>1. DevicesFit /\ TasksFit
  BY Halves
<1>2. UNCHANGED <<left, sure, last, pc, todo, step, answer, among, tried>>
  BY DEF Join
<1>3. heard' \in [Task -> BOOLEAN]
  <2>1. \/ heard' = heard
        \/ heard' = [t \in Task |-> heard[t] /\ (todo[t] = <<>> \/ Head(todo[t]) # d)]
    BY DEF Join
  <2>2. heard \in [Task -> BOOLEAN]
    BY <1>1 DEF TasksFit
  <2> QED BY <2>1, <2>2
<1>4. TasksFit'
  BY <1>1, <1>2, <1>3 DEF TasksFit, Serving, ask
<1>5. link[d] # "up" /\ link' = [link EXCEPT ![d] = "up"] /\ pack' = [pack EXCEPT ![d] = FALSE]
  BY DEF Join
<1>6. /\ device_registry' \in Seq(Device) /\ IsInjective(device_registry')
      /\ Registered' = Registered \cup {d}
  <2>1. CASE d \in Registered
    BY <1>1, <2>1 DEF Join, DevicesFit, Registered
  <2>2. CASE d \notin Registered
    <3>1. device_registry' = Append(device_registry, d)
      BY <2>2 DEF Join
    <3> QED BY <1>1, <2>2, <3>1, JoinedOnce DEF DevicesFit, Registered
  <2> QED BY <2>1, <2>2
<1>7. d \notin sure /\ Registered \subseteq Device
  <2>1. Registered \subseteq Device
    BY <1>1, LenProperties, ElementOfSeq DEF DevicesFit, Registered, ToSet
  <2>2. d \notin sure
    BY <1>1, <1>5 DEF DevicesFit, ToldOnline
  <2> QED BY <2>1, <2>2
<1>8. shown' \in [Device -> Picture \cup {None}] /\ \A e \in Device \ {d} : shown'[e] = shown[e]
  BY <1>1 DEF Join, DevicesFit
<1>9. CharacterKnown' /\ ToldOnline' /\ Draining' /\ drain' \in [Device -> Seq(Task)]
  <2>1. /\ sure \subseteq Device /\ drain \in [Device -> Seq(Task)] /\ <<>> \in Seq(Task)
        /\ drain' = [drain EXCEPT ![d] = <<>>]
    BY <1>1, <1>7, EmptySeq DEF DevicesFit, Join
  <2>2. drain' \in [Device -> Seq(Task)] /\ \A e \in Device : drain'[e] \in {drain[e], <<>>}
    BY <2>1
  <2>3. Draining'
    BY <1>2, <2>2, DrainingRest
  <2>4. CharacterKnown'
    BY <1>2, <1>7, <1>8, <2>1, KnownRest
  <2> QED BY <1>1, <1>2, <1>5, <1>7, <2>2, <2>3, <2>4 DEF DevicesFit, ToldOnline
<1>10. /\ link' \in [Device -> {"up", "dead", "none"}]
       /\ \A e \in Device : link'[e] = "none" <=> e \notin Registered'
  BY <1>1, <1>5, <1>6 DEF DevicesFit
<1>11. DevicesFit'
  BY <1>1, <1>2, <1>5, <1>6, <1>8, <1>9, <1>10 DEF DevicesFit, IsCourse
<1> QED BY <1>4, <1>11, HalvesNext

LEMMA CommandsNext == CommandsInv /\ [Next]_vars => CommandsInv'
<1> SUFFICES ASSUME CommandsInv, [Next]_vars PROVE CommandsInv'
  OBVIOUS
<1>1. ASSUME NEW t \in Task, Serve(t) \/ AckArrives(t) \/ Command(t) \/ Event(t) \/ Route(t)
      PROVE  CommandsInv'
  BY <1>1, DrawnStep, NotedStep, AnsweredStep, SynthesizedStep, ResumeStep, CommandStep, EventStep, RouteStep DEF Serve
<1>2. ASSUME NEW d \in Device, SetPack(d) \/ CapabilityUpdated(d) \/ Break(d) \/ Leave(d) \/ Join(d)
      PROVE  CommandsInv'
  BY <1>2, ForgottenStep, LeaveStep, JoinStep
<1>3. CASE UNCHANGED vars
  <2>1. UNCHANGED <<left, devices, pack, last, drain, work, shown>>
    BY <1>3 DEF vars
  <2>2. UNCHANGED <<pc, todo, step>>
    BY <2>1 DEF work
  <2> QED BY <2>1, <2>2, DevicesRest, TasksRest, HalvesNext
<1> QED BY <1>1, <1>2, <1>3 DEF Next

\* Whatever is asked of the devices while links break, devices leave and come back and
\* packs change, every variable has its type and the gateway knows what it has drawn
\* (CharacterRendererService._last_rendered), on the devices whose link has lasted.
THEOREM CommandsCorrect == Spec => []CommandsInv
BY CommandsInit, CommandsNext, PTL DEF Spec

-----------------------------------------------------------------------------
(* Whom the gateway chooses.                                               *)

\* A text for which no devices are named, whatever the devices and what they can do
\* (RoutingPolicy.evaluate): a short one goes to one foreground device at most, to one
\* that can speak it if there is one, and to none only if none is in the foreground; a
\* long one, or one for several, only to devices that can speak it, to every one of
\* these in the background, to one in the foreground if there is one, to one at most
\* besides the background, and to none only if none can.
THEOREM RightDevicesChosen == Spec => []ChoosesWell
<1>1. CommandsInv => ChoosesWell
  <2> SUFFICES ASSUME CommandsInv,
                      NEW t \in Task, t \in DOMAIN ask, ask[t].kind = "route", ask[t].ids = <<>>
               PROVE  LET CanDo(d) == CanSpeak(Read(caps[d]), ask[t].words)
                          Primary(d) == Read(caps[d]).foreground
                          Rear(d) == Read(caps[d]).background
                          there == ToSet(among[t])
                          taken == ToSet(Evaluate(ask[t], among[t], caps))
                      IN /\ taken \subseteq there
                         /\ IF IsLong(ask[t].words) \/ ask[t].multiple
                            THEN /\ \A d \in taken : CanDo(d)
                                 /\ \A d \in there : CanDo(d) =>
                                      /\ taken # {} /\ (Rear(d) => d \in taken)
                                      /\ Primary(d) => \E e \in taken : Primary(e)
                                 /\ Cardinality({d \in taken : ~Rear(d)}) <= 1
                            ELSE /\ Cardinality(taken) <= 1 /\ \A d \in taken : Primary(d)
                                 /\ \A d \in there : Primary(d) =>
                                      \E e \in taken : CanDo(d) => CanDo(e)
    BY DEF ChoosesWell
  <2>1. among[t] \in Seq(Device)
    BY Halves DEF TasksFit
  <2>2. CASE IsLong(ask[t].words) \/ ask[t].multiple
    <3>1. Evaluate(ask[t], among[t], caps) = RouteLong(among[t], caps, ask[t].words)
      BY <2>2 DEF Evaluate
    <3> DEFINE c == caps
               q == among[t]
               w == ask[t].words
               CanDo(d) == CanSpeak(Read(c[d]), w)
               Primary(d) == Read(c[d]).foreground
               Rear(d) == Read(c[d]).background
               Besides(s) == {d \in ToSet(s) : ~Rear(d)}
               chosen == RouteLong(q, c, w)
    <3>2. /\ ToSet(chosen) \subseteq ToSet(q) /\ \A d \in ToSet(chosen) : CanDo(d)
          /\ \A d \in ToSet(q) : CanDo(d) =>
               /\ ToSet(chosen) # {} /\ (Rear(d) => d \in ToSet(chosen))
               /\ Primary(d) => \E e \in ToSet(chosen) : Primary(e)
          /\ Cardinality(Besides(chosen)) <= 1
      <4> HIDE DEF c, w
      <4> QED BY ZenonT(30), <2>1, LongChosen
    <3>3. Besides(Evaluate(ask[t], q, c)) = Besides(chosen)
      <4> HIDE DEF Besides
      <4> QED BY <3>1
    <3>4. Cardinality(Besides(Evaluate(ask[t], q, c))) <= 1
      <4> HIDE DEF Besides
      <4> QED BY <3>2, <3>3
    <3>5. Cardinality({d \in ToSet(Evaluate(ask[t], among[t], caps)) : ~Read(caps[d]).background}) <= 1
      BY <3>4
    <3>6. /\ ToSet(Evaluate(ask[t], among[t], caps)) \subseteq ToSet(among[t])
          /\ \A d \in ToSet(Evaluate(ask[t], among[t], caps)) : CanSpeak(Read(caps[d]), ask[t].words)
          /\ \A d \in ToSet(among[t]) : CanSpeak(Read(caps[d]), ask[t].words) =>
               /\ ToSet(Evaluate(ask[t], among[t], caps)) # {}
               /\ Read(caps[d]).background => d \in ToSet(Evaluate(ask[t], among[t], caps))
               /\ Read(caps[d]).foreground
                    => \E e \in ToSet(Evaluate(ask[t], among[t], caps)) : Read(caps[e]).foreground
      BY <3>1, <3>2
    <3> QED BY <2>2, <3>5, <3>6
  <2>3. CASE ~(IsLong(ask[t].words) \/ ask[t].multiple)
    <3>1. Evaluate(ask[t], among[t], caps) = RouteShort(among[t], caps, ask[t].words)
      BY <2>3 DEF Evaluate
    <3> QED BY <2>1, <2>3, <3>1, ShortChosen
  <2> QED BY <2>2, <2>3
<1> QED BY <1>1, CommandsCorrect, PTL

-----------------------------------------------------------------------------
(* Sequences.                                                              *)

\* A device that is not in the queue is inserted: the queue still has none twice.
LEMMA InsertedOnce ==
  ASSUME NEW S, NEW q \in Seq(S), IsInjective(q), NEW d \in S, NEW i \in 1..Len(q) + 1,
         \A j \in 1..Len(q) : q[j] # d
  PROVE  InsertAt(q, i, d) \in Seq(S) /\ IsInjective(InsertAt(q, i, d))
<1> DEFINE r == InsertAt(q, i, d)
<1>0. Len(q) \in Nat /\ i \in Int /\ DOMAIN q = 1..Len(q)
  BY LenProperties
<1>1. /\ r \in Seq(S) /\ Len(r) = Len(q) + 1
      /\ \A j \in 1..Len(q) + 1 : r[j] = IF j < i THEN q[j] ELSE IF j = i THEN d ELSE q[j - 1]
  BY Inserted
<1> HIDE DEF r
<1>2. DOMAIN r = 1..Len(q) + 1
  BY <1>1, LenProperties
<1>3. \A j, k \in 1..Len(q) : q[j] = q[k] => j = k
  BY <1>0 DEF IsInjective
<1>4. ASSUME NEW j \in 1..Len(q) + 1, NEW k \in 1..Len(q) + 1, r[j] = r[k]
      PROVE  j = k
  <2> DEFINE from(n) == IF n < i THEN n ELSE n - 1
  <2>1. ASSUME NEW n \in 1..Len(q) + 1, n # i
        PROVE  from(n) \in 1..Len(q) /\ r[n] = q[from(n)] /\ r[n] # d
    <3>1. from(n) \in 1..Len(q)
      BY <2>1, <1>0
    <3>2. r[n] = q[from(n)]
      BY <2>1, <1>0, <1>1
    <3> QED BY <3>1, <3>2
  <2>2. r[i] = d
    BY <1>0, <1>1
  <2>3. CASE j = i \/ k = i
    BY <2>1, <2>2, <2>3, <1>4
  <2>4. CASE j # i /\ k # i
    <3>1. from(j) = from(k)
      <4> HIDE DEF from
      <4> QED BY <2>1, <2>4, <1>3, <1>4
    <3> QED BY <3>1, <2>4, <1>0
  <2> QED BY <2>3, <2>4
<1>5. IsInjective(r)
  BY <1>2, <1>4 DEF IsInjective
<1> QED BY <1>1, <1>5 DEF r

\* A device that is in the queue once is gone when it is taken out.
LEMMA TakenOut ==
  ASSUME NEW S, NEW q \in Seq(S), IsInjective(q), NEW d \in S
  PROVE  /\ Without(q, d) \in Seq(S)
         /\ IsInjective(Without(q, d))
         /\ \A j \in 1..Len(Without(q, d)) : Without(q, d)[j] # d
<1>0. Len(q) \in Nat /\ DOMAIN q = 1..Len(q)
  BY LenProperties
<1> DEFINE there == {j \in 1..Len(q) : q[j] = d}
<1>1. CASE there = {}
  <2>1. Without(q, d) = q
    BY <1>1 DEF Without, RemoveFirst
  <2> QED BY <2>1, <1>1
<1>2. CASE there # {}
  <2> DEFINE i == Min(there)
             r == RemoveAt(q, i)
  <2>1. i \in there
    <3>1. there \subseteq Nat
      BY <1>0
    <3>2. LET n == CHOOSE x \in there : \A y \in there : x <= y IN n \in there
      <4> HIDE DEF there
      <4> QED BY ONLY <3>1, <1>2, FirstOfPositions
    <3> QED BY <3>2 DEF Min
  <2>2. Without(q, d) = r
    BY <1>2 DEF Without, RemoveFirst, SelectInSeq
  <2>3. i \in 1..Len(q) /\ q[i] = d
    BY <2>1
  <2> HIDE DEF i
  <2>4. /\ r \in Seq(S) /\ Len(r) = Len(q) - 1
        /\ \A j \in 1..Len(q) - 1 : r[j] = IF j < i THEN q[j] ELSE q[j + 1]
    BY <2>3, Removed
  <2> HIDE DEF r, there
  <2>5. DOMAIN r = 1..Len(q) - 1
    BY <2>4, LenProperties
  <2>6. \A j, k \in 1..Len(q) : q[j] = q[k] => j = k
    BY <1>0 DEF IsInjective
  <2> DEFINE from(n) == IF n < i THEN n ELSE n + 1
  <2>7. ASSUME NEW n \in 1..Len(q) - 1
        PROVE  from(n) \in 1..Len(q) /\ from(n) # i /\ r[n] = q[from(n)]
    BY <1>0, <2>3, <2>4
  <2>8. \A n \in 1..Len(q) - 1 : r[n] # d
    <3> HIDE DEF from
    <3> QED BY <2>3, <2>6, <2>7
  <2>9. ASSUME NEW j \in 1..Len(q) - 1, NEW k \in 1..Len(q) - 1, r[j] = r[k]
        PROVE  j = k
    <3>1. from(j) = from(k)
      <4> HIDE DEF from
      <4> QED BY <2>6, <2>7, <2>9
    <3> QED BY <3>1, <1>0, <2>3
  <2>10. IsInjective(r)
    BY <2>5, <2>9 DEF IsInjective
  <2> QED BY <2>2, <2>4, <2>8, <2>10
<1> QED BY <1>1, <1>2

\* A device queued is queued once, wherever it stood before.
LEMMA QueuedOnce ==
  ASSUME NEW q \in Seq(Device), IsInjective(q), NEW d \in Device, NEW p
  PROVE  Queued(q, d, p) \in Seq(Device) /\ IsInjective(Queued(q, d, p))
<1> DEFINE waiting == Without(q, d)
           less == {i \in DOMAIN waiting : Known(waiting[i]) /\ priority[waiting[i]] < p}
           place == IF less = {} THEN Len(waiting) + 1
                    ELSE CHOOSE i \in less : \A j \in less : i <= j
<1>1. /\ waiting \in Seq(Device) /\ IsInjective(waiting)
      /\ \A j \in 1..Len(waiting) : waiting[j] # d
  BY TakenOut
<1>2. Queued(q, d, p) = InsertAt(waiting, place, d)
  BY DEF Queued
<1> HIDE DEF waiting
<1>3. Len(waiting) \in Nat /\ DOMAIN waiting = 1..Len(waiting)
  BY <1>1, LenProperties
<1>4. place \in 1..Len(waiting) + 1
  <2>1. less \subseteq 1..Len(waiting)
    BY <1>3
  <2> HIDE DEF less
  <2>2. CASE less = {}
    BY <2>2, <1>3
  <2>3. CASE less # {}
    <3>1. less \subseteq Nat
      BY <2>1, <1>3
    <3>2. LET i == CHOOSE x \in less : \A y \in less : x <= y IN i \in less
      BY ONLY <3>1, <2>3, FirstOfPositions
    <3>3. place \in less
      BY <3>2, <2>3
    <3> HIDE DEF place
    <3>4. place \in 1..Len(waiting)
      BY <3>3, <2>1
    <3> QED BY ONLY <3>4, <1>3
  <2> QED BY <2>2, <2>3
<1> HIDE DEF place
<1> QED BY <1>1, <1>2, <1>4, InsertedOnce

\* What is left of a queue whose first devices are dropped.
LEMMA Shortened ==
  ASSUME NEW S, NEW q \in Seq(S), NEW i \in 1..Len(q)
  PROVE  /\ SubSeq(q, i + 1, Len(q)) \in Seq(S)
         /\ SubSeq(q, i + 1, Len(q)) # q
         /\ IsInjective(q) => IsInjective(SubSeq(q, i + 1, Len(q)))
<1> DEFINE r == SubSeq(q, i + 1, Len(q))
<1>0. Len(q) \in Nat /\ i \in Int /\ DOMAIN q = 1..Len(q) /\ \A j \in 1..Len(q) : q[j] \in S
  BY LenProperties, ElementOfSeq
<1>1. /\ r \in Seq(S) /\ Len(r) = IF i + 1 <= Len(q) THEN Len(q) - (i + 1) + 1 ELSE 0
      /\ \A j \in 1..Len(q) - (i + 1) + 1 : r[j] = q[(i + 1) + j - 1]
  <2>1. \A j \in i + 1..Len(q) : q[j] \in S
    BY <1>0
  <2> QED BY ONLY <2>1, <1>0, SubSeqProperties, i + 1 \in Int
<1> HIDE DEF r
<1>2. Len(r) = Len(q) - i /\ \A j \in 1..Len(q) - i : r[j] = q[i + j]
  <2>1. Len(r) = Len(q) - i
    <3>1. CASE i + 1 <= Len(q)
      BY <3>1, <1>0, <1>1
    <3>2. CASE ~(i + 1 <= Len(q))
      <4>0. Len(q) \in Int /\ i \in Int /\ i <= Len(q)
        BY <1>0
      <4>1. Len(q) - i = 0
        BY ONLY <4>0, <3>2
      <4> QED BY <4>1, <3>2, <1>1
    <3> QED BY <3>1, <3>2
  <2>2. ASSUME NEW j \in 1..Len(q) - i
        PROVE  r[j] = q[i + j]
    <3>1. j \in 1..Len(q) - (i + 1) + 1 /\ (i + 1) + j - 1 = i + j
      BY <1>0
    <3>2. r[j] = q[(i + 1) + j - 1]
      BY <3>1, <1>1
    <3> QED BY <3>1, <3>2
  <2> QED BY <2>1, <2>2
<1>3. r # q
  BY <1>0, <1>2
<1>4. ASSUME IsInjective(q)
      PROVE  IsInjective(r)
  <2>1. DOMAIN r = 1..Len(q) - i
    BY <1>1, <1>2, LenProperties
  <2>2. \A j, k \in 1..Len(q) : q[j] = q[k] => j = k
    BY <1>0, <1>4 DEF IsInjective
  <2>3. ASSUME NEW j \in 1..Len(q) - i, NEW k \in 1..Len(q) - i, r[j] = r[k]
        PROVE  j = k
    <3>0. r[j] = q[i + j] /\ r[k] = q[i + k]
      BY <1>2
    <3>1. i + j \in 1..Len(q) /\ i + k \in 1..Len(q) /\ q[i + j] = q[i + k]
      <4>1. i + j \in 1..Len(q) /\ i + k \in 1..Len(q)
        BY <1>0
      <4> QED BY <4>1, <3>0, <2>3
    <3>2. i + j = i + k
      BY <3>1, <2>2
    <3> QED BY <3>2, <1>0
  <2> QED BY <2>1, <2>3 DEF IsInjective
<1> QED BY <1>1, <1>3, <1>4 DEF r

-----------------------------------------------------------------------------
(* The four parts of the invariant are inductive together.                 *)

USE DEF states, Known, Asked, Taken, Outranked

LEMMA InitInv == AttentionInit => AttentionInv
<1> SUFFICES ASSUME AttentionInit PROVE AttentionInv
  OBVIOUS
<1>1. attention_queue \in Seq(Device) /\ IsInjective(attention_queue)
  BY EmptySeq DEF AttentionInit, IsInjective
<1> QED BY <1>1 DEF AttentionInit, AttentionInv, AttentionTypeOK, OneAttended, NoIdleWait, WaitsOnce

\* A call asks for a priority: its own or the default.
LEMMA AskedPriority ==
  ASSUME AttentionInv, NEW p \in Priority \cup {Nobody}
  PROVE  Asked(p) \in Priority /\ Asked(p) \in Int
BY PriorityAssumption, ConfigAssumption DEF AttentionInv, AttentionTypeOK

\* A device that is granted attention is the only one active, and known.
LEMMA Granted ==
  ASSUME AttentionInv, NEW d \in Device, NEW p \in Priority \cup {Nobody}, NEW w \in BOOLEAN, Grant(d, p, w)
  PROVE  /\ current' = d /\ d # Nobody
         /\ priority' \in [Device -> Priority \cup {Nobody}]
         /\ timed' \subseteq Device /\ quiet' \subseteq timed'
         /\ OneAttended'
<1>0. d # Nobody
  BY DeviceAssumption
<1>1. priority' \in [Device -> Priority \cup {Nobody}] /\ priority'[d] # Nobody
  BY AskedPriority, PriorityAssumption DEF Grant, AttentionInv, AttentionTypeOK
<1>2. active' = {d}
  BY DEF Grant, AttentionInv, OneAttended
<1>3. timed' \subseteq Device /\ quiet' \subseteq timed'
  BY DEF Grant, AttentionInv, AttentionTypeOK
<1> QED BY <1>0, <1>1, <1>2, <1>3 DEF Grant, OneAttended

LEMMA AcquireInv ==
  ASSUME AttentionInv, NEW d \in Device, NEW p \in Priority \cup {Nobody}, NEW w \in BOOLEAN, Acquire(d, p, w)
  PROVE  AttentionInv'
<1>1. Grant(d, p, w) /\ UNCHANGED <<config, attention_queue>>
  BY DEF Acquire
<1>2. /\ current' = d /\ d # Nobody
      /\ priority' \in [Device -> Priority \cup {Nobody}]
      /\ timed' \subseteq Device /\ quiet' \subseteq timed'
      /\ OneAttended'
  BY <1>1, Granted
<1> QED BY <1>1, <1>2 DEF AttentionInv, AttentionTypeOK, OneAttended, NoIdleWait, WaitsOnce

LEMMA DeniedInv ==
  ASSUME AttentionInv, NEW d \in Device, NEW p \in Priority \cup {Nobody}, Denied(d, p)
  PROVE  AttentionInv'
<1>1. attention_queue \in Seq(Device) /\ IsInjective(attention_queue)
  BY DEF AttentionInv, AttentionTypeOK, WaitsOnce
<1>2. attention_queue' \in Seq(Device) /\ IsInjective(attention_queue')
  BY <1>1, QueuedOnce DEF Denied
<1>3. current # Nobody /\ UNCHANGED <<config, current, priority, active, timed, quiet>>
  BY DEF Denied
<1> QED BY <1>2, <1>3 DEF AttentionInv, AttentionTypeOK, OneAttended, NoIdleWait, WaitsOnce

\* What is left of the queue, and who has attention, when it is let go.
LEMMA LettingGo ==
  ASSUME AttentionInv, LetGo
  PROVE  \/ /\ current' = Nobody /\ active' = active \ {current} /\ attention_queue' = <<>>
            /\ UNCHANGED <<config, priority, timed, quiet>>
         \/ \E i \in 1..Len(attention_queue) :
              /\ Grant(attention_queue[i], Nobody, FALSE)
              /\ attention_queue' = SubSeq(attention_queue, i + 1, Len(attention_queue))
              /\ config' = config
<1> DEFINE known == {i \in DOMAIN attention_queue : Known(attention_queue[i])}
           next == CHOOSE i \in known : \A j \in known : i <= j
<1>1. DOMAIN attention_queue = 1..Len(attention_queue) /\ Len(attention_queue) \in Nat
  BY LenProperties DEF AttentionInv, AttentionTypeOK
<1>2. CASE known = {}
  BY <1>2 DEF LetGo
<1>3. CASE known # {}
  <2>1. known \subseteq Nat
    BY <1>1
  <2>2. next \in known
    <3>1. LET i == CHOOSE x \in known : \A y \in known : x <= y IN i \in known
      <4> HIDE DEF known
      <4> QED BY ONLY <2>1, <1>3, FirstOfPositions
    <3> QED BY <3>1
  <2>3. /\ Grant(attention_queue[next], Nobody, FALSE)
        /\ attention_queue' = SubSeq(attention_queue, next + 1, Len(attention_queue))
        /\ config' = config
    BY <1>3 DEF LetGo
  <2>4. next \in 1..Len(attention_queue)
    BY <2>2, <1>1
  <2> HIDE DEF next
  <2> QED BY <2>3, <2>4
<1> QED BY <1>2, <1>3

LEMMA LetGoInv ==
  ASSUME AttentionInv, LetGo
  PROVE  AttentionInv'
<1>1. CASE /\ current' = Nobody /\ active' = active \ {current} /\ attention_queue' = <<>>
           /\ UNCHANGED <<config, priority, timed, quiet>>
  <2>1. attention_queue' \in Seq(Device) /\ IsInjective(attention_queue')
    BY <1>1, EmptySeq DEF IsInjective
  <2> QED BY <2>1, <1>1 DEF AttentionInv, AttentionTypeOK, OneAttended, NoIdleWait, WaitsOnce
<1>2. ASSUME NEW i \in 1..Len(attention_queue),
             Grant(attention_queue[i], Nobody, FALSE),
             attention_queue' = SubSeq(attention_queue, i + 1, Len(attention_queue)),
             config' = config
      PROVE  AttentionInv'
  <2>1. attention_queue \in Seq(Device) /\ IsInjective(attention_queue)
    BY DEF AttentionInv, AttentionTypeOK, WaitsOnce
  <2>2. attention_queue[i] \in Device
    BY <2>1, ElementOfSeq
  <2>3. attention_queue' \in Seq(Device) /\ IsInjective(attention_queue')
    BY <1>2, <2>1, Shortened
  <2>4. /\ current' = attention_queue[i] /\ attention_queue[i] # Nobody
        /\ priority' \in [Device -> Priority \cup {Nobody}]
        /\ timed' \subseteq Device /\ quiet' \subseteq timed'
        /\ OneAttended'
    BY <1>2, <2>2, Granted
  <2> QED BY <1>2, <2>2, <2>3, <2>4 DEF AttentionInv, AttentionTypeOK, OneAttended, NoIdleWait, WaitsOnce
<1> QED BY <1>1, <1>2, LettingGo

LEMMA SetPriorityInv ==
  ASSUME AttentionInv, NEW d \in Device, NEW p \in Priority, SetPriority(d, p)
  PROVE  AttentionInv'
<1>1. attention_queue \in Seq(Device) /\ IsInjective(attention_queue)
  BY DEF AttentionInv, AttentionTypeOK, WaitsOnce
<1>2. attention_queue' \in Seq(Device) /\ IsInjective(attention_queue')
  <2>1. Queued(attention_queue, d, p) \in Seq(Device) /\ IsInjective(Queued(attention_queue, d, p))
    BY <1>1, QueuedOnce
  <2>2. Without(attention_queue, d) \in Seq(Device) /\ IsInjective(Without(attention_queue, d))
    BY <1>1, TakenOut
  <2> QED BY <1>1, <2>1, <2>2 DEF SetPriority
<1>3. current = Nobody => attention_queue' = <<>>
  BY EmptySeq DEF SetPriority, AttentionInv, NoIdleWait, Contains
<1>4. priority' \in [Device -> Priority \cup {Nobody}]
  BY DEF SetPriority, AttentionInv, AttentionTypeOK
<1>5. current # Nobody => priority'[current] # Nobody
  BY PriorityAssumption DEF SetPriority, AttentionInv, AttentionTypeOK, OneAttended
<1>6. UNCHANGED <<config, current, active, timed, quiet>>
  BY DEF SetPriority
<1> QED BY <1>2, <1>3, <1>4, <1>5, <1>6 DEF AttentionInv, AttentionTypeOK, OneAttended, NoIdleWait, WaitsOnce

LEMMA NextInv == AttentionInv /\ [AttentionNext]_attention => AttentionInv'
<1> SUFFICES ASSUME AttentionInv, [AttentionNext]_attention PROVE AttentionInv'
  OBVIOUS
<1>1. ASSUME NEW d \in Device, NEW p \in Priority \cup {Nobody}, NEW w \in BOOLEAN, Acquire(d, p, w)
      PROVE  AttentionInv'
  BY <1>1, AcquireInv
<1>2. ASSUME NEW d \in Device, NEW p \in Priority \cup {Nobody}, Denied(d, p)
      PROVE  AttentionInv'
  BY <1>2, DeniedInv
<1>3. ASSUME NEW d \in Device, Release(d)
      PROVE  AttentionInv'
  BY <1>3, LetGoInv DEF Release
<1>4. CASE CheckTimeouts
  BY <1>4, LetGoInv DEF CheckTimeouts
<1>5. ASSUME NEW d \in Device, NEW p \in Priority, SetPriority(d, p)
      PROVE  AttentionInv'
  BY <1>5, SetPriorityInv
<1>6. ASSUME NEW d \in Device, RecordActivity(d) \/ TimePasses(d)
      PROVE  AttentionInv'
  BY <1>6 DEF RecordActivity, TimePasses, AttentionInv, AttentionTypeOK, OneAttended, NoIdleWait, WaitsOnce
<1>7. CASE UNCHANGED attention
  BY <1>7 DEF attention, AttentionInv, AttentionTypeOK, OneAttended, NoIdleWait, WaitsOnce
<1> QED BY <1>1, <1>2, <1>3, <1>4, <1>5, <1>6, <1>7 DEF AttentionNext

\* Types, one active device, nobody waiting idly, nobody waiting twice: what every
\* call of AttentionPolicy finds and leaves.
THEOREM Inductive == AttentionSpec => []AttentionInv
BY InitInv, NextInv, PTL DEF AttentionSpec

-----------------------------------------------------------------------------
(* Theorems.                                                               *)

\* Every variable has its type, whatever is called in whatever order.
THEOREM TypeCorrect == AttentionSpec => []AttentionTypeOK
BY Inductive, PTL DEF AttentionInv

\* The device that has attention is the only active one, and the policy knows it
\* (_current_attention and the states of _device_attention agree).
THEOREM OneDeviceAttended == AttentionSpec => []OneAttended
BY Inductive, PTL DEF AttentionInv

\* When nobody has attention, nobody waits for it (_process_attention_queue).
THEOREM NobodyWaitsIdly == AttentionSpec => []NoIdleWait
BY Inductive, PTL DEF AttentionInv

\* A device is queued once (_queue_for_attention, set_priority).
THEOREM EveryoneWaitsOnce == AttentionSpec => []WaitsOnce
BY Inductive, PTL DEF AttentionInv
=============================================================================
