--------------------------- MODULE SequenceLemmas ---------------------------
(***************************************************************************)
(* What the operations on Redis lists make of the set of their elements,   *)
(* and what a fold over a sequence of numbers adds up to.                  *)
(***************************************************************************)
EXTENDS SequencesExt, SequenceTheorems, FiniteSetTheorems, TLAPS

\* An element of a sequence is an element of the set it is a sequence over.
LEMMA ToSetSubset ==
    ASSUME NEW S, NEW s \in Seq(S)
    PROVE  ToSet(s) \subseteq S
BY ElementOfSeq DEF ToSet

\* RPUSH adds its element.
LEMMA AppendToSet ==
    ASSUME NEW S, NEW s \in Seq(S), NEW e \in S
    PROVE  /\ Append(s, e) \in Seq(S)
           /\ ToSet(Append(s, e)) = ToSet(s) \union {e}
<1>1. Append(s, e) \in Seq(S)
  BY AppendProperties
<1>2. /\ Len(Append(s, e)) = Len(s) + 1
      /\ \A i \in 1 .. Len(s) : Append(s, e)[i] = s[i]
      /\ Append(s, e)[Len(s) + 1] = e
  BY AppendProperties
<1>3. Len(s) \in Nat /\ DOMAIN s = 1 .. Len(s) /\ DOMAIN Append(s, e) = 1 .. Len(s) + 1
  BY <1>1, <1>2, LenProperties
<1> QED
  BY <1>1, <1>2, <1>3 DEF ToSet

\* BLMOVE takes the head off its source.
LEMMA HeadTailToSet ==
    ASSUME NEW S, NEW s \in Seq(S), s # <<>>
    PROVE  /\ Head(s) \in S
           /\ Tail(s) \in Seq(S)
           /\ ToSet(s) = {Head(s)} \union ToSet(Tail(s))
<1>1. /\ Head(s) \in S
      /\ Tail(s) \in Seq(S)
      /\ Head(s) = s[1]
      /\ Len(Tail(s)) = Len(s) - 1
      /\ \A i \in 1 .. Len(s) - 1 : Tail(s)[i] = s[i + 1]
  BY HeadTailProperties
<1>2. Len(s) \in Nat \ {0} /\ DOMAIN s = 1 .. Len(s) /\ DOMAIN Tail(s) = 1 .. Len(s) - 1
  BY <1>1, LenProperties, EmptySeq
<1>3. ToSet(s) \subseteq {Head(s)} \union ToSet(Tail(s))
  <2> SUFFICES ASSUME NEW i \in 1 .. Len(s)
               PROVE  s[i] \in {Head(s)} \union ToSet(Tail(s))
    BY <1>2 DEF ToSet
  <2>1. CASE i = 1
    BY <2>1, <1>1
  <2>2. CASE i # 1
    <3>1. i - 1 \in 1 .. Len(s) - 1 /\ Tail(s)[i - 1] = s[i]
      BY <2>2, <1>1, <1>2
    <3> QED
      BY <3>1, <1>2 DEF ToSet
  <2> QED
    BY <2>1, <2>2
<1>4. {Head(s)} \union ToSet(Tail(s)) \subseteq ToSet(s)
  <2>1. Head(s) \in ToSet(s)
    BY <1>1, <1>2 DEF ToSet
  <2>2. ASSUME NEW i \in 1 .. Len(s) - 1
        PROVE  Tail(s)[i] \in ToSet(s)
    <3>1. i + 1 \in 1 .. Len(s) /\ Tail(s)[i] = s[i + 1]
      BY <1>1, <1>2
    <3> QED
      BY <3>1, <1>2 DEF ToSet
  <2> QED
    BY <2>1, <2>2, <1>2 DEF ToSet
<1> QED
  BY <1>1, <1>3, <1>4

\* A set of natural numbers has a least element, unless it is empty.
LEMMA LeastElement ==
    ASSUME NEW I \in SUBSET Nat, I # {}
    PROVE  \E x \in I : \A y \in I : x =< y
<1> DEFINE Upto == {1 .. x : x \in I}
<1>1. /\ Upto \subseteq FiniteSubsetsOf(Nat)
      /\ Upto # {}
  <2>1. \A x \in I : IsFiniteSet(1 .. x) /\ 1 .. x \in SUBSET Nat
    BY FS_Interval
  <2> QED
    BY <2>1 DEF FiniteSubsetsOf
<1>2. PICK U \in Upto : \A V \in Upto : ~ (<<V, U>> \in StrictSubsetOrdering(Nat))
  BY <1>1, FS_StrictSubsetOrderingWellFounded, WFMin, Zenon
<1>3. PICK x \in I : U = 1 .. x
  OBVIOUS
<1>4. ASSUME NEW y \in I, y < x
      PROVE  FALSE
  <2>1. x \in U /\ x \notin 1 .. y /\ 1 .. y \subseteq U
    BY <1>3, <1>4
  <2>2. <<1 .. y, U>> \in StrictSubsetOrdering(Nat)
    BY <2>1, <1>3 DEF StrictSubsetOrdering
  <2> QED
    BY <2>2, <1>2
<1> QED
  BY <1>4

\* Bounded naturals, such as some positions of a sequence, have a greatest one.
LEMMA GreatestElement ==
    ASSUME NEW n \in Nat, NEW I \in SUBSET (0 .. n), I # {}
    PROVE  Max(I) \in I /\ \A y \in I : y <= Max(I)
<1> DEFINE Mirror == {n - x : x \in I}
<1>1. Mirror \in SUBSET Nat /\ Mirror # {}
  OBVIOUS
<1>2. PICK z \in Mirror : \A y \in Mirror : z =< y
  BY <1>1, LeastElement
<1>3. PICK x \in I : z = n - x
  OBVIOUS
<1>4. \A y \in I : x >= y
  <2> SUFFICES ASSUME NEW y \in I PROVE x >= y
    OBVIOUS
  <2>1. n - y \in Mirror
    OBVIOUS
  <2>2. n - x =< n - y
    BY <2>1, <1>2, <1>3
  <2> QED
    BY <2>2
<1>5. Max(I) \in I /\ \A y \in I : Max(I) >= y
  BY <1>4, Zenon DEF Max
<1> QED
  BY <1>5

\* The part of a sequence between two of its positions.
LEMMA PartOfSeq ==
    ASSUME NEW S, NEW s \in Seq(S),
           NEW m \in 1 .. Len(s) + 1, NEW n \in 0 .. Len(s), m <= n + 1
    PROVE  /\ SubSeq(s, m, n) \in Seq(S)
           /\ Len(SubSeq(s, m, n)) = n - m + 1
           /\ \A i \in 1 .. n - m + 1 : SubSeq(s, m, n)[i] = s[m + i - 1]
<1>1. Len(s) \in Nat /\ m \in Int /\ n \in Int
  BY LenProperties
<1>2. \A i \in m .. n : s[i] \in S
  BY <1>1, ElementOfSeq
<1> QED
  BY <1>1, <1>2, SubSeqProperties

\* Removing position k shifts the positions behind it.
LEMMA RemoveAtElements ==
    ASSUME NEW S, NEW s \in Seq(S), NEW k \in 1 .. Len(s)
    PROVE  /\ RemoveAt(s, k) \in Seq(S)
           /\ Len(RemoveAt(s, k)) = Len(s) - 1
           /\ \A i \in 1 .. k - 1 : RemoveAt(s, k)[i] = s[i]
           /\ \A i \in k .. Len(s) - 1 : RemoveAt(s, k)[i] = s[i + 1]
<1> DEFINE a == SubSeq(s, 1, k - 1)
           b == SubSeq(s, k + 1, Len(s))
<1>1. Len(s) \in Nat /\ k \in Nat
  BY LenProperties
<1>2. /\ a \in Seq(S)
      /\ Len(a) = k - 1
      /\ \A i \in 1 .. k - 1 : a[i] = s[i]
  <2>1. 1 \in 1 .. Len(s) + 1 /\ k - 1 \in 0 .. Len(s) /\ 1 <= k - 1 + 1
    BY <1>1
  <2>2. /\ a \in Seq(S)
        /\ Len(a) = k - 1 - 1 + 1
        /\ \A i \in 1 .. k - 1 - 1 + 1 : a[i] = s[1 + i - 1]
    BY <2>1, PartOfSeq
  <2> HIDE DEF a
  <2> QED
    BY <2>2, <1>1
<1>3. /\ b \in Seq(S)
      /\ Len(b) = Len(s) - k
      /\ \A i \in 1 .. Len(s) - k : b[i] = s[k + i]
  <2>1. k + 1 \in 1 .. Len(s) + 1 /\ Len(s) \in 0 .. Len(s) /\ k + 1 <= Len(s) + 1
    BY <1>1
  <2>2. /\ b \in Seq(S)
        /\ Len(b) = Len(s) - (k + 1) + 1
        /\ \A i \in 1 .. Len(s) - (k + 1) + 1 : b[i] = s[k + 1 + i - 1]
    BY <2>1, PartOfSeq
  <2> HIDE DEF b
  <2> QED
    BY <2>2, <1>1
<1>4. RemoveAt(s, k) = a \o b
  BY DEF RemoveAt
<1> HIDE DEF a, b
<1>5. /\ a \o b \in Seq(S)
      /\ Len(a \o b) = k - 1 + (Len(s) - k)
      /\ \A i \in 1 .. k - 1 + (Len(s) - k) :
            (a \o b)[i] = IF i <= k - 1 THEN a[i] ELSE b[i - (k - 1)]
  <2>1. /\ a \o b \in Seq(S)
        /\ Len(a \o b) = Len(a) + Len(b)
        /\ \A i \in 1 .. Len(a) + Len(b) :
              (a \o b)[i] = IF i <= Len(a) THEN a[i] ELSE b[i - Len(a)]
    BY <1>2, <1>3, ConcatProperties
  <2> QED
    BY <2>1, <1>2, <1>3
<1>6. ASSUME NEW i \in 1 .. k - 1
      PROVE  (a \o b)[i] = s[i]
  BY <1>1, <1>2, <1>5
<1>7. ASSUME NEW i \in k .. Len(s) - 1
      PROVE  (a \o b)[i] = s[i + 1]
  <2>1. /\ i \in 1 .. k - 1 + (Len(s) - k)
        /\ ~ (i <= k - 1)
        /\ i - (k - 1) \in 1 .. Len(s) - k
        /\ k + (i - (k - 1)) = i + 1
    BY <1>1
  <2> QED
    BY <2>1, <1>3, <1>5
<1> QED
  BY <1>1, <1>4, <1>5, <1>6, <1>7

\* RemoveFirst drops a position of its argument, when there is one.
LEMMA FirstOccurrence ==
    ASSUME NEW S, NEW s \in Seq(S), NEW e, \E i \in 1 .. Len(s) : s[i] = e
    PROVE  \E k \in 1 .. Len(s) : s[k] = e /\ RemoveFirst(s, e) = RemoveAt(s, k)
<1> DEFINE I == {i \in 1 .. Len(s) : s[i] = e}
<1>1. I \in SUBSET Nat /\ I # {}
  BY LenProperties
<1>2. Min(I) \in I
  <2>1. \E x \in I : \A y \in I : x =< y
    BY <1>1, LeastElement
  <2> QED
    BY <2>1 DEF Min
<1>3. RemoveFirst(s, e) = RemoveAt(s, Min(I))
  BY <1>1 DEF RemoveFirst, SelectInSeq
<1> QED
  BY <1>2, <1>3

\* LREM 1 removes at most one element, and that a copy of its argument.
LEMMA RemoveFirstToSet ==
    ASSUME NEW S, NEW s \in Seq(S), NEW e
    PROVE  /\ RemoveFirst(s, e) \in Seq(S)
           /\ ToSet(RemoveFirst(s, e)) \subseteq ToSet(s)
           /\ ToSet(s) \ {e} \subseteq ToSet(RemoveFirst(s, e))
<1>1. CASE ~ \E i \in 1 .. Len(s) : s[i] = e
  BY <1>1 DEF RemoveFirst
<1>2. CASE \E i \in 1 .. Len(s) : s[i] = e
  <2>1. Len(s) \in Nat /\ DOMAIN s = 1 .. Len(s)
    BY LenProperties
  <2>2. PICK k \in 1 .. Len(s) : s[k] = e /\ RemoveFirst(s, e) = RemoveAt(s, k)
    BY <1>2, FirstOccurrence
  <2> DEFINE r == RemoveAt(s, k)
  <2>3. /\ r \in Seq(S)
        /\ Len(r) = Len(s) - 1
        /\ \A i \in 1 .. k - 1 : r[i] = s[i]
        /\ \A i \in k .. Len(s) - 1 : r[i] = s[i + 1]
    BY RemoveAtElements
  <2> HIDE DEF r
  <2>4. DOMAIN r = 1 .. Len(s) - 1
    BY <2>3, LenProperties
  <2>5. ASSUME NEW i \in 1 .. Len(s) - 1
        PROVE  r[i] \in ToSet(s)
    <3>1. CASE i \in 1 .. k - 1
      BY <3>1, <2>1, <2>3 DEF ToSet
    <3>2. CASE i \in k .. Len(s) - 1
      <4>1. i + 1 \in DOMAIN s /\ r[i] = s[i + 1]
        BY <3>2, <2>1, <2>3
      <4> QED
        BY <4>1 DEF ToSet
    <3> QED
      BY <3>1, <3>2, <2>1
  <2>6. ASSUME NEW i \in 1 .. Len(s), s[i] # e
        PROVE  s[i] \in ToSet(r)
    <3>1. CASE i < k
      <4>1. i \in DOMAIN r /\ i \in 1 .. k - 1 /\ r[i] = s[i]
        BY <3>1, <2>1, <2>3, <2>4
      <4> QED
        BY <4>1 DEF ToSet
    <3>2. CASE i > k
      <4>1. i - 1 \in DOMAIN r /\ i - 1 \in k .. Len(s) - 1 /\ i - 1 + 1 = i
        BY <3>2, <2>1, <2>4
      <4>2. r[i - 1] = s[i]
        BY <4>1, <2>3
      <4> QED
        BY <4>1, <4>2 DEF ToSet
    <3> QED
      BY <3>1, <3>2, <2>1, <2>2, <2>6
  <2>7. ToSet(r) \subseteq ToSet(s)
    BY <2>4, <2>5 DEF ToSet
  <2>8. ToSet(s) \ {e} \subseteq ToSet(r)
    BY <2>1, <2>6 DEF ToSet
  <2>9. RemoveFirst(s, e) = r
    BY <2>2 DEF r
  <2> QED
    BY <2>3, <2>7, <2>8, <2>9
<1> QED
  BY <1>1, <1>2

\* A concatenation holds the elements of both its parts.
LEMMA ConcatToSet ==
    ASSUME NEW S, NEW s \in Seq(S), NEW t \in Seq(S)
    PROVE  /\ s \o t \in Seq(S)
           /\ ToSet(s \o t) = ToSet(s) \union ToSet(t)
<1>1. /\ s \o t \in Seq(S)
      /\ Len(s \o t) = Len(s) + Len(t)
      /\ \A i \in 1 .. Len(s) + Len(t) :
            (s \o t)[i] = IF i <= Len(s) THEN s[i] ELSE t[i - Len(s)]
  BY ConcatProperties
<1>2. /\ Len(s) \in Nat /\ DOMAIN s = 1 .. Len(s)
      /\ Len(t) \in Nat /\ DOMAIN t = 1 .. Len(t)
      /\ DOMAIN (s \o t) = 1 .. Len(s) + Len(t)
  BY <1>1, LenProperties
<1>3. ASSUME NEW i \in 1 .. Len(s)
      PROVE  s[i] \in ToSet(s \o t)
  <2>1. i \in 1 .. Len(s) + Len(t) /\ (s \o t)[i] = s[i]
    BY <1>1, <1>2
  <2> QED
    BY <2>1, <1>2 DEF ToSet
<1>4. ASSUME NEW i \in 1 .. Len(t)
      PROVE  t[i] \in ToSet(s \o t)
  <2>1. /\ i + Len(s) \in 1 .. Len(s) + Len(t)
        /\ ~ (i + Len(s) <= Len(s))
        /\ i + Len(s) - Len(s) = i
    BY <1>2
  <2> QED
    BY <2>1, <1>1, <1>2 DEF ToSet
<1>5. ASSUME NEW i \in 1 .. Len(s) + Len(t)
      PROVE  (s \o t)[i] \in ToSet(s) \union ToSet(t)
  <2>1. CASE i <= Len(s)
    <3>1. i \in DOMAIN s /\ (s \o t)[i] = s[i]
      BY <2>1, <1>1, <1>2
    <3> QED
      BY <3>1 DEF ToSet
  <2>2. CASE ~ (i <= Len(s))
    <3>1. i - Len(s) \in DOMAIN t /\ (s \o t)[i] = t[i - Len(s)]
      BY <2>2, <1>1, <1>2
    <3> QED
      BY <3>1 DEF ToSet
  <2> QED
    BY <2>1, <2>2
<1> QED
  BY <1>1, <1>2, <1>3, <1>4, <1>5 DEF ToSet

\* RecoverStale shares the elements of the two lists out anew: the first n of s
\* go, last one first, to the front of p.
LEMMA RecoverToSet ==
    ASSUME NEW S, NEW s \in Seq(S), NEW p \in Seq(S), NEW n \in 0 .. Len(s)
    PROVE  LET moved == Reverse(SubSeq(s, 1, n)) \o p
               kept == SubSeq(s, n + 1, Len(s))
           IN  /\ moved \in Seq(S)
               /\ kept \in Seq(S)
               /\ ToSet(moved) \union ToSet(kept) = ToSet(s) \union ToSet(p)
<1> DEFINE a == SubSeq(s, 1, n)
           r == Reverse(a)
           kept == SubSeq(s, n + 1, Len(s))
<1>1. Len(s) \in Nat /\ DOMAIN s = 1 .. Len(s) /\ n \in Nat
  BY LenProperties
<1>2. /\ a \in Seq(S)
      /\ Len(a) = n
      /\ \A i \in 1 .. n : a[i] = s[i]
  <2>1. 1 \in 1 .. Len(s) + 1 /\ 1 <= n + 1
    BY <1>1
  <2>2. /\ a \in Seq(S)
        /\ Len(a) = n - 1 + 1
        /\ \A i \in 1 .. n - 1 + 1 : a[i] = s[1 + i - 1]
    BY <2>1, PartOfSeq
  <2> HIDE DEF a
  <2> QED
    BY <2>2, <1>1
<1>3. /\ kept \in Seq(S)
      /\ DOMAIN kept = 1 .. Len(s) - n
      /\ \A i \in 1 .. Len(s) - n : kept[i] = s[n + i]
  <2>1. n + 1 \in 1 .. Len(s) + 1 /\ Len(s) \in 0 .. Len(s) /\ n + 1 <= Len(s) + 1
    BY <1>1
  <2>2. /\ kept \in Seq(S)
        /\ Len(kept) = Len(s) - (n + 1) + 1
        /\ \A i \in 1 .. Len(s) - (n + 1) + 1 : kept[i] = s[n + 1 + i - 1]
    BY <2>1, PartOfSeq
  <2> HIDE DEF kept
  <2> QED
    BY <2>2, <1>1, LenProperties
<1>4. /\ r \in Seq(S)
      /\ DOMAIN r = 1 .. n
      /\ \A i \in 1 .. n : r[i] = s[n - i + 1]
  <2> HIDE DEF a
  <2>1. r = [i \in 1 .. n |-> a[n - i + 1]]
    BY <1>2 DEF Reverse
  <2>2. \A i \in 1 .. n : n - i + 1 \in 1 .. n /\ a[n - i + 1] \in S
    BY <1>1, <1>2, ElementOfSeq
  <2> QED
    BY <1>1, <1>2, <2>1, <2>2, IsASeq
<1> HIDE DEF r, kept
<1>5. /\ r \o p \in Seq(S)
      /\ ToSet(r \o p) = ToSet(r) \union ToSet(p)
  BY <1>4, ConcatToSet
<1>6. ToSet(r) \union ToSet(kept) = ToSet(s)
  <2>1. ASSUME NEW i \in 1 .. Len(s)
        PROVE  s[i] \in ToSet(r) \union ToSet(kept)
    <3>1. CASE i <= n
      <4>1. n - i + 1 \in DOMAIN r /\ r[n - i + 1] = s[i]
        <5>1. n - i + 1 \in 1 .. n /\ n - (n - i + 1) + 1 = i
          BY <3>1, <1>1
        <5> QED
          BY <5>1, <1>4
      <4> QED
        BY <4>1 DEF ToSet
    <3>2. CASE i > n
      <4>1. i - n \in DOMAIN kept /\ kept[i - n] = s[i]
        <5>1. i - n \in 1 .. Len(s) - n /\ n + (i - n) = i
          BY <3>2, <1>1
        <5> QED
          BY <5>1, <1>3
      <4> QED
        BY <4>1 DEF ToSet
    <3> QED
      BY <3>1, <3>2, <1>1
  <2>2. ASSUME NEW i \in 1 .. n
        PROVE  r[i] \in ToSet(s)
    <3>1. n - i + 1 \in DOMAIN s /\ r[i] = s[n - i + 1]
      BY <1>1, <1>4
    <3> QED
      BY <3>1 DEF ToSet
  <2>3. ASSUME NEW i \in 1 .. Len(s) - n
        PROVE  kept[i] \in ToSet(s)
    <3>1. n + i \in DOMAIN s /\ kept[i] = s[n + i]
      BY <1>1, <1>3
    <3> QED
      BY <3>1 DEF ToSet
  <2>4. ToSet(s) \subseteq ToSet(r) \union ToSet(kept)
    <3>1. ToSet(s) = {s[i] : i \in 1 .. Len(s)}
      BY <1>1 DEF ToSet
    <3> QED
      BY <3>1, <2>1
  <2>5. ToSet(r) \subseteq ToSet(s)
    <3>1. ToSet(r) = {r[i] : i \in 1 .. n}
      BY <1>4 DEF ToSet
    <3> QED
      BY <3>1, <2>2
  <2>6. ToSet(kept) \subseteq ToSet(s)
    <3>1. ToSet(kept) = {kept[i] : i \in 1 .. Len(s) - n}
      BY <1>3 DEF ToSet
    <3> QED
      BY <3>1, <2>3
  <2> QED
    BY <2>4, <2>5, <2>6
<1>7. /\ r \o p \in Seq(S)
      /\ kept \in Seq(S)
      /\ ToSet(r \o p) \union ToSet(kept) = ToSet(s) \union ToSet(p)
  BY <1>3, <1>5, <1>6
<1> QED
  BY <1>7 DEF r, kept

----------------------------------------------------------------------------
(* Lists in which no element occurs twice.                                 *)

\* They are so by their positions.
LEMMA InjectivePositions ==
    ASSUME NEW S, NEW s \in Seq(S)
    PROVE  /\ Len(s) \in Nat /\ DOMAIN s = 1 .. Len(s)
           /\ IsInjective(s) <=> \A i, j \in 1 .. Len(s) : s[i] = s[j] => i = j
           /\ \A e : e \in ToSet(s) <=> \E i \in 1 .. Len(s) : s[i] = e
<1>1. Len(s) \in Nat /\ DOMAIN s = 1 .. Len(s)
  BY LenProperties
<1> QED
  BY <1>1 DEF IsInjective, ToSet

\* RPUSH of an element that is not there.
LEMMA InjectiveAppend ==
    ASSUME NEW S, NEW s \in Seq(S), IsInjective(s), NEW e \in S, e \notin ToSet(s)
    PROVE  IsInjective(Append(s, e))
<1> DEFINE t == Append(s, e)
<1>1. /\ t \in Seq(S)
      /\ Len(t) = Len(s) + 1
      /\ \A i \in 1 .. Len(s) : t[i] = s[i]
      /\ t[Len(s) + 1] = e
  BY AppendProperties
<1> HIDE DEF t
<1>2. ASSUME NEW i \in 1 .. Len(t), NEW j \in 1 .. Len(t), t[i] = t[j]
      PROVE  i = j
  <2>1. \A k \in 1 .. Len(t) : k \in 1 .. Len(s) \/ k = Len(s) + 1
    BY <1>1, InjectivePositions
  <2>2. \A k \in 1 .. Len(s) : s[k] # e
    BY InjectivePositions
  <2> QED
    BY <1>1, <1>2, <2>1, <2>2, InjectivePositions
<1> QED
  BY <1>1, <1>2, InjectivePositions DEF t

\* LMOVE takes the only copy of the head.
LEMMA InjectiveTail ==
    ASSUME NEW S, NEW s \in Seq(S), s # <<>>, IsInjective(s)
    PROVE  IsInjective(Tail(s)) /\ Head(s) \notin ToSet(Tail(s))
<1> DEFINE t == Tail(s)
<1>1. /\ t \in Seq(S)
      /\ Len(t) = Len(s) - 1
      /\ \A i \in 1 .. Len(t) : t[i] = s[i + 1]
  BY HeadTailProperties
<1>2. Head(s) = s[1] /\ Len(s) \in Nat \ {0}
  BY EmptySeq, LenProperties
<1> HIDE DEF t
<1>3. \A i \in 1 .. Len(t) : i + 1 \in 1 .. Len(s) /\ i + 1 # 1
  BY <1>1, <1>2
<1>4. ASSUME NEW i \in 1 .. Len(t), NEW j \in 1 .. Len(t), t[i] = t[j]
      PROVE  i = j
  <2>1. i + 1 = j + 1
    BY <1>1, <1>3, <1>4, InjectivePositions
  <2> QED
    BY <2>1
<1>5. ASSUME NEW i \in 1 .. Len(t)
      PROVE  t[i] # s[1]
  <2>1. 1 \in 1 .. Len(s)
    BY <1>2
  <2> QED
    BY <2>1, <1>1, <1>3, InjectivePositions
<1>6. IsInjective(t)
  BY <1>1, <1>4, InjectivePositions
<1>7. s[1] \notin ToSet(t)
  BY <1>1, <1>5, InjectivePositions
<1> QED
  BY <1>2, <1>6, <1>7 DEF t

\* LREM 1 removes the only copy of its argument.
LEMMA InjectiveRemoveFirst ==
    ASSUME NEW S, NEW s \in Seq(S), IsInjective(s), NEW e
    PROVE  IsInjective(RemoveFirst(s, e)) /\ e \notin ToSet(RemoveFirst(s, e))
<1>1. CASE ~ \E i \in 1 .. Len(s) : s[i] = e
  <2>1. RemoveFirst(s, e) = s
    BY <1>1 DEF RemoveFirst
  <2> QED
    BY <1>1, <2>1, InjectivePositions
<1>2. CASE \E i \in 1 .. Len(s) : s[i] = e
  <2>1. PICK k \in 1 .. Len(s) : s[k] = e /\ RemoveFirst(s, e) = RemoveAt(s, k)
    BY <1>2, FirstOccurrence
  <2> DEFINE r == RemoveAt(s, k)
             At(i) == IF i < k THEN i ELSE i + 1
  <2>2. /\ r \in Seq(S)
        /\ Len(r) = Len(s) - 1
        /\ \A i \in 1 .. k - 1 : r[i] = s[i]
        /\ \A i \in k .. Len(s) - 1 : r[i] = s[i + 1]
    BY RemoveAtElements
  <2> HIDE DEF r
  <2>3. Len(s) \in Nat
    BY InjectivePositions
  <2>4. \A i \in 1 .. Len(r) : /\ At(i) \in 1 .. Len(s) /\ At(i) # k
                               /\ i \in 1 .. k - 1 \/ i \in k .. Len(s) - 1
                               /\ i \in 1 .. k - 1 => At(i) = i
                               /\ i \in k .. Len(s) - 1 => At(i) = i + 1
    BY <2>2, <2>3
  <2>5. \A i, j \in 1 .. Len(r) : At(i) = At(j) => i = j
    BY <2>2, <2>3
  <2> HIDE DEF At
  <2>6. \A i \in 1 .. Len(r) : r[i] = s[At(i)]
    BY <2>2, <2>4
  <2>7. \A i, j \in 1 .. Len(r) : r[i] = r[j] => i = j
    BY <2>4, <2>5, <2>6, InjectivePositions
  <2>8. \A i \in 1 .. Len(r) : r[i] # e
    BY <2>1, <2>4, <2>6, InjectivePositions
  <2> QED
    BY <2>1, <2>2, <2>7, <2>8, InjectivePositions DEF r
<1> QED
  BY <1>1, <1>2

\* RecoverStale puts one list, turned around, in front of another.
LEMMA InjectiveRecover ==
    ASSUME NEW S, NEW s \in Seq(S), NEW p \in Seq(S), IsInjective(s), IsInjective(p),
           ToSet(s) \intersect ToSet(p) = {}
    PROVE  /\ IsInjective(Reverse(SubSeq(s, 1, Len(s))) \o p)
           /\ SubSeq(s, Len(s) + 1, Len(s)) = <<>>
<1> DEFINE n == Len(s)
           a == SubSeq(s, 1, n)
           r == Reverse(a)
           t == r \o p
<1>1. /\ n \in Nat /\ Len(p) \in Nat
      /\ \A i \in 1 .. n : s[i] \in S
  BY LenProperties, ElementOfSeq
<1>2. Len(a) = n /\ \A i \in 1 .. n : a[i] = s[i]
  <2>1. 1 \in 1 .. n + 1 /\ n \in 0 .. n /\ 1 <= n + 1
    BY <1>1
  <2>2. /\ Len(a) = n - 1 + 1
        /\ \A i \in 1 .. n - 1 + 1 : a[i] = s[1 + i - 1]
    BY <2>1, PartOfSeq
  <2> HIDE DEF a, n
  <2> QED
    BY <2>2, <1>1
<1>3. r \in Seq(S) /\ Len(r) = n /\ \A i \in 1 .. n : n - i + 1 \in 1 .. n /\ r[i] = s[n - i + 1]
  <2> HIDE DEF a, n
  <2>1. r = [i \in 1 .. n |-> a[n - i + 1]]
    BY <1>2 DEF Reverse
  <2>2. \A i \in 1 .. n : n - i + 1 \in 1 .. n /\ a[n - i + 1] = s[n - i + 1]
    BY <1>1, <1>2
  <2>3. \A i \in 1 .. n : a[n - i + 1] \in S
    BY <1>1, <2>2
  <2> QED
    BY <1>1, <2>1, <2>2, <2>3, IsASeq
<1> HIDE DEF r
<1>4. /\ t \in Seq(S)
      /\ Len(t) = n + Len(p)
      /\ \A i \in 1 .. n + Len(p) : t[i] = IF i <= n THEN r[i] ELSE p[i - n]
  <2>1. /\ t \in Seq(S)
        /\ Len(t) = Len(r) + Len(p)
        /\ \A i \in 1 .. Len(r) + Len(p) : t[i] = IF i <= Len(r) THEN r[i] ELSE p[i - Len(r)]
    BY <1>3, ConcatProperties
  <2> HIDE DEF n, t
  <2> QED
    BY <1>3, <2>1
<1>5. SubSeq(s, n + 1, n) = <<>>
  <2>1. n + 1 \in 1 .. n + 1 /\ n \in 0 .. n /\ n + 1 <= n + 1
    BY <1>1
  <2>2. SubSeq(s, n + 1, n) \in Seq(S) /\ Len(SubSeq(s, n + 1, n)) = n - (n + 1) + 1
    BY <2>1, PartOfSeq
  <2>3. n - (n + 1) + 1 = 0
    BY <1>1
  <2> QED
    BY <2>2, <2>3, EmptySeq
<1>u. \A i, j \in 1 .. n : s[i] = s[j] => i = j
  BY InjectivePositions
<1>v. \A i, j \in 1 .. Len(p) : p[i] = p[j] => i = j
  BY InjectivePositions
<1>w. \A i \in 1 .. n, j \in 1 .. Len(p) : s[i] # p[j]
  BY InjectivePositions
<1> HIDE DEF n, t
<1>6. ASSUME NEW i \in 1 .. Len(t), NEW j \in 1 .. Len(t), t[i] = t[j]
      PROVE  i = j
  <2>1. \A k \in 1 .. Len(t) :
           \/ k \in 1 .. n /\ t[k] = s[n - k + 1] /\ n - k + 1 \in 1 .. n
           \/ k - n \in 1 .. Len(p) /\ t[k] = p[k - n]
    <3> SUFFICES ASSUME NEW k \in 1 .. Len(t)
                 PROVE  \/ k \in 1 .. n /\ t[k] = s[n - k + 1] /\ n - k + 1 \in 1 .. n
                        \/ k - n \in 1 .. Len(p) /\ t[k] = p[k - n]
      OBVIOUS
    <3>1. CASE k <= n
      <4>1. k \in 1 .. n
        BY <1>1, <3>1
      <4> QED
        BY <1>1, <1>3, <1>4, <3>1, <4>1
    <3>2. CASE ~ (k <= n)
      <4>1. k - n \in 1 .. Len(p)
        BY <1>1, <1>4, <3>2
      <4> QED
        BY <1>4, <3>2, <4>1
    <3> QED
      BY <3>1, <3>2
  <2>2. CASE i \in 1 .. n /\ t[i] = s[n - i + 1] /\ n - i + 1 \in 1 .. n
    <3>1. j \in 1 .. n /\ t[j] = s[n - j + 1] /\ n - j + 1 \in 1 .. n
      BY <1>6, <2>1, <2>2, <1>w
    <3>2. n - i + 1 = n - j + 1
      BY <1>6, <2>2, <3>1, <1>u
    <3> QED
      BY <1>1, <2>2, <3>1, <3>2
  <2>3. CASE i - n \in 1 .. Len(p) /\ t[i] = p[i - n]
    <3>1. j - n \in 1 .. Len(p) /\ t[j] = p[j - n]
      BY <1>6, <2>1, <2>3, <1>w
    <3>2. i - n = j - n
      BY <1>6, <2>3, <3>1, <1>v
    <3>3. i \in Int /\ j \in Int
      BY <1>1, <1>4
    <3> QED
      BY <1>1, <3>2, <3>3
  <2> QED
    BY <2>1, <2>2, <2>3
<1> QED
  BY <1>4, <1>5, <1>6, InjectivePositions DEF t, n, r, a

----------------------------------------------------------------------------
(* How often an element occurs in a list.                                  *)

Positions(s, d) == {i \in 1 .. Len(s) : s[i] = d}

\* An element has finitely many occurrences.
LEMMA PositionsFinite ==
    ASSUME NEW S, NEW s \in Seq(S), NEW d
    PROVE  /\ IsFiniteSet(Positions(s, d))
           /\ Cardinality(Positions(s, d)) \in Nat
<1>1. IsFiniteSet(1 .. Len(s)) /\ Positions(s, d) \in SUBSET (1 .. Len(s))
  BY LenProperties, FS_Interval DEF Positions
<1> QED
  BY <1>1, FS_Subset, FS_CardinalityType

\* RPUSH adds one occurrence of its element and none of another.
LEMMA AppendPositions ==
    ASSUME NEW S, NEW s \in Seq(S), NEW e \in S, NEW d
    PROVE  Cardinality(Positions(Append(s, e), d))
             = Cardinality(Positions(s, d)) + (IF d = e THEN 1 ELSE 0)
<1> DEFINE n == Len(s) + 1
           P == Positions(s, d)
<1>1. /\ Len(Append(s, e)) = n
      /\ \A i \in 1 .. Len(s) : Append(s, e)[i] = s[i]
      /\ Append(s, e)[n] = e
  BY AppendProperties
<1>2. Len(s) \in Nat
  BY LenProperties
<1>3. Positions(Append(s, e), d) = IF d = e THEN P \union {n} ELSE P
  BY <1>1, <1>2 DEF Positions
<1>4. n \notin P
  BY <1>2 DEF Positions
<1>5. IsFiniteSet(P) /\ Cardinality(P) \in Nat
  BY PositionsFinite
<1>6. Cardinality(P \union {n}) = Cardinality(P) + 1
  BY <1>4, <1>5, FS_AddElement
<1> HIDE DEF n, P
<1>7. CASE d = e
  BY <1>3, <1>6, <1>7 DEF P
<1>8. CASE d # e
  BY <1>3, <1>5, <1>8 DEF P
<1> QED
  BY <1>7, <1>8

\* LREM 1 takes away at most one occurrence of its argument and none of another
\* element.
LEMMA RemoveFirstPositions ==
    ASSUME NEW S, NEW s \in Seq(S), NEW e, NEW d
    PROVE  Cardinality(Positions(s, d))
             <= Cardinality(Positions(RemoveFirst(s, e), d)) + (IF d = e THEN 1 ELSE 0)
<1>f. IsFiniteSet(Positions(s, d)) /\ Cardinality(Positions(s, d)) \in Nat
  BY PositionsFinite
<1>1. CASE ~ \E i \in 1 .. Len(s) : s[i] = e
  <2>1. RemoveFirst(s, e) = s
    BY <1>1 DEF RemoveFirst
  <2> QED
    BY <2>1, <1>f
<1>2. CASE \E i \in 1 .. Len(s) : s[i] = e
  <2>1. Len(s) \in Nat
    BY LenProperties
  <2>2. PICK k \in 1 .. Len(s) : s[k] = e /\ RemoveFirst(s, e) = RemoveAt(s, k)
    BY <1>2, FirstOccurrence
  <2> DEFINE r == RemoveAt(s, k)
             P == Positions(s, d) \ {k}
             R == Positions(r, d)
             f == [i \in P |-> IF i < k THEN i ELSE i - 1]
  <2>3. /\ r \in Seq(S)
        /\ Len(r) = Len(s) - 1
        /\ \A i \in 1 .. k - 1 : r[i] = s[i]
        /\ \A i \in k .. Len(s) - 1 : r[i] = s[i + 1]
    BY RemoveAtElements
  <2> HIDE DEF r
  <2>4. IsFiniteSet(R) /\ Cardinality(R) \in Nat
    BY <2>3, PositionsFinite
  <2>5. ASSUME NEW i \in P
        PROVE  (IF i < k THEN i ELSE i - 1) \in R
    <3>1. i \in 1 .. Len(s) /\ i # k /\ s[i] = d
      BY DEF Positions
    <3>2. CASE i < k
      <4>1. i \in 1 .. k - 1 /\ i \in 1 .. Len(s) - 1
        BY <2>1, <3>1, <3>2
      <4> QED
        BY <3>1, <3>2, <4>1, <2>3 DEF Positions
    <3>3. CASE ~ (i < k)
      <4>1. i - 1 \in k .. Len(s) - 1 /\ i - 1 \in 1 .. Len(s) - 1 /\ i - 1 + 1 = i
        BY <2>1, <3>1, <3>3
      <4>2. r[i - 1] = d
        BY <2>3, <3>1, <4>1
      <4> QED
        BY <3>3, <4>1, <4>2, <2>3 DEF Positions
    <3> QED
      BY <3>2, <3>3
  <2>6. P \subseteq Int /\ k \in Int /\ k \notin P
    BY <2>1 DEF Positions
  <2> HIDE DEF P, R
  <2>7. f \in Injection(P, R)
    <3>1. f \in [P -> R]
      BY <2>5
    <3>2. \A i, j \in P : f[i] = f[j] => i = j
      BY <2>6
    <3> QED
      BY <3>1, <3>2 DEF Injection, IsInjective
  <2>8. Cardinality(P) <= Cardinality(R)
    BY <2>4, <2>7, FS_Injection
  <2>9. Cardinality(P) = Cardinality(Positions(s, d)) - (IF d = e THEN 1 ELSE 0)
    <3>1. k \in Positions(s, d) <=> d = e
      BY <2>2 DEF Positions
    <3>2. Cardinality(Positions(s, d) \ {k})
            = IF k \in Positions(s, d) THEN Cardinality(Positions(s, d)) - 1
                                      ELSE Cardinality(Positions(s, d))
      BY <1>f, FS_RemoveElement
    <3>3. CASE d = e
      BY <3>1, <3>2, <3>3 DEF P
    <3>4. CASE d # e
      BY <3>1, <3>2, <3>4, <1>f DEF P
    <3> QED
      BY <3>3, <3>4
  <2> QED
    BY <2>2, <2>4, <2>8, <2>9, <1>f DEF r, R
<1> QED
  BY <1>1, <1>2

----------------------------------------------------------------------------
(* Sums.                                                                   *)

\* Induction over Nat, on a set instead of a predicate.
LEMMA SetOfAllNats ==
    ASSUME NEW P \in SUBSET Nat, 0 \in P, \A n \in P : n + 1 \in P
    PROVE  P = Nat
<1>1. SUFFICES ASSUME Nat \ P # {} PROVE FALSE
  OBVIOUS
<1>2. PICK n \in Nat \ P : \A m \in Nat \ P : n <= m
  BY <1>1, LeastElement
<1>3. n - 1 \in Nat /\ n - 1 \notin Nat \ P
  BY <1>2
<1> QED
  BY <1>2, <1>3

\* The element of s that the folds of the community modules take out first.
Chosen(s) == CHOOSE x \in s : TRUE

\* One unfolding of a sum over the sets of indices.
Unfolded(f, S, g) ==
    [s \in SUBSET S |-> IF s = {} THEN 0 ELSE f[Chosen(s)] + g[s \ {Chosen(s)}]]

\* The sum of f over each subset of S, as the folds of the community modules define it.
SumOver(f, S) == CHOOSE g : g = Unfolded(f, S, g)

\* There is such a function: by induction on n, one that is right for sets of up to
\* n elements.
LEMMA SumUnfolds ==
    ASSUME NEW f, NEW S, IsFiniteSet(S)
    PROVE  SumOver(f, S) = Unfolded(f, S, SumOver(f, S))
<1> DEFINE Fits(g, n) == \A s \in SUBSET S : Cardinality(s) <= n => g[s] = Unfolded(f, S, g)[s]
           P == {n \in Nat : \E g : g = [s \in SUBSET S |-> g[s]] /\ Fits(g, n)}
<1>0. \A s \in SUBSET S : /\ IsFiniteSet(s) /\ Cardinality(s) \in Nat
                          /\ Cardinality(s) = 0 <=> s = {}
                          /\ Cardinality(s) <= Cardinality(S)
                          /\ s # {} => /\ s \ {Chosen(s)} \in SUBSET S
                                       /\ Cardinality(s \ {Chosen(s)}) = Cardinality(s) - 1
  BY FS_Subset, FS_CardinalityType, FS_EmptySet, FS_RemoveElement DEF Chosen
<1>1. 0 \in P
  <2> DEFINE g == [s \in SUBSET S |-> 0]
  <2>1. g = [s \in SUBSET S |-> g[s]]
    OBVIOUS
  <2>2. Fits(g, 0)
    <3> SUFFICES ASSUME NEW s \in SUBSET S, Cardinality(s) <= 0
                 PROVE  g[s] = Unfolded(f, S, g)[s]
      OBVIOUS
    <3>1. Cardinality(s) \in Nat
      BY <1>0
    <3>2. Cardinality(s) = 0
      BY <3>1
    <3>3. s = {}
      BY <1>0, <3>2
    <3> QED
      BY <3>3 DEF Unfolded
  <2> HIDE DEF g, Fits
  <2> QED
    BY <2>1, <2>2
<1>2. ASSUME NEW n \in P PROVE n + 1 \in P
  <2>1. PICK g : g = [s \in SUBSET S |-> g[s]] /\ Fits(g, n)
    OBVIOUS
  <2> DEFINE h == Unfolded(f, S, g)
  <2>2. h = [s \in SUBSET S |-> h[s]]
    BY DEF Unfolded
  <2>3. Fits(h, n + 1)
    <3> SUFFICES ASSUME NEW s \in SUBSET S, Cardinality(s) <= n + 1
                 PROVE  h[s] = Unfolded(f, S, h)[s]
      OBVIOUS
    <3>1. CASE s = {}
      BY <3>1 DEF Unfolded
    <3>2. CASE s # {}
      <4> DEFINE t == s \ {Chosen(s)}
      <4>1. t \in SUBSET S /\ Cardinality(t) <= n
        BY <1>0, <3>2
      <4>2. g[t] = Unfolded(f, S, g)[t]
        BY <2>1, <4>1
      <4>3. g[t] = h[t]
        BY <4>2
      <4> QED
        BY <3>2, <4>3 DEF Unfolded
    <3> QED
      BY <3>1, <3>2
  <2> HIDE DEF h, Fits
  <2> QED
    BY <2>2, <2>3
<1>3. P = Nat
  <2> HIDE DEF P
  <2>1. P \in SUBSET Nat
    BY DEF P
  <2> QED
    BY <1>1, <1>2, <2>1, SetOfAllNats
<1>4. Cardinality(S) \in Nat
  BY FS_CardinalityType
<1>5. PICK g : g = [s \in SUBSET S |-> g[s]] /\ Fits(g, Cardinality(S))
  BY <1>3, <1>4
<1>6. g = Unfolded(f, S, g)
  <2>1. \A s \in SUBSET S : g[s] = Unfolded(f, S, g)[s]
    BY <1>0, <1>5
  <2> QED
    BY <1>5, <2>1 DEF Unfolded
<1> QED
  BY <1>6 DEF SumOver

\* What SumOver computes, one element at a time.
LEMMA SumSteps ==
    ASSUME NEW f, NEW S, IsFiniteSet(S)
    PROVE  /\ SumOver(f, S)[{}] = 0
           /\ \A s \in SUBSET S :
                 s # {} => SumOver(f, S)[s] = f[Chosen(s)] + SumOver(f, S)[s \ {Chosen(s)}]
<1> DEFINE g == SumOver(f, S)
<1>1. g = Unfolded(f, S, g)
  BY SumUnfolds
<1> HIDE DEF g
<1>2. /\ Unfolded(f, S, g)[{}] = 0
      /\ \A s \in SUBSET S : s # {} => Unfolded(f, S, g)[s] = f[Chosen(s)] + g[s \ {Chosen(s)}]
  BY DEF Unfolded
<1>3. g[{}] = 0 /\ \A s \in SUBSET S : s # {} => g[s] = f[Chosen(s)] + g[s \ {Chosen(s)}]
  BY <1>1, <1>2
<1> QED
  BY <1>3 DEF g

\* Induction over the subsets of a finite set, in the order the sums take elements out.
LEMMA SubsetInduction ==
    ASSUME NEW S, IsFiniteSet(S), NEW P \in SUBSET SUBSET S, {} \in P,
           \A s \in SUBSET S : s # {} /\ s \ {Chosen(s)} \in P => s \in P
    PROVE  P = SUBSET S
<1>0. \A s \in SUBSET S : /\ Cardinality(s) \in Nat
                          /\ Cardinality(s) = 0 => s = {}
                          /\ s # {} => /\ s \ {Chosen(s)} \in SUBSET S
                                       /\ Cardinality(s \ {Chosen(s)}) = Cardinality(s) - 1
  BY FS_Subset, FS_CardinalityType, FS_EmptySet, FS_RemoveElement DEF Chosen
<1> DEFINE N == {n \in Nat : \A s \in SUBSET S : Cardinality(s) <= n => s \in P}
<1>1. 0 \in N
  <2> SUFFICES ASSUME NEW s \in SUBSET S, Cardinality(s) <= 0 PROVE s \in P
    OBVIOUS
  <2>1. Cardinality(s) \in Nat
    BY <1>0
  <2>2. Cardinality(s) = 0
    BY <2>1
  <2> QED
    BY <1>0, <2>2
<1>2. ASSUME NEW n \in N PROVE n + 1 \in N
  <2> SUFFICES ASSUME NEW s \in SUBSET S, Cardinality(s) <= n + 1 PROVE s \in P
    OBVIOUS
  <2>1. CASE s = {}
    BY <2>1
  <2>2. CASE s # {}
    <3> DEFINE t == s \ {Chosen(s)}
    <3>1. t \in SUBSET S /\ Cardinality(t) <= n
      BY <1>0, <2>2
    <3> QED
      BY <2>2, <3>1
  <2> QED
    BY <2>1, <2>2
<1>3. N = Nat
  <2> HIDE DEF N
  <2>1. N \in SUBSET Nat
    BY DEF N
  <2> QED
    BY <1>1, <1>2, <2>1, SetOfAllNats
<1>4. \A s \in SUBSET S : s \in P
  <2> TAKE s \in SUBSET S
  <2>1. PICK n \in Nat : n = Cardinality(s)
    BY <1>0
  <2>2. n \in N /\ n <= n
    BY <1>3
  <2> QED
    BY <2>1, <2>2
<1> QED
  BY <1>4

\* A sum of naturals is a natural.
LEMMA SumOfNats ==
    ASSUME NEW f, NEW S, IsFiniteSet(S), \A i \in S : f[i] \in Nat
    PROVE  \A s \in SUBSET S : SumOver(f, S)[s] \in Nat
<1> DEFINE P == {s \in SUBSET S : SumOver(f, S)[s] \in Nat}
<1>1. {} \in P
  BY SumSteps
<1>2. ASSUME NEW s \in SUBSET S, s # {}, s \ {Chosen(s)} \in P PROVE s \in P
  <2>1. f[Chosen(s)] \in Nat
    BY <1>2 DEF Chosen
  <2>2. SumOver(f, S)[s] = f[Chosen(s)] + SumOver(f, S)[s \ {Chosen(s)}]
    BY <1>2, SumSteps
  <2> QED
    BY <1>2, <2>1, <2>2
<1> HIDE DEF P
<1>3. P \in SUBSET SUBSET S
  BY DEF P
<1>4. P = SUBSET S
  BY <1>1, <1>2, <1>3, SubsetInduction
<1> QED
  BY <1>4 DEF P

\* The sum of the squares of numbers up to b is at most b times their sum, and, by
\* Cauchy and Schwarz, at least the square of their sum over how many they are.
LEMMA SumOfSquares ==
    ASSUME NEW S, IsFiniteSet(S), NEW b \in Nat, NEW f, NEW q,
           \A i \in S : f[i] \in 0 .. b /\ q[i] = f[i] * f[i]
    PROVE  /\ SumOver(f, S)[S] \in Nat
           /\ SumOver(q, S)[S] \in Nat
           /\ SumOver(q, S)[S] <= b * SumOver(f, S)[S]
           /\ SumOver(f, S)[S] * SumOver(f, S)[S] <= Cardinality(S) * SumOver(q, S)[S]
<1> DEFINE P == {s \in SUBSET S :
                   /\ SumOver(q, S)[s] <= b * SumOver(f, S)[s]
                   /\ SumOver(f, S)[s] * SumOver(f, S)[s] <= Cardinality(s) * SumOver(q, S)[s]}
<1>0. \A i \in S : f[i] \in Nat /\ q[i] \in Nat /\ q[i] <= b * f[i]
  <2> TAKE i \in S
  <2>1. PICK x \in Nat : x = f[i] /\ x <= b
    OBVIOUS
  <2>2. x * x \in Nat /\ x * x <= b * x
    BY <2>1
  <2> QED
    BY <2>1, <2>2
<1>n. \A s \in SUBSET S : /\ SumOver(f, S)[s] \in Nat /\ SumOver(q, S)[s] \in Nat
                          /\ IsFiniteSet(s) /\ Cardinality(s) \in Nat
  BY <1>0, SumOfNats, FS_Subset, FS_CardinalityType
<1>1. {} \in P
  BY SumSteps, FS_EmptySet
<1>2. ASSUME NEW s \in SUBSET S, s # {}, s \ {Chosen(s)} \in P PROVE s \in P
  <2> DEFINE t == s \ {Chosen(s)}
  <2>1. Chosen(s) \in s /\ t \in SUBSET S
    BY <1>2 DEF Chosen
  <2>2. PICK x \in Nat : x = f[Chosen(s)] /\ x * x = q[Chosen(s)] /\ x * x <= b * x
    BY <1>0, <2>1
  <2>3. PICK u \in Nat, v \in Nat, k \in Nat :
           u = SumOver(f, S)[t] /\ v = SumOver(q, S)[t] /\ k = Cardinality(t)
    BY <1>n, <2>1
  <2>4. SumOver(f, S)[s] = x + u /\ SumOver(q, S)[s] = x * x + v
    BY <1>2, <2>2, <2>3, SumSteps
  <2>5. Cardinality(s) = k + 1
    BY <1>n, <2>1, <2>3, FS_RemoveElement
  <2>6. v <= b * u /\ u * u <= k * v
    BY <1>2, <2>3
  <2>7. x * x + v <= b * (x + u)
    BY <2>2, <2>6
  <2>8. (x + u) * (x + u) <= (k + 1) * (x * x + v)
    BY <2>6
  <2> QED
    BY <2>4, <2>5, <2>7, <2>8
<1> HIDE DEF P
<1>3. P \in SUBSET SUBSET S
  BY DEF P
<1>4. P = SUBSET S
  BY <1>1, <1>2, <1>3, SubsetInduction
<1> QED
  BY <1>4, <1>n DEF P
=============================================================================
