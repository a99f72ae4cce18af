--------------------------- MODULE JsArrayProofs ----------------------------
(***************************************************************************)
(* What push, shift and splice do to the entries of an array with distinct *)
(* entries.                                                                *)
(***************************************************************************)
EXTENDS JsArray, SequenceTheorems, FiniteSetTheorems, WellFoundedInduction, TLAPS

(* push adds its argument and keeps entries distinct.                      *)
LEMMA PushFacts ==
    ASSUME NEW S, NEW s \in Seq(S), NEW e \in S
    PROVE  /\ Append(s, e) \in Seq(S)
           /\ Append(s, e) # <<>>
           /\ ToSet(Append(s, e)) = ToSet(s) \cup {e}
           /\ IsInjective(s) /\ e \notin ToSet(s) => IsInjective(Append(s, e))
<1>1. /\ Append(s, e) \in Seq(S) /\ Append(s, e) # <<>>
      /\ DOMAIN s = 1..Len(s)
      /\ DOMAIN Append(s, e) = 1..(Len(s) + 1)
      /\ \A i \in 1..Len(s) : Append(s, e)[i] = s[i]
      /\ Append(s, e)[Len(s) + 1] = e
      /\ Len(s) \in Nat
  BY AppendProperties, LenProperties
<1>2. ToSet(Append(s, e)) = ToSet(s) \cup {e}
  BY <1>1 DEF ToSet
<1>3. ASSUME IsInjective(s), e \notin ToSet(s)
      PROVE  IsInjective(Append(s, e))
  <2> SUFFICES ASSUME NEW a \in 1..(Len(s) + 1), NEW b \in 1..(Len(s) + 1),
                      Append(s, e)[a] = Append(s, e)[b]
               PROVE  a = b
    BY <1>1 DEF IsInjective
  <2>1. CASE a \in 1..Len(s) /\ b \in 1..Len(s)
    BY <1>1, <1>3, <2>1 DEF IsInjective
  <2>2. CASE a = Len(s) + 1 \/ b = Len(s) + 1
    BY <1>1, <1>3, <2>2 DEF ToSet
  <2> QED BY <1>1, <2>1, <2>2
<1> QED BY <1>1, <1>2, <1>3

(* shift takes the first entry off; it does not occur in the rest.         *)
LEMMA ShiftFacts ==
    ASSUME NEW S, NEW s \in Seq(S), s # <<>>
    PROVE  /\ Head(s) \in S /\ Tail(s) \in Seq(S)
           /\ ToSet(s) = {Head(s)} \cup ToSet(Tail(s))
           /\ IsInjective(s) => IsInjective(Tail(s)) /\ Head(s) \notin ToSet(Tail(s))
<1>1. /\ Head(s) \in S /\ Tail(s) \in Seq(S)
      /\ Head(s) = s[1]
      /\ Len(s) \in Nat \ {0}
      /\ DOMAIN s = 1..Len(s)
      /\ DOMAIN Tail(s) = 1..(Len(s) - 1)
      /\ \A i \in 1..(Len(s) - 1) : Tail(s)[i] = s[i + 1]
  BY HeadTailProperties, LenProperties, EmptySeq
<1>2. ToSet(s) = {Head(s)} \cup ToSet(Tail(s))
  <2>1. ASSUME NEW x \in ToSet(s) PROVE x \in {Head(s)} \cup ToSet(Tail(s))
    <3>1. PICK i \in 1..Len(s) : x = s[i]
      BY <1>1 DEF ToSet
    <3>2. CASE i = 1
      BY <1>1, <3>1, <3>2
    <3>3. CASE i # 1
      <4>1. i - 1 \in 1..(Len(s) - 1) /\ Tail(s)[i - 1] = x
        BY <1>1, <3>1, <3>3
      <4> QED BY <1>1, <4>1 DEF ToSet
    <3> QED BY <3>2, <3>3
  <2>2. {Head(s)} \cup ToSet(Tail(s)) \subseteq ToSet(s)
    BY <1>1 DEF ToSet
  <2> QED BY <2>1, <2>2
<1>3. ASSUME IsInjective(s)
      PROVE  IsInjective(Tail(s)) /\ Head(s) \notin ToSet(Tail(s))
  BY <1>1, <1>3 DEF IsInjective, ToSet
<1> QED BY <1>1, <1>2, <1>3

(* Removing one position moves the later entries up by one.                *)
LEMMA RemoveAtPlaces ==
    ASSUME NEW S, NEW s \in Seq(S), NEW i \in 1..Len(s)
    PROVE  /\ RemoveAt(s, i) \in Seq(S) /\ Len(RemoveAt(s, i)) = Len(s) - 1
           /\ DOMAIN RemoveAt(s, i) = 1..(Len(s) - 1)
           /\ \A k \in 1..(Len(s) - 1) :
                 RemoveAt(s, i)[k] = IF k < i THEN s[k] ELSE s[k + 1]
<1> DEFINE l == SubSeq(s, 1, i - 1)
           r == SubSeq(s, i + 1, Len(s))
           q == RemoveAt(s, i)
<1>1. Len(s) \in Nat /\ \A k \in 1..Len(s) : s[k] \in S
  BY LenProperties, ElementOfSeq
<1>2. /\ l \in Seq(S) /\ Len(l) = i - 1
      /\ \A k \in 1..(i - 1) : l[k] = s[k]
  BY <1>1, SubSeqProperties
<1>3. /\ r \in Seq(S) /\ Len(r) = Len(s) - i
      /\ \A k \in 1..(Len(s) - i) : r[k] = s[k + i]
  BY <1>1, SubSeqProperties
<1>4. /\ q \in Seq(S) /\ Len(q) = Len(s) - 1
      /\ DOMAIN q = 1..(Len(s) - 1)
      /\ \A k \in 1..(Len(s) - 1) : q[k] = IF k < i THEN s[k] ELSE s[k + 1]
  <2>1. q = l \o r
    BY DEF RemoveAt
  <2> HIDE DEF l, r, q
  <2>2. /\ q \in Seq(S)
        /\ Len(q) = Len(l) + Len(r)
        /\ \A k \in 1..(Len(l) + Len(r)) :
              q[k] = IF k <= Len(l) THEN l[k] ELSE r[k - Len(l)]
    BY <1>2, <1>3, <2>1, ConcatProperties
  <2>3. Len(q) = Len(s) - 1
    BY <1>1, <1>2, <1>3, <2>2
  <2>4. ASSUME NEW k \in 1..(Len(s) - 1)
        PROVE  q[k] = IF k < i THEN s[k] ELSE s[k + 1]
    <3>1. CASE k < i
      <4>1. k \in 1..(i - 1) /\ k <= Len(l) /\ k \in 1..(Len(l) + Len(r))
        BY <1>1, <1>2, <1>3, <3>1
      <4>2. q[k] = l[k]
        BY <2>2, <4>1
      <4>3. l[k] = s[k]
        BY <1>2, <4>1
      <4> QED BY <3>1, <4>2, <4>3
    <3>2. CASE k >= i
      <4>1. /\ k - (i - 1) \in 1..(Len(s) - i)
            /\ (k - (i - 1)) + i = k + 1
            /\ k - Len(l) = k - (i - 1)
            /\ ~(k <= Len(l)) /\ ~(k < i) /\ k \in 1..(Len(l) + Len(r))
        BY <1>1, <1>2, <1>3, <3>2
      <4>2. q[k] = r[k - (i - 1)]
        BY <2>2, <4>1
      <4>3. r[k - (i - 1)] = s[k + 1]
        BY <1>3, <4>1
      <4> QED BY <4>1, <4>2, <4>3
    <3> QED BY <1>1, <3>1, <3>2
  <2> QED BY <2>2, <2>3, <2>4, LenProperties
<1> QED BY <1>4

(* Removing one position keeps the other entries, distinct if they were.   *)
LEMMA RemoveAtFacts ==
    ASSUME NEW S, NEW s \in Seq(S), NEW i \in 1..Len(s)
    PROVE  /\ RemoveAt(s, i) \in Seq(S)
           /\ ToSet(RemoveAt(s, i)) = {s[k] : k \in (1..Len(s)) \ {i}}
           /\ IsInjective(s) => IsInjective(RemoveAt(s, i))
<1> DEFINE q == RemoveAt(s, i)
<1>1. Len(s) \in Nat /\ \A k \in 1..Len(s) : s[k] \in S
  BY LenProperties, ElementOfSeq
<1>4. /\ q \in Seq(S) /\ Len(q) = Len(s) - 1
      /\ DOMAIN q = 1..(Len(s) - 1)
      /\ \A k \in 1..(Len(s) - 1) : q[k] = IF k < i THEN s[k] ELSE s[k + 1]
  BY RemoveAtPlaces
<1> HIDE DEF q
<1>5. ToSet(q) = {s[k] : k \in (1..Len(s)) \ {i}}
  <2>1. ASSUME NEW k \in (1..Len(s)) \ {i} PROVE s[k] \in ToSet(q)
    <3>1. CASE k < i
      <4>1. k \in 1..(Len(s) - 1) /\ q[k] = s[k]
        BY <1>1, <1>4, <3>1
      <4> QED BY <1>4, <4>1 DEF ToSet
    <3>2. CASE k > i
      <4>1. k - 1 \in 1..(Len(s) - 1) /\ q[k - 1] = s[k]
        BY <1>1, <1>4, <3>2
      <4> QED BY <1>4, <4>1 DEF ToSet
    <3> QED BY <1>1, <3>1, <3>2
  <2>2. ASSUME NEW k \in 1..(Len(s) - 1) PROVE q[k] \in {s[m] : m \in (1..Len(s)) \ {i}}
    BY <1>1, <1>4
  <2> QED BY <1>4, <2>1, <2>2 DEF ToSet
<1>6. ASSUME IsInjective(s) PROVE IsInjective(q)
  <2> DEFINE at(k) == IF k < i THEN k ELSE k + 1
  <2>1. ASSUME NEW a \in 1..(Len(s) - 1), NEW b \in 1..(Len(s) - 1), q[a] = q[b]
        PROVE  a = b
    <3>1. /\ at(a) \in 1..Len(s) /\ at(b) \in 1..Len(s)
          /\ at(a) = at(b) => a = b
      BY <1>1
    <3>2. q[a] = s[at(a)] /\ q[b] = s[at(b)]
      BY <1>4
    <3> HIDE DEF at
    <3>3. s[at(a)] = s[at(b)]
      BY <2>1, <3>2
    <3>4. \A k, m \in 1..Len(s) : s[k] = s[m] => k = m
      BY <1>6, LenProperties DEF IsInjective
    <3>5. at(a) = at(b)
      BY <3>1, <3>3, <3>4
    <3> QED BY <3>1, <3>5
  <2> QED BY <1>4, <2>1 DEF IsInjective
<1> QED BY <1>4, <1>5, <1>6 DEF q

(* splice(indexOf(x), 1) moves up by one the entries after some x.         *)
LEMMA SpliceOutPlaces ==
    ASSUME NEW S, NEW s \in Seq(S), NEW x, Contains(s, x)
    PROVE  /\ SpliceOut(s, x) \in Seq(S) /\ Len(SpliceOut(s, x)) = Len(s) - 1
           /\ \E i \in 1..Len(s) :
                 /\ s[i] = x
                 /\ \A k \in 1..(Len(s) - 1) :
                       SpliceOut(s, x)[k] = IF k < i THEN s[k] ELSE s[k + 1]
<1> DEFINE i == CHOOSE k \in DOMAIN s : s[k] = x
<1>1. i \in 1..Len(s) /\ s[i] = x
  BY LenProperties DEF Contains
<1>2. SpliceOut(s, x) = RemoveAt(s, i)
  BY DEF SpliceOut
<1> HIDE DEF i
<1>3. /\ RemoveAt(s, i) \in Seq(S) /\ Len(RemoveAt(s, i)) = Len(s) - 1
      /\ \A k \in 1..(Len(s) - 1) :
            RemoveAt(s, i)[k] = IF k < i THEN s[k] ELSE s[k + 1]
  BY <1>1, RemoveAtPlaces
<1> QED BY <1>1, <1>2, <1>3

(* splice(indexOf(x), 1) leaves an array of the same kind.                 *)
LEMMA SpliceOutType ==
    ASSUME NEW S, NEW s \in Seq(S), NEW x
    PROVE  SpliceOut(s, x) \in Seq(S)
<1>1. CASE Contains(s, x)
  <2> DEFINE i == CHOOSE k \in DOMAIN s : s[k] = x
  <2>1. i \in 1..Len(s)
    BY <1>1, LenProperties DEF Contains
  <2> HIDE DEF i
  <2>2. RemoveAt(s, i) \in Seq(S)
    BY <2>1, RemoveAtFacts
  <2> QED BY <1>1, <2>2 DEF SpliceOut, i
<1>2. CASE ~Contains(s, x)
  <2>1. \A k \in 1..(Len(s) - 1) : s[k] \in S
    BY LenProperties, ElementOfSeq
  <2>2. SubSeq(s, 1, Len(s) - 1) \in Seq(S)
    BY <2>1, LenProperties, SubSeqProperties
  <2> QED BY <1>2, <2>2 DEF SpliceOut, Front
<1> QED BY <1>1, <1>2

(* splice(indexOf(x), 1) never adds an entry, keeps entries distinct, and  *)
(* removes exactly x when x is there.                                      *)
LEMMA SpliceOutFacts ==
    ASSUME NEW S, NEW s \in Seq(S), NEW x, IsInjective(s)
    PROVE  /\ SpliceOut(s, x) \in Seq(S)
           /\ ToSet(SpliceOut(s, x)) \subseteq ToSet(s)
           /\ IsInjective(SpliceOut(s, x))
           /\ x \notin ToSet(SpliceOut(s, x))
           /\ x \in ToSet(s) => ToSet(SpliceOut(s, x)) = ToSet(s) \ {x}
<1>1. DOMAIN s = 1..Len(s) /\ Len(s) \in Nat /\ ToSet(s) = {s[k] : k \in 1..Len(s)}
  BY LenProperties DEF ToSet
<1>2. CASE Contains(s, x)
  <2> DEFINE i == CHOOSE k \in DOMAIN s : s[k] = x
  <2>1. i \in 1..Len(s) /\ s[i] = x
    BY <1>1, <1>2 DEF Contains
  <2>2. SpliceOut(s, x) = RemoveAt(s, i)
    BY <1>2 DEF SpliceOut
  <2> HIDE DEF i
  <2>3. {s[k] : k \in (1..Len(s)) \ {i}} = ToSet(s) \ {x}
    BY <1>1, <2>1 DEF IsInjective
  <2>4. /\ SpliceOut(s, x) \in Seq(S) /\ IsInjective(SpliceOut(s, x))
        /\ ToSet(SpliceOut(s, x)) = ToSet(s) \ {x}
    <3>1. /\ RemoveAt(s, i) \in Seq(S) /\ IsInjective(RemoveAt(s, i))
          /\ ToSet(RemoveAt(s, i)) = {s[k] : k \in (1..Len(s)) \ {i}}
      BY <2>1, RemoveAtFacts
    <3> QED BY <2>2, <2>3, <3>1
  <2> QED BY <2>4
<1>3. CASE ~Contains(s, x)
  <2>1. SpliceOut(s, x) = SubSeq(s, 1, Len(s) - 1) /\ x \notin ToSet(s)
    BY <1>1, <1>3 DEF SpliceOut, Front, Contains
  <2>2. \A k \in 1..(Len(s) - 1) : s[k] \in S
    BY <1>1, ElementOfSeq
  <2> DEFINE f == SubSeq(s, 1, Len(s) - 1)
  <2>3. /\ f \in Seq(S)
        /\ Len(f) = IF 1 <= Len(s) - 1 THEN Len(s) - 1 ELSE 0
        /\ \A k \in 1..(Len(s) - 1) : f[k] = s[k]
    BY <1>1, <2>2, SubSeqProperties
  <2>4. DOMAIN f = 1..(Len(s) - 1)
    BY <1>1, <2>3, LenProperties
  <2> HIDE DEF f
  <2>5. \A k \in DOMAIN f : k \in DOMAIN s /\ f[k] = s[k]
    <3>1. 1..(Len(s) - 1) \subseteq 1..Len(s)
      BY <1>1
    <3> QED BY <1>1, <2>3, <2>4, <3>1, Zenon
  <2>6. ToSet(f) \subseteq ToSet(s) /\ IsInjective(f)
    BY <2>5 DEF ToSet, IsInjective
  <2> QED BY <2>1, <2>3, <2>6 DEF f
<1> QED BY <1>2, <1>3

(* pop takes the last entry and leaves the others where they are.          *)
LEMMA PopFacts ==
    ASSUME NEW S, NEW s \in Seq(S), s # <<>>
    PROVE  /\ Last(s) \in S /\ Front(s) \in Seq(S)
           /\ Len(Front(s)) = Len(s) - 1
           /\ \A i \in 1..(Len(s) - 1) : Front(s)[i] = s[i]
           /\ ToSet(s) = ToSet(Front(s)) \cup {Last(s)}
<1>1. Len(s) \in Nat \ {0} /\ DOMAIN s = 1..Len(s)
  BY LenProperties, EmptySeq
<1>2. \A i \in 1..(Len(s) - 1) : s[i] \in S
  BY <1>1, ElementOfSeq
<1>3. /\ Front(s) \in Seq(S) /\ Len(Front(s)) = Len(s) - 1
      /\ \A i \in 1..(Len(s) - 1) : Front(s)[i] = s[i]
  BY <1>1, <1>2, SubSeqProperties DEF Front
<1>4. Last(s) = s[Len(s)] /\ Last(s) \in S
  BY <1>1, ElementOfSeq DEF Last
<1>5. DOMAIN Front(s) = 1..(Len(s) - 1)
  BY <1>3, LenProperties
<1>6. ToSet(Front(s)) = {s[i] : i \in 1..(Len(s) - 1)}
  BY <1>3, <1>5 DEF ToSet
<1>7. 1..Len(s) = (1..(Len(s) - 1)) \cup {Len(s)}
  BY <1>1
<1>8. ToSet(s) = {s[i] : i \in 1..Len(s)}
  BY <1>1 DEF ToSet
<1>9. ToSet(s) = ToSet(Front(s)) \cup {Last(s)}
  BY <1>4, <1>6, <1>7, <1>8
<1> QED BY <1>3, <1>4, <1>9

(* splice(indexOf(x), 1) never makes an array longer.                      *)
LEMMA SpliceOutShorter ==
    ASSUME NEW S, NEW s \in Seq(S), NEW x
    PROVE  Len(SpliceOut(s, x)) <= Len(s)
<1>1. Len(s) \in Nat /\ DOMAIN s = 1..Len(s) /\ \A k \in 1..Len(s) : s[k] \in S
  BY LenProperties, ElementOfSeq
<1>2. CASE Contains(s, x)
  <2> DEFINE i == CHOOSE k \in DOMAIN s : s[k] = x
             l == SubSeq(s, 1, i - 1)
             r == SubSeq(s, i + 1, Len(s))
  <2>1. i \in 1..Len(s)
    BY <1>1, <1>2 DEF Contains
  <2>2. SpliceOut(s, x) = l \o r
    BY <1>2 DEF SpliceOut, RemoveAt
  <2> HIDE DEF i
  <2>3. l \in Seq(S) /\ Len(l) = i - 1
    BY <1>1, <2>1, SubSeqProperties
  <2>4. r \in Seq(S) /\ Len(r) = Len(s) - i
    <3>1. Len(r) = IF i + 1 <= Len(s) THEN Len(s) - (i + 1) + 1 ELSE 0
      BY <1>1, <2>1, SubSeqProperties
    <3>2. r \in Seq(S)
      BY <1>1, <2>1, SubSeqProperties
    <3> HIDE DEF r
    <3>3. i \in Nat /\ i <= Len(s) /\ Len(s) \in Nat
      BY <1>1, <2>1
    <3>4. Len(r) = Len(s) - i
      BY <3>1, <3>3
    <3> QED BY <3>2, <3>4
  <2> HIDE DEF l, r
  <2>5. Len(l \o r) = Len(l) + Len(r)
    BY <2>3, <2>4, ConcatProperties
  <2> QED BY <1>1, <2>1, <2>2, <2>3, <2>4, <2>5
<1>3. CASE ~Contains(s, x)
  <2>1. SpliceOut(s, x) = SubSeq(s, 1, Len(s) - 1)
    BY <1>3 DEF SpliceOut, Front
  <2>2. Len(SubSeq(s, 1, Len(s) - 1)) = IF 1 <= Len(s) - 1 THEN Len(s) - 1 ELSE 0
    BY <1>1, SubSeqProperties
  <2> QED BY <1>1, <2>1, <2>2
<1> QED BY <1>2, <1>3

(* A set of natural numbers has a smallest.                                *)
LEMMA Smallest ==
    ASSUME NEW T, T \subseteq Nat, T # {}
    PROVE  \E m \in T : \A n \in T : m <= n
<1> DEFINE U == {0..n : n \in T}
           R == StrictSubsetOrdering(Nat)
           F == FiniteSubsetsOf(Nat)
<1>1. IsWellFoundedOn(R, F)
  BY FS_StrictSubsetOrderingWellFounded
<1>2. U \subseteq F /\ U # {}
  <2>1. \A n \in Nat : 0..n \subseteq Nat /\ IsFiniteSet(0..n)
    <3> SUFFICES ASSUME NEW n \in Nat PROVE 0..n \subseteq Nat /\ IsFiniteSet(0..n)
      OBVIOUS
    <3>1. 0 \in Int /\ n \in Int
      OBVIOUS
    <3> QED BY <3>1, FS_Interval
  <2> QED BY <2>1 DEF FiniteSubsetsOf
<1> HIDE DEF U, R, F
<1>3. PICK x \in U : \A y \in U : ~(<<y, x>> \in R)
  BY <1>1, <1>2, WFMin
<1>4. PICK m \in T : x = 0..m
  BY <1>3 DEF U
<1>5. ASSUME NEW n \in T, ~(m <= n) PROVE FALSE
  <2>1. 0..n \in U
    BY DEF U
  <2>2. /\ 0..n \subseteq Nat /\ 0..m \subseteq Nat /\ 0..n \subseteq 0..m
        /\ m \in 0..m /\ m \notin 0..n
    BY <1>5
  <2>3. <<0..n, 0..m>> \in R
    BY <2>2 DEF R, StrictSubsetOrdering
  <2> QED BY <1>3, <1>4, <2>1, <2>3
<1> QED BY <1>4, <1>5
=============================================================================
