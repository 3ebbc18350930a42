------------------------------ MODULE DataLemmas ------------------------------
(***************************************************************************)
(* Facts about sequences and finite sets for the proofs of the components, *)
(* those that need induction included.  The library's induction theorems   *)
(* take an operator; Induction takes the set of the numbers reached, and   *)
(* rests on the least element of a well-founded set.                       *)
(***************************************************************************)
EXTENDS SequencesExt, SequenceTheorems, FiniteSetTheorems, TLAPS

\* A set that holds zero, and the successor of what it holds, holds every
\* natural number.
LEMMA Induction ==
    ASSUME NEW T, 0 \in T, \A n \in Nat \cap T : n + 1 \in T
    PROVE  Nat \subseteq T
<1> SUFFICES ASSUME Nat \ T # {} PROVE FALSE
  OBVIOUS
<1> DEFINE R == OpToRel(<, Nat)
<1>1. \A x, y \in Nat : <<x, y>> \in R <=> x < y
  BY DEF OpToRel
<1>2. IsWellFoundedOn(R, Nat)
  BY NatLessThanWellFounded
<1> HIDE DEF R
<1>3. PICK m \in Nat \ T : \A k \in Nat \ T : <<k, m>> \notin R
  BY <1>2, WFMin
<1>4. m - 1 \in Nat /\ m - 1 < m /\ (m - 1) + 1 = m
  BY <1>3
<1>5. m - 1 \in T
  BY <1>1, <1>3, <1>4
<1>6. m \in T
  BY <1>4, <1>5
<1> QED
  BY <1>3, <1>6

-----------------------------------------------------------------------------
(* Ends of sequences *)

\* What Head and Tail leave of a sequence that is not empty.
LEMMA HeadAndTail ==
    ASSUME NEW S, NEW s \in Seq(S), s # <<>>
    PROVE  /\ Head(s) \in S /\ Tail(s) \in Seq(S)
           /\ Range(s) = {Head(s)} \cup Range(Tail(s))
<1>1. /\ Head(s) \in S /\ Tail(s) \in Seq(S) /\ Len(Tail(s)) = Len(s) - 1
      /\ \A i \in 1..Len(Tail(s)) : Tail(s)[i] = s[i + 1]
  BY HeadTailProperties
<1>2. Len(s) \in Nat \ {0} /\ Head(s) = s[1]
  BY EmptySeq
<1>3. Range(s) = {s[i] : i \in 1..Len(s)}
  BY RangeEquality
<1>4. Range(Tail(s)) = {Tail(s)[i] : i \in 1..Len(Tail(s))}
  BY <1>1, RangeEquality
<1>5. ASSUME NEW i \in 1..Len(s) PROVE s[i] \in {Head(s)} \cup Range(Tail(s))
  <2>1. CASE i = 1
    BY <2>1, <1>2
  <2>2. CASE i # 1
    <3>1. i - 1 \in 1..Len(Tail(s)) /\ Tail(s)[i - 1] = s[(i - 1) + 1]
      BY <2>2, <1>1, <1>2
    <3> QED
      BY <3>1, <1>4
  <2> QED
    BY <2>1, <2>2
<1>6. ASSUME NEW i \in 1..Len(Tail(s)) PROVE Tail(s)[i] \in Range(s)
  BY <1>1, <1>2, <1>3
<1> QED
  BY <1>1, <1>2, <1>3, <1>4, <1>5, <1>6

LEMMA RangeOfAppend ==
    ASSUME NEW S, NEW s \in Seq(S), NEW e \in S
    PROVE  Append(s, e) \in Seq(S) /\ Range(Append(s, e)) = Range(s) \cup {e}
<1>1. /\ Append(s, e) \in Seq(S) /\ Len(Append(s, e)) = Len(s) + 1
      /\ \A i \in 1..Len(s) : Append(s, e)[i] = s[i]
      /\ Append(s, e)[Len(s) + 1] = e
  BY AppendProperties
<1>2. Len(s) \in Nat
  OBVIOUS
<1>3. Range(s) = {s[i] : i \in 1..Len(s)}
  BY RangeEquality
<1>4. Range(Append(s, e)) = {Append(s, e)[i] : i \in 1..(Len(s) + 1)}
  BY <1>1, RangeEquality
<1> QED
  BY <1>1, <1>2, <1>3, <1>4

\* Where the elements of an appended sequence come from, and go to.
LEMMA AppendParts ==
    ASSUME NEW S, NEW s \in Seq(S), NEW e \in S
    PROVE  /\ Append(s, e) \in Seq(S) /\ Len(Append(s, e)) = Len(s) + 1
           /\ Len(s) \in Nat /\ DOMAIN s = 1..Len(s)
           /\ DOMAIN Append(s, e) = DOMAIN s \cup {Len(s) + 1}
           /\ Len(s) + 1 \notin DOMAIN s
           /\ \A i \in DOMAIN s : Append(s, e)[i] = s[i]
           /\ Append(s, e)[Len(s) + 1] = e
<1>1. /\ Append(s, e) \in Seq(S) /\ Len(Append(s, e)) = Len(s) + 1
      /\ \A i \in 1..Len(s) : Append(s, e)[i] = s[i]
      /\ Append(s, e)[Len(s) + 1] = e
  BY AppendProperties
<1>2. Len(s) \in Nat /\ DOMAIN s = 1..Len(s)
  BY LenProperties
<1>3. DOMAIN Append(s, e) = 1..(Len(s) + 1)
  BY <1>1, LenProperties
<1> QED
  BY <1>1, <1>2, <1>3

\* Where the elements of a concatenation come from, and go to.
LEMMA ConcatParts ==
    ASSUME NEW S, NEW s \in Seq(S), NEW t \in Seq(S)
    PROVE  /\ s \o t \in Seq(S)
           /\ \A i \in DOMAIN (s \o t) :
                 \/ i \in DOMAIN s /\ (s \o t)[i] = s[i]
                 \/ \E k \in DOMAIN t : i = Len(s) + k /\ (s \o t)[i] = t[k]
           /\ \A i \in DOMAIN s : i \in DOMAIN (s \o t) /\ (s \o t)[i] = s[i]
           /\ \A k \in DOMAIN t : /\ Len(s) + k \in DOMAIN (s \o t)
                                  /\ (s \o t)[Len(s) + k] = t[k]
<1> DEFINE u == s \o t
           m == Len(s)
           n == Len(t)
<1>1. /\ m \in Nat /\ DOMAIN s = 1..m /\ n \in Nat /\ DOMAIN t = 1..n
      /\ u \in Seq(S) /\ Len(u) = m + n
      /\ \A i \in 1..(m + n) : u[i] = IF i <= m THEN s[i] ELSE t[i - m]
  BY ConcatProperties, LenProperties
<1>2. DOMAIN u = 1..(m + n)
  BY <1>1, LenProperties
<1> HIDE DEF u, m, n
<1>3. ASSUME NEW i \in 1..(m + n)
      PROVE  \/ i \in 1..m /\ u[i] = s[i]
             \/ \E k \in 1..n : i = m + k /\ u[i] = t[k]
  <2>1. CASE i <= m
    BY <1>1, <2>1
  <2>2. CASE i > m
    <3>1. i - m \in 1..n /\ i = m + (i - m) /\ u[i] = t[i - m]
      BY <1>1, <2>2
    <3> QED
      BY <3>1
  <2> QED
    BY <1>1, <2>1, <2>2
<1>4. \A i \in 1..m : i \in 1..(m + n) /\ u[i] = s[i]
  BY <1>1
<1>5. ASSUME NEW k \in 1..n PROVE m + k \in 1..(m + n) /\ u[m + k] = t[k]
  <2>1. m + k \in 1..(m + n) /\ ~(m + k <= m) /\ (m + k) - m = k
    BY <1>1
  <2> QED
    BY <1>1, <2>1
<1> QED
  BY <1>1, <1>2, <1>3, <1>4, <1>5 DEF u, m, n

\* A sequence without its last element.
LEMMA FrontOfAppend ==
    ASSUME NEW S, NEW s \in Seq(S), NEW e \in S
    PROVE  Front(Append(s, e)) = s
<1> DEFINE t == Append(s, e)
<1>1. /\ Len(s) \in Nat /\ t \in Seq(S) /\ Len(t) = Len(s) + 1
      /\ \A i \in 1..Len(s) : t[i] = s[i] /\ s[i] \in S
  BY AppendProperties, LenProperties, ElementOfSeq
<1> HIDE DEF t
<1>2. /\ SubSeq(t, 1, Len(s)) \in Seq(S)
      /\ Len(SubSeq(t, 1, Len(s))) = Len(s)
      /\ \A i \in 1..Len(s) : SubSeq(t, 1, Len(s))[i] = s[i]
  <2>1. /\ SubSeq(t, 1, Len(s)) \in Seq(S)
        /\ Len(SubSeq(t, 1, Len(s))) =
               IF 1 <= Len(s) THEN Len(s) - 1 + 1 ELSE 0
        /\ \A i \in 1..(Len(s) - 1 + 1) :
               SubSeq(t, 1, Len(s))[i] = t[1 + i - 1]
    BY <1>1, SubSeqProperties
  <2> QED
    BY <1>1, <2>1
<1>3. SubSeq(t, 1, Len(s)) = s
  BY <1>2, SeqEqual
<1>4. Len(t) - 1 = Len(s)
  BY <1>1
<1> QED
  BY <1>3, <1>4 DEF Front, t

\* A sequence without one of its elements: those after it move up.
LEMMA RemoveParts ==
    ASSUME NEW S, NEW s \in Seq(S), NEW i \in DOMAIN s
    PROVE  /\ RemoveAt(s, i) \in Seq(S) /\ Len(RemoveAt(s, i)) = Len(s) - 1
           /\ Len(s) \in Nat /\ i \in 1..Len(s)
           /\ \A j \in 1..(Len(s) - 1) :
                 RemoveAt(s, i)[j] = IF j < i THEN s[j] ELSE s[j + 1]
<1>1. /\ Len(s) \in Nat /\ i \in 1..Len(s)
      /\ \A j \in 1..Len(s) : s[j] \in S
  BY LenProperties, ElementOfSeq
<1> DEFINE a == SubSeq(s, 1, i - 1)
           b == SubSeq(s, i + 1, Len(s))
<1>2. /\ a \in Seq(S) /\ Len(a) = IF 1 <= i - 1 THEN (i - 1) - 1 + 1 ELSE 0
      /\ \A j \in 1..((i - 1) - 1 + 1) : a[j] = s[1 + j - 1]
  BY <1>1, SubSeqProperties
<1>3. /\ b \in Seq(S)
      /\ Len(b) = IF i + 1 <= Len(s) THEN Len(s) - (i + 1) + 1 ELSE 0
      /\ \A j \in 1..(Len(s) - (i + 1) + 1) : b[j] = s[(i + 1) + j - 1]
  BY <1>1, SubSeqProperties
<1>4. RemoveAt(s, i) = a \o b
  BY DEF RemoveAt
<1> HIDE DEF a, b
<1>5. /\ Len(a) = i - 1 /\ Len(b) = Len(s) - i
      /\ \A j \in 1..(i - 1) : a[j] = s[j]
      /\ \A j \in 1..(Len(s) - i) : b[j] = s[i + j]
  <2>1. Len(a) = i - 1 /\ Len(b) = Len(s) - i
    BY <1>1, <1>2, <1>3
  <2>2. ASSUME NEW j \in 1..(i - 1) PROVE a[j] = s[j]
    <3>1. j \in 1..((i - 1) - 1 + 1) /\ 1 + j - 1 = j
      BY <1>1
    <3> QED
      BY <1>2, <3>1
  <2>3. ASSUME NEW j \in 1..(Len(s) - i) PROVE b[j] = s[i + j]
    <3>1. j \in 1..(Len(s) - (i + 1) + 1) /\ (i + 1) + j - 1 = i + j
      BY <1>1
    <3> QED
      BY <1>3, <3>1
  <2> QED
    BY <2>1, <2>2, <2>3
<1>6. /\ a \o b \in Seq(S) /\ Len(a \o b) = Len(a) + Len(b)
      /\ \A j \in 1..(Len(a) + Len(b)) :
             (a \o b)[j] = IF j <= Len(a) THEN a[j] ELSE b[j - Len(a)]
  BY <1>2, <1>3, ConcatProperties
<1> DEFINE c == a \o b
<1> HIDE DEF c
<1>7. ASSUME NEW j \in 1..(Len(s) - 1)
      PROVE  c[j] = IF j < i THEN s[j] ELSE s[j + 1]
  <2>1. c[j] = IF j <= i - 1 THEN a[j] ELSE b[j - (i - 1)]
    <3>1. j \in 1..(Len(a) + Len(b))
      BY <1>1, <1>5
    <3> QED
      BY <1>5, <1>6, <3>1 DEF c
  <2>2. CASE j < i
    BY <1>1, <1>5, <2>1, <2>2
  <2>3. CASE ~(j < i)
    <3>1. j - (i - 1) \in 1..(Len(s) - i) /\ i + (j - (i - 1)) = j + 1
      BY <1>1, <2>3
    <3> QED
      BY <1>1, <1>5, <2>1, <2>3, <3>1
  <2> QED
    BY <2>2, <2>3
<1> QED
  BY <1>1, <1>4, <1>5, <1>6, <1>7 DEF c

\* A sequence with one more element in front: the others move down.
LEMMA PrependParts ==
    ASSUME NEW S, NEW s \in Seq(S), NEW e \in S
    PROVE  /\ <<e>> \o s \in Seq(S) /\ Len(<<e>> \o s) = Len(s) + 1
           /\ Len(s) \in Nat
           /\ \A j \in 1..(Len(s) + 1) :
                 (<<e>> \o s)[j] = IF j = 1 THEN e ELSE s[j - 1]
<1> DEFINE a == <<e>>
           t == a \o s
<1>1. a \in Seq(S) /\ Len(a) = 1 /\ a[1] = e /\ Len(s) \in Nat
  OBVIOUS
<1>2. /\ t \in Seq(S) /\ Len(t) = Len(a) + Len(s)
      /\ \A j \in 1..(Len(a) + Len(s)) :
             t[j] = IF j <= Len(a) THEN a[j] ELSE s[j - Len(a)]
  BY <1>1, ConcatProperties
<1> HIDE DEF a, t
<1> QED
  BY <1>1, <1>2 DEF a, t

\* The part of a sequence after place c, up to place n.
LEMMA SliceParts ==
    ASSUME NEW S, NEW s \in Seq(S), NEW c \in Nat, NEW n \in Nat, n <= Len(s)
    PROVE  LET p == SubSeq(s, c + 1, n)
           IN  /\ p \in Seq(S) /\ Len(p) = IF c < n THEN n - c ELSE 0
               /\ DOMAIN p = 1..Len(p)
               /\ \A i \in DOMAIN p : /\ i \in Nat \ {0} /\ p[i] = s[c + i]
                                      /\ c + i \in DOMAIN s /\ c + i <= n
               /\ \A j \in DOMAIN s : c < j /\ j <= n =>
                      j - c \in DOMAIN p /\ p[j - c] = s[j]
<1> DEFINE p == SubSeq(s, c + 1, n)
           l == Len(s)
           m == Len(p)
<1>1. /\ l \in Nat /\ n <= l /\ DOMAIN s = 1..l /\ \A i \in 1..l : s[i] \in S
  BY LenProperties, ElementOfSeq
<1> HIDE DEF l
<1>2. /\ p \in Seq(S) /\ m = IF c + 1 <= n THEN n - (c + 1) + 1 ELSE 0
      /\ \A i \in 1..(n - (c + 1) + 1) : p[i] = s[(c + 1) + i - 1]
  <2>1. c + 1 \in Int /\ n \in Int /\ \A i \in (c + 1)..n : s[i] \in S
    BY <1>1
  <2> QED
    BY <2>1, SubSeqProperties
<1>3. DOMAIN p = 1..m /\ m \in Nat
  BY <1>2, LenProperties
<1> HIDE DEF p, m
<1>4. m = IF c < n THEN n - c ELSE 0
  BY <1>2
<1>5. ASSUME NEW i \in 1..m
      PROVE  /\ i \in Nat \ {0} /\ p[i] = s[c + i]
             /\ c + i \in 1..l /\ c + i <= n
  <2>1. c < n /\ m = n - c
    BY <1>3, <1>4
  <2>2. /\ i \in Nat \ {0} /\ i \in 1..(n - (c + 1) + 1)
        /\ (c + 1) + i - 1 = c + i /\ c + i \in 1..l /\ c + i <= n
    BY <1>1, <2>1
  <2> QED
    BY <1>2, <2>2
<1>6. ASSUME NEW j \in 1..l, c < j, j <= n
      PROVE  j - c \in 1..m /\ p[j - c] = s[j]
  <2>1. j - c \in 1..m /\ c + (j - c) = j
    BY <1>1, <1>3, <1>4, <1>6
  <2> QED
    BY <1>5, <2>1
<1> QED
  BY <1>1, <1>2, <1>3, <1>4, <1>5, <1>6 DEF p, m

\* Removing an element of a sequence without repetitions removes its value,
\* and moves no element further than one place up.
LEMMA RemoveOnce ==
    ASSUME NEW S, NEW s \in Seq(S), IsInjective(s), NEW i \in DOMAIN s
    PROVE  LET r == RemoveAt(s, i)
           IN  /\ r \in Seq(S) /\ IsInjective(r)
               /\ Range(r) = Range(s) \ {s[i]}
               /\ \A j \in DOMAIN r : \E k \in DOMAIN s :
                     r[j] = s[k] /\ k # i /\ (k = j \/ k = j + 1)
<1> DEFINE r == RemoveAt(s, i)
           l == Len(s)
           m == Len(r)
<1>1. /\ r \in Seq(S) /\ m = l - 1 /\ l \in Nat /\ i \in 1..l
      /\ \A j \in 1..(l - 1) : r[j] = IF j < i THEN s[j] ELSE s[j + 1]
  BY RemoveParts
<1>2. DOMAIN s = 1..l /\ DOMAIN r = 1..m
  BY <1>1, LenProperties
<1> HIDE DEF r, l, m
<1> DEFINE at(j) == IF j < i THEN j ELSE j + 1
<1>3. ASSUME NEW j \in 1..m
      PROVE  /\ at(j) \in 1..l /\ at(j) # i /\ (at(j) = j \/ at(j) = j + 1)
             /\ r[j] = s[at(j)]
  BY <1>1
<1>4. ASSUME NEW j \in 1..m, NEW k \in 1..m, at(j) = at(k) PROVE j = k
  BY <1>1, <1>4
<1>5. ASSUME NEW k \in 1..l, k # i PROVE \E j \in 1..m : at(j) = k
  <2>1. CASE k < i
    <3>1. k \in 1..m /\ at(k) = k
      BY <1>1, <2>1
    <3> QED
      BY <3>1
  <2>2. CASE k > i
    <3>1. k - 1 \in 1..m /\ at(k - 1) = k
      BY <1>1, <2>2
    <3> QED
      BY <3>1
  <2> QED
    BY <1>1, <1>5, <2>1, <2>2
<1> HIDE DEF at
<1>6. IsInjective(r)
  <2>1. ASSUME NEW j \in 1..m, NEW k \in 1..m, r[j] = r[k] PROVE j = k
    <3>1. at(j) = at(k)
      BY <1>2, <1>3, <2>1 DEF IsInjective
    <3> QED
      BY <1>4, <3>1
  <2> QED
    BY <1>2, <2>1 DEF IsInjective
<1>7. Range(r) = Range(s) \ {s[i]}
  <2>1. ASSUME NEW j \in 1..m PROVE r[j] \in Range(s) \ {s[i]}
    BY <1>1, <1>2, <1>3 DEF IsInjective, Range
  <2>2. ASSUME NEW k \in 1..l, k # i PROVE s[k] \in Range(r)
    BY <1>2, <1>3, <1>5, <2>2 DEF Range
  <2> QED
    BY <1>2, <2>1, <2>2 DEF Range
<1>8. \A j \in 1..m : \E k \in 1..l : r[j] = s[k] /\ k # i /\ (k = j \/ k = j + 1)
  BY <1>3
<1> QED
  BY <1>1, <1>2, <1>6, <1>7, <1>8 DEF r

\* A new element in front of a sequence without repetitions moves every
\* other one place down.
LEMMA PrependOnce ==
    ASSUME NEW S, NEW s \in Seq(S), IsInjective(s), NEW e \in S \ Range(s)
    PROVE  LET t == <<e>> \o s
           IN  /\ t \in Seq(S) /\ IsInjective(t)
               /\ Range(t) = Range(s) \cup {e}
               /\ \A j \in DOMAIN t :
                     \/ j = 1 /\ t[j] = e
                     \/ \E k \in DOMAIN s : j = k + 1 /\ t[j] = s[k]
<1> DEFINE t == <<e>> \o s
           l == Len(s)
           m == Len(t)
<1>1. /\ t \in Seq(S) /\ m = l + 1 /\ l \in Nat
      /\ \A j \in 1..(l + 1) : t[j] = IF j = 1 THEN e ELSE s[j - 1]
  BY PrependParts
<1>2. DOMAIN s = 1..l /\ DOMAIN t = 1..m
  BY <1>1, LenProperties
<1> HIDE DEF t, l, m
<1>3. t[1] = e /\ 1 \in 1..m
  BY <1>1
<1>4. ASSUME NEW k \in 1..l PROVE k + 1 \in 1..m /\ k + 1 # 1 /\ t[k + 1] = s[k]
  <2>1. k + 1 \in 1..(l + 1) /\ k + 1 # 1 /\ (k + 1) - 1 = k
    BY <1>1
  <2> QED
    BY <1>1, <2>1
<1>5. ASSUME NEW j \in 1..m PROVE j = 1 \/ \E k \in 1..l : j = k + 1
  <2>1. j # 1 => j - 1 \in 1..l /\ j = (j - 1) + 1
    BY <1>1
  <2> QED
    BY <2>1
<1>6. Range(t) = Range(s) \cup {e}
  BY <1>2, <1>3, <1>4, <1>5 DEF Range
<1>7. IsInjective(t)
  <2>1. \A k \in 1..l : s[k] # e
    BY <1>2 DEF Range
  <2>2. ASSUME NEW i \in 1..m, NEW j \in 1..m, t[i] = t[j] PROVE i = j
    <3>1. CASE i = 1 \/ j = 1
      BY <1>3, <1>4, <1>5, <2>1, <2>2, <3>1
    <3>2. CASE i # 1 /\ j # 1
      <4>1. PICK k \in 1..l, h \in 1..l : i = k + 1 /\ j = h + 1
        BY <1>5, <3>2
      <4>2. k = h
        BY <1>2, <1>4, <2>2, <4>1 DEF IsInjective
      <4> QED
        BY <4>1, <4>2
    <3> QED
      BY <3>1, <3>2
  <2> QED
    BY <1>2, <2>2 DEF IsInjective
<1>8. \A j \in 1..m : \/ j = 1 /\ t[j] = e
                      \/ \E k \in 1..l : j = k + 1 /\ t[j] = s[k]
  BY <1>3, <1>4, <1>5
<1> QED
  BY <1>1, <1>2, <1>6, <1>7, <1>8 DEF t

-----------------------------------------------------------------------------
(* Finite sets *)

LEMMA RangeFinite ==
    ASSUME NEW S, NEW s \in Seq(S)
    PROVE  IsFiniteSet(Range(s))
<1> DEFINE T == {n \in Nat : \A t \in Seq(S) : Len(t) = n => IsFiniteSet(Range(t))}
<1>1. 0 \in T
  <2>1. ASSUME NEW t \in Seq(S), Len(t) = 0 PROVE IsFiniteSet(Range(t))
    <3>1. t = <<>>
      BY <2>1, EmptySeq
    <3>2. Range(<<>>) = {}
      BY DEF Range
    <3> QED
      BY <3>1, <3>2, FS_EmptySet
  <2> QED
    BY <2>1
<1>2. ASSUME NEW n \in Nat \cap T PROVE n + 1 \in T
  <2>1. ASSUME NEW t \in Seq(S), Len(t) = n + 1 PROVE IsFiniteSet(Range(t))
    <3>4. t # <<>>
      BY <2>1, EmptySeq
    <3>1. PICK u \in Seq(S), e \in S : t = Append(u, e)
      BY <3>4, SequenceEmptyOrAppend
    <3>2. Len(u) = n
      BY <2>1, <3>1, AppendParts
    <3>3. IsFiniteSet(Range(u)) /\ Range(t) = Range(u) \cup {e}
      BY <1>2, <3>1, <3>2, RangeOfAppend
    <3> QED
      BY <3>3, FS_AddElement
  <2> QED
    BY <2>1
<1>3. Nat \subseteq T
  <2> HIDE DEF T
  <2> QED
    BY <1>1, <1>2, Induction
<1> QED
  BY <1>3, LenProperties

\* What a function takes the elements of a finite set to.
LEMMA ImageFinite ==
    ASSUME NEW S, IsFiniteSet(S), NEW f, DOMAIN f = S
    PROVE  IsFiniteSet({f[x] : x \in S})
<1> DEFINE T == {f[x] : x \in S}
           g == [x \in S |-> f[x]]
<1>1. g \in Surjection(S, T)
  <2>1. g \in [S -> T]
    OBVIOUS
  <2>2. \A t \in T : \E x \in S : g[x] = t
    OBVIOUS
  <2> QED
    BY <2>1, <2>2 DEF Surjection
<1> QED
  BY <1>1, FS_Surjection

\* A set has at most one element more than one it lies in but for one.
LEMMA OneMore ==
    ASSUME NEW S, IsFiniteSet(S), NEW x, NEW T, T \subseteq S \cup {x}
    PROVE  IsFiniteSet(T) /\ Cardinality(T) <= Cardinality(S) + 1
           /\ Cardinality(S) \in Nat /\ Cardinality(T) \in Nat
<1>1. /\ IsFiniteSet(S \cup {x}) /\ Cardinality(S) \in Nat
      /\ Cardinality(S \cup {x}) <= Cardinality(S) + 1
  <2>1. Cardinality(S) \in Nat
    BY FS_CardinalityType
  <2>2. /\ IsFiniteSet(S \cup {x})
        /\ Cardinality(S \cup {x}) =
              IF x \in S THEN Cardinality(S) ELSE Cardinality(S) + 1
    BY FS_AddElement
  <2> QED
    BY <2>1, <2>2
<1>2. IsFiniteSet(T) /\ Cardinality(T) <= Cardinality(S \cup {x})
  BY <1>1, FS_Subset
<1>3. Cardinality(T) \in Nat /\ Cardinality(S \cup {x}) \in Nat
  BY <1>1, <1>2, FS_CardinalityType
<1> QED
  BY <1>1, <1>2, <1>3

\* Two sets that share nothing and lie in a third one.
LEMMA TwoWithin ==
    ASSUME NEW S, IsFiniteSet(S), NEW T, NEW U,
           T \cup U \subseteq S, T \cap U = {}
    PROVE  /\ Cardinality(T) + Cardinality(U) <= Cardinality(S)
           /\ {Cardinality(S), Cardinality(T), Cardinality(U)} \subseteq Nat
<1>1. IsFiniteSet(T) /\ IsFiniteSet(U) /\ IsFiniteSet(T \cup U)
  BY FS_Subset
<1>2. Cardinality(T \cup U) =
          Cardinality(T) + Cardinality(U) - Cardinality(T \cap U)
  BY <1>1, FS_Union
<1>3. Cardinality(T \cup U) <= Cardinality(S)
  BY FS_Subset
<1>4. {Cardinality(S), Cardinality(T), Cardinality(U)} \subseteq Nat
  BY <1>1, FS_CardinalityType
<1>5. Cardinality(T \cap U) = 0
  BY FS_EmptySet
<1> QED
  BY <1>2, <1>3, <1>4, <1>5

-----------------------------------------------------------------------------
(* Greatest and least of a set of numbers *)

LEMMA MaxIs ==
    ASSUME NEW S \in SUBSET Int, NEW m \in S, \A y \in S : m >= y
    PROVE  Max(S) = m
<1> DEFINE n == Max(S)
<1>1. n \in S /\ \A y \in S : n >= y
  BY DEF Max
<1> HIDE DEF n
<1>2. n \in Int /\ m \in Int /\ n >= m /\ m >= n
  BY <1>1
<1> QED
  BY <1>2 DEF n

LEMMA MinIs ==
    ASSUME NEW S \in SUBSET Int, NEW m \in S, \A y \in S : m <= y
    PROVE  Min(S) = m
<1> DEFINE n == Min(S)
<1>1. n \in S /\ \A y \in S : n <= y
  BY DEF Min
<1> HIDE DEF n
<1>2. n \in Int /\ m \in Int /\ n <= m /\ m <= n
  BY <1>1
<1> QED
  BY <1>2 DEF n

\* A finite set of numbers lies between two of its elements.
Bounded(S) ==
    /\ \E m \in S : \A y \in S : m >= y
    /\ \E m \in S : \A y \in S : m <= y

LEMMA FiniteBounded ==
    ASSUME NEW S \in SUBSET Int, IsFiniteSet(S), S # {}
    PROVE  Bounded(S)
<1> DEFINE T == {n \in Nat : \A U \in SUBSET Int :
                    IsFiniteSet(U) /\ U # {} /\ Cardinality(U) = n => Bounded(U)}
<1>1. 0 \in T
  BY FS_EmptySet
<1>2. ASSUME NEW n \in Nat \cap T PROVE n + 1 \in T
  <2>1. ASSUME NEW U \in SUBSET Int, IsFiniteSet(U), U # {}, Cardinality(U) = n + 1
        PROVE  Bounded(U)
    <3>1. PICK x \in U : TRUE
      BY <2>1
    <3> DEFINE V == U \ {x}
    <3>2. IsFiniteSet(V) /\ Cardinality(V) = n
      <4>1. /\ IsFiniteSet(V)
            /\ Cardinality(V) = IF x \in U THEN Cardinality(U) - 1 ELSE Cardinality(U)
        BY <2>1, FS_RemoveElement
      <4> QED
        BY <2>1, <4>1
    <3>3. CASE V = {}
      <4>1. U = {x} /\ x \in Int
        BY <3>3
      <4> QED
        BY <4>1 DEF Bounded
    <3>4. CASE V # {}
      <4>1. Bounded(V)
        BY <1>2, <3>2, <3>4
      <4>2. PICK m \in V : \A y \in V : m >= y
        BY <4>1 DEF Bounded
      <4>3. PICK k \in V : \A y \in V : k <= y
        BY <4>1 DEF Bounded
      <4>4. x \in Int /\ m \in Int /\ k \in Int /\ \A y \in U : y = x \/ y \in V
        BY <4>2, <4>3
      <4>5. \E z \in U : \A y \in U : z >= y
        <5>1. CASE x >= m
          BY <4>2, <4>4, <5>1
        <5>2. CASE m >= x
          BY <4>2, <4>4, <5>2
        <5> QED
          BY <4>4, <5>1, <5>2
      <4>6. \E z \in U : \A y \in U : z <= y
        <5>1. CASE x <= k
          BY <4>3, <4>4, <5>1
        <5>2. CASE k <= x
          BY <4>3, <4>4, <5>2
        <5> QED
          BY <4>4, <5>1, <5>2
      <4> QED
        BY <4>5, <4>6 DEF Bounded
    <3> QED
      BY <3>3, <3>4
  <2> QED
    BY <2>1
<1>3. Nat \subseteq T
  <2> HIDE DEF T
  <2> QED
    BY <1>1, <1>2, Induction
<1> QED
  BY <1>3, FS_CardinalityType

LEMMA MaxMinOfFinite ==
    ASSUME NEW S \in SUBSET Int, IsFiniteSet(S), S # {}
    PROVE  /\ Max(S) \in S /\ \A y \in S : Max(S) >= y
           /\ Min(S) \in S /\ \A y \in S : Min(S) <= y
BY FiniteBounded DEF Bounded, Max, Min

-----------------------------------------------------------------------------
(* Sums *)

\* The element of a set that is added up first.
Chosen(s) == CHOOSE x \in s : TRUE

\* What adds up f over the subsets of S that have at most n elements.
SumsUp(f, S, n, g) ==
    g = [s \in {u \in SUBSET S : Cardinality(u) <= n} |->
            IF s = {} THEN 0
            ELSE f[Chosen(s)] + g[s \ {Chosen(s)}]]

LEMMA SumsUpAt ==
    ASSUME NEW f, NEW S, NEW n, NEW g, SumsUp(f, S, n, g),
           NEW s \in SUBSET S, Cardinality(s) <= n
    PROVE  g[s] = IF s = {} THEN 0
                  ELSE f[Chosen(s)] + g[s \ {Chosen(s)}]
BY DEF SumsUp

\* A finite set without the element chosen of it.
LEMMA Without ==
    ASSUME NEW S, IsFiniteSet(S), NEW s \in SUBSET S, s # {}
    PROVE  /\ Chosen(s) \in s /\ s \ {Chosen(s)} \in SUBSET S
           /\ Cardinality(s \ {Chosen(s)}) = Cardinality(s) - 1
           /\ Cardinality(s) \in Nat
<1>1. Chosen(s) \in s
  BY DEF Chosen
<1>2. IsFiniteSet(s) /\ Cardinality(s) \in Nat
  BY FS_Subset, FS_CardinalityType
<1>3. Cardinality(s \ {Chosen(s)}) =
          IF Chosen(s) \in s THEN Cardinality(s) - 1 ELSE Cardinality(s)
  BY <1>2, FS_RemoveElement
<1> QED
  BY <1>1, <1>2, <1>3

LEMMA SumsUpExists ==
    ASSUME NEW f, NEW S, IsFiniteSet(S), NEW n \in Nat
    PROVE  \E g : SumsUp(f, S, n, g)
<1> DEFINE T == {m \in Nat : \E g : SumsUp(f, S, m, g)}
           of(m) == {u \in SUBSET S : Cardinality(u) <= m}
<1>1. ASSUME NEW s \in SUBSET S, s # {}
      PROVE  /\ s \ {Chosen(s)} \in SUBSET S
             /\ Cardinality(s \ {Chosen(s)}) = Cardinality(s) - 1
             /\ Cardinality(s) \in Nat
  BY <1>1, Without
<1>2. \A s \in SUBSET S : Cardinality(s) \in Nat /\ (Cardinality(s) = 0 <=> s = {})
  BY FS_Subset, FS_CardinalityType, FS_EmptySet
<1>3. 0 \in T
  <2> DEFINE g == [s \in of(0) |-> 0]
  <2>1. \A s \in of(0) : s = {}
    BY <1>2
  <2>2. g = [s \in of(0) |-> IF s = {} THEN 0 ELSE f[Chosen(s)] + g[s \ {Chosen(s)}]]
    BY <2>1
  <2>3. SumsUp(f, S, 0, g)
    BY <2>2 DEF SumsUp
  <2> QED
    BY <2>3
<1>4. ASSUME NEW m \in Nat \cap T PROVE m + 1 \in T
  <2>1. PICK g : SumsUp(f, S, m, g)
    BY <1>4
  <2> DEFINE h == [s \in of(m + 1) |->
                     IF s = {} THEN 0 ELSE f[Chosen(s)] + g[s \ {Chosen(s)}]]
  <2>2. ASSUME NEW s \in of(m + 1)
        PROVE  h[s] = IF s = {} THEN 0 ELSE f[Chosen(s)] + h[s \ {Chosen(s)}]
    <3>1. CASE s = {}
      BY <3>1
    <3>2. CASE s # {}
      <4> DEFINE u == s \ {Chosen(s)}
      <4>1. u \in SUBSET S /\ Cardinality(u) <= m /\ Cardinality(u) <= m + 1
        BY <1>1, <1>2, <3>2
      <4>2. h[s] = f[Chosen(s)] + g[u]
        BY <3>2
      <4>3. g[u] = IF u = {} THEN 0 ELSE f[Chosen(u)] + g[u \ {Chosen(u)}]
        <5> HIDE DEF u
        <5> QED
          BY <2>1, <4>1, SumsUpAt
      <4>4. h[u] = IF u = {} THEN 0 ELSE f[Chosen(u)] + g[u \ {Chosen(u)}]
        <5> HIDE DEF u
        <5> QED
          BY <4>1
      <4> QED
        BY <3>2, <4>2, <4>3, <4>4
    <3> QED
      BY <3>1, <3>2
  <2>3. h = [s \in of(m + 1) |-> h[s]]
    OBVIOUS
  <2>4. SumsUp(f, S, m + 1, h)
    <3> HIDE DEF h
    <3>1. h = [s \in of(m + 1) |->
                 IF s = {} THEN 0 ELSE f[Chosen(s)] + h[s \ {Chosen(s)}]]
      BY <2>2, <2>3
    <3> QED
      BY <3>1 DEF SumsUp
  <2> QED
    BY <2>4
<1>5. Nat \subseteq T
  <2> HIDE DEF T
  <2> QED
    BY <1>3, <1>4, Induction
<1> QED
  BY <1>5

\* The sum of the library is of that kind.
LEMMA SumIs ==
    ASSUME NEW f, IsFiniteSet(DOMAIN f)
    PROVE  \E g : /\ SumsUp(f, DOMAIN f, Cardinality(DOMAIN f), g)
                  /\ SumFunction(f) = g[DOMAIN f]
<1> DEFINE S == DOMAIN f
           n == Cardinality(S)
<1>1. n \in Nat /\ {u \in SUBSET S : Cardinality(u) <= n} = SUBSET S
  <2>1. n \in Nat
    BY FS_CardinalityType
  <2>2. \A u \in SUBSET S : Cardinality(u) <= n
    BY FS_Subset
  <2> QED
    BY <2>1, <2>2
<1> DEFINE g == CHOOSE g : g = [s \in SUBSET S |->
                   IF s = {} THEN 0
                   ELSE f[Chosen(s)] + g[s \ {Chosen(s)}]]
<1>2. SumsUp(f, S, n, g)
  <2>1. PICK h : SumsUp(f, S, n, h)
    <3> HIDE DEF n
    <3> QED
      BY <1>1, SumsUpExists
  <2> DEFINE T == {u \in SUBSET S : Cardinality(u) <= n}
  <2>2. T = SUBSET S
    BY <1>1
  <2>3. \A k : SumsUp(f, S, n, k) <=>
               k = [s \in T |->
                   IF s = {} THEN 0
                   ELSE f[Chosen(s)] + k[s \ {Chosen(s)}]]
    BY DEF SumsUp
  <2> HIDE DEF T
  <2> DEFINE Total(k) ==
               k = [s \in SUBSET S |->
                   IF s = {} THEN 0
                   ELSE f[Chosen(s)] + k[s \ {Chosen(s)}]]
  <2>4. \A k : SumsUp(f, S, n, k) <=> Total(k)
    BY <2>2, <2>3
  <2>5. g = CHOOSE k : Total(k)
    OBVIOUS
  <2> HIDE DEF Total, S, n, g
  <2>6. Total(h)
    BY <2>1, <2>4
  <2>7. Total(g)
    BY <2>5, <2>6
  <2> QED
    BY <2>4, <2>7
<1>3. SumFunction(f) = g[S]
  BY DEF SumFunction, SumFunctionOnSet, FoldFunctionOnSet, MapThenFoldSet, Chosen
<1> QED
  BY <1>2, <1>3

\* Two functions that differ at x only, added up over the same set.
LEMMA SumsUpChange ==
    ASSUME NEW D, IsFiniteSet(D), NEW f \in [D -> Int], NEW h \in [D -> Int],
           NEW x \in D, \A y \in D \ {x} : h[y] = f[y],
           NEW g, SumsUp(f, D, Cardinality(D), g),
           NEW k, SumsUp(h, D, Cardinality(D), k)
    PROVE  /\ g[D] \in Int
           /\ k[D] = g[D] - f[x] + h[x]
<1> DEFINE Right(s) == /\ g[s] \in Int
                       /\ k[s] = IF x \in s THEN g[s] - f[x] + h[x] ELSE g[s]
           T == {n \in Nat : \A s \in SUBSET D : Cardinality(s) = n => Right(s)}
<1>1. \A s \in SUBSET D : /\ Cardinality(s) \in Nat
                          /\ Cardinality(s) <= Cardinality(D)
                          /\ Cardinality(s) = 0 <=> s = {}
  BY FS_Subset, FS_CardinalityType, FS_EmptySet
<1>6. ASSUME NEW s \in SUBSET D
      PROVE  g[s] = IF s = {} THEN 0
                    ELSE f[Chosen(s)] + g[s \ {Chosen(s)}]
  BY <1>1, SumsUpAt
<1>7. ASSUME NEW s \in SUBSET D
      PROVE  k[s] = IF s = {} THEN 0
                    ELSE h[Chosen(s)] + k[s \ {Chosen(s)}]
  BY <1>1, SumsUpAt
<1>2. 0 \in T
  <2>1. ASSUME NEW s \in SUBSET D, Cardinality(s) = 0 PROVE Right(s)
    <3>1. s = {}
      BY <1>1, <2>1
    <3>2. g[s] = 0 /\ k[s] = 0
      BY <1>6, <1>7, <3>1
    <3> QED
      BY <3>1, <3>2
  <2> HIDE DEF Right
  <2> QED
    BY <2>1
<1>3. ASSUME NEW n \in Nat \cap T PROVE n + 1 \in T
  <2>1. ASSUME NEW s \in SUBSET D, Cardinality(s) = n + 1 PROVE Right(s)
    <3> DEFINE y == Chosen(s)
               u == s \ {y}
    <3>1. s # {} /\ Cardinality(s) <= Cardinality(D)
      BY <1>1, <2>1
    <3>2. y \in s /\ u \in SUBSET D /\ Cardinality(u) = n
      <4> HIDE DEF T
      <4> QED
        BY <2>1, <3>1, Without
    <3>3. g[s] = f[y] + g[u]
      BY <1>6, <3>1
    <3>4. k[s] = h[y] + k[u]
      BY <1>7, <3>1
    <3> HIDE DEF Right, y
    <3>5. Right(u)
      BY <1>3, <3>2
    <3>6. CASE y = x
      <4>1. x \notin u /\ x \in s
        BY <3>2, <3>6
      <4> HIDE DEF u
      <4> QED
        BY <3>3, <3>4, <3>5, <3>6, <4>1 DEF Right
    <3>7. CASE y # x
      <4>1. (x \in u <=> x \in s) /\ y \in D \ {x}
        BY <3>2, <3>7
      <4> HIDE DEF u
      <4>2. h[y] = f[y] /\ f[y] \in Int
        BY <4>1
      <4>3. CASE x \in u
        BY <3>3, <3>4, <3>5, <4>1, <4>2, <4>3 DEF Right
      <4>4. CASE x \notin u
        BY <3>3, <3>4, <3>5, <4>1, <4>2, <4>4 DEF Right
      <4> QED
        BY <4>3, <4>4
    <3> QED
      BY <3>6, <3>7
  <2> HIDE DEF Right
  <2> QED
    BY <2>1
<1>4. Nat \subseteq T
  <2> HIDE DEF T
  <2> QED
    BY <1>2, <1>3, Induction
<1>5. Right(D)
  <2> HIDE DEF Right
  <2> QED
    BY <1>1, <1>4
<1> QED
  BY <1>5

\* A sum follows a change of one of its terms.
LEMMA SumChange ==
    ASSUME NEW D, IsFiniteSet(D), NEW f \in [D -> Int], NEW h \in [D -> Int],
           NEW x \in D, \A y \in D \ {x} : h[y] = f[y]
    PROVE  /\ SumFunction(f) \in Int
           /\ SumFunction(h) = SumFunction(f) - f[x] + h[x]
<1>1. PICK g : SumsUp(f, D, Cardinality(D), g) /\ SumFunction(f) = g[D]
  <2>1. DOMAIN f = D
    OBVIOUS
  <2> QED
    BY <2>1, SumIs
<1>2. PICK k : SumsUp(h, D, Cardinality(D), k) /\ SumFunction(h) = k[D]
  <2>1. DOMAIN h = D
    OBVIOUS
  <2> QED
    BY <2>1, SumIs
<1> QED
  BY <1>1, <1>2, SumsUpChange

\* A sum of nothing but zeros.
LEMMA SumZero ==
    ASSUME NEW D, IsFiniteSet(D), NEW f \in [D -> Int], \A x \in D : f[x] = 0
    PROVE  SumFunction(f) = 0
<1>1. PICK g : SumsUp(f, D, Cardinality(D), g) /\ SumFunction(f) = g[D]
  <2>1. DOMAIN f = D
    OBVIOUS
  <2> QED
    BY <2>1, SumIs
<1> DEFINE T == {n \in Nat : \A s \in SUBSET D : Cardinality(s) = n => g[s] = 0}
<1>2. \A s \in SUBSET D : /\ Cardinality(s) \in Nat
                          /\ Cardinality(s) <= Cardinality(D)
                          /\ Cardinality(s) = 0 <=> s = {}
  BY FS_Subset, FS_CardinalityType, FS_EmptySet
<1>3. 0 \in T
  <2>1. ASSUME NEW s \in SUBSET D, Cardinality(s) = 0 PROVE g[s] = 0
    BY <1>1, <1>2, <2>1, SumsUpAt
  <2> QED
    BY <2>1
<1>4. ASSUME NEW n \in Nat \cap T PROVE n + 1 \in T
  <2>1. ASSUME NEW s \in SUBSET D, Cardinality(s) = n + 1 PROVE g[s] = 0
    <3> DEFINE y == Chosen(s)
               u == s \ {y}
    <3>1. s # {} /\ Cardinality(s) <= Cardinality(D)
      BY <1>2, <2>1
    <3>2. y \in s /\ u \in SUBSET D /\ Cardinality(u) = n
      BY <2>1, <3>1, Without
    <3>3. g[s] = f[y] + g[u]
      BY <1>1, <3>1, SumsUpAt
    <3> HIDE DEF y, u
    <3>4. g[u] = 0 /\ f[y] = 0
      BY <1>4, <3>2
    <3> QED
      BY <3>3, <3>4
  <2> QED
    BY <2>1
<1>5. Nat \subseteq T
  <2> HIDE DEF T
  <2> QED
    BY <1>3, <1>4, Induction
<1> QED
  BY <1>1, <1>2, <1>5

-----------------------------------------------------------------------------
(* FlattenSeq *)

\* What flattening the first n of a sequence of sequences is to satisfy.
Flattened(seqs, n, f) ==
    f = [i \in 1..n |-> IF i = 1 THEN seqs[i] ELSE f[i - 1] \o seqs[i]]

LEMMA FlattenedAt ==
    ASSUME NEW seqs, NEW n \in Nat, NEW f, Flattened(seqs, n, f),
           NEW i \in 1..n
    PROVE  f[i] = IF i = 1 THEN seqs[i] ELSE f[i - 1] \o seqs[i]
BY DEF Flattened

LEMMA FlattenedExists ==
    ASSUME NEW seqs, NEW n \in Nat
    PROVE  \E f : Flattened(seqs, n, f)
<1> DEFINE T == {m \in Nat : \E f : Flattened(seqs, m, f)}
<1>1. 0 \in T
  <2>1. Flattened(seqs, 0, [i \in 1..0 |-> 0])
    BY DEF Flattened
  <2> QED
    BY <2>1
<1>2. ASSUME NEW m \in Nat \cap T PROVE m + 1 \in T
  <2>1. PICK f : Flattened(seqs, m, f)
    BY <1>2
  <2> DEFINE g == [i \in 1..(m + 1) |-> IF i <= m THEN f[i]
                      ELSE IF i = 1 THEN seqs[i] ELSE f[m] \o seqs[i]]
  <2>2. Flattened(seqs, m + 1, g)
    <3>1. ASSUME NEW i \in 1..(m + 1)
          PROVE  g[i] = IF i = 1 THEN seqs[i] ELSE g[i - 1] \o seqs[i]
      <4>1. CASE i <= m
        BY <2>1, <4>1, FlattenedAt
      <4>2. CASE i = m + 1
        BY <4>2
      <4> QED
        BY <4>1, <4>2
    <3> HIDE DEF g
    <3>2. g = [i \in 1..(m + 1) |-> g[i]]
      BY DEF g
    <3> QED
      BY <3>1, <3>2 DEF Flattened
  <2> QED
    BY <2>2
<1>3. Nat \subseteq T
  <2> HIDE DEF T
  <2> QED
    BY <1>1, <1>2, Induction
<1> QED
  BY <1>3

LEMMA FlattenedUnique ==
    ASSUME NEW seqs, NEW m \in Nat, NEW n \in Nat, m <= n,
           NEW f, Flattened(seqs, m, f), NEW g, Flattened(seqs, n, g)
    PROVE  \A i \in 1..m : f[i] = g[i]
<1> DEFINE T == {i \in Nat : i \in 1..m => f[i] = g[i]}
<1>1. 0 \in T
  OBVIOUS
<1>2. ASSUME NEW i \in Nat \cap T PROVE i + 1 \in T
  <2>1. SUFFICES ASSUME i + 1 \in 1..m PROVE f[i + 1] = g[i + 1]
    OBVIOUS
  <2>2. /\ f[i + 1] = IF i + 1 = 1 THEN seqs[i + 1] ELSE f[i] \o seqs[i + 1]
        /\ g[i + 1] = IF i + 1 = 1 THEN seqs[i + 1] ELSE g[i] \o seqs[i + 1]
    BY <2>1, FlattenedAt, (i + 1) - 1 = i
  <2> QED
    BY <2>1, <2>2, <1>2
<1>3. Nat \subseteq T
  <2> HIDE DEF T
  <2> QED
    BY <1>1, <1>2, Induction
<1> QED
  BY <1>3

LEMMA FlattenIs ==
    ASSUME NEW S, NEW seqs \in Seq(S), seqs # <<>>
    PROVE  \E f : Flattened(seqs, Len(seqs), f) /\ FlattenSeq(seqs) = f[Len(seqs)]
<1>1. Len(seqs) \in Nat \ {0}
  BY EmptySeq
<1> DEFINE f == CHOOSE f : Flattened(seqs, Len(seqs), f)
<1>2. Flattened(seqs, Len(seqs), f)
  BY <1>1, FlattenedExists
<1>3. FlattenSeq(seqs) = f[Len(seqs)]
  BY <1>1 DEF FlattenSeq, Flattened
<1> QED
  BY <1>2, <1>3

LEMMA FlattenType ==
    ASSUME NEW S, NEW seqs \in Seq(Seq(S))
    PROVE  FlattenSeq(seqs) \in Seq(S)
<1>1. CASE seqs = <<>>
  BY <1>1 DEF FlattenSeq
<1>2. CASE seqs # <<>>
  <2>1. PICK f : Flattened(seqs, Len(seqs), f) /\ FlattenSeq(seqs) = f[Len(seqs)]
    BY <1>2, FlattenIs
  <2>2. Len(seqs) \in Nat \ {0}
    BY <1>2, EmptySeq
  <2> DEFINE T == {i \in Nat : i \in 1..Len(seqs) => f[i] \in Seq(S)}
  <2>3. 0 \in T
    OBVIOUS
  <2>4. ASSUME NEW i \in Nat \cap T PROVE i + 1 \in T
    <3>1. SUFFICES ASSUME i + 1 \in 1..Len(seqs) PROVE f[i + 1] \in Seq(S)
      OBVIOUS
    <3>2. f[i + 1] = IF i + 1 = 1 THEN seqs[i + 1] ELSE f[i] \o seqs[i + 1]
      BY <2>1, <2>2, <3>1, FlattenedAt, (i + 1) - 1 = i
    <3>3. seqs[i + 1] \in Seq(S)
      BY <3>1, ElementOfSeq
    <3>4. i + 1 # 1 => f[i] \in Seq(S)
      BY <2>2, <3>1
    <3> QED
      BY <3>2, <3>3, <3>4, ConcatProperties
  <2>5. Nat \subseteq T
    <3> HIDE DEF T
    <3> QED
      BY <2>3, <2>4, Induction
  <2> QED
    BY <2>1, <2>2, <2>5
<1> QED
  BY <1>1, <1>2

\* Flattening one sequence more appends it.
LEMMA FlattenAppend ==
    ASSUME NEW S, NEW seqs \in Seq(Seq(S)), NEW s \in Seq(S)
    PROVE  FlattenSeq(Append(seqs, s)) = FlattenSeq(seqs) \o s
<1> DEFINE more == Append(seqs, s)
           n == Len(seqs)
<1>1. /\ more \in Seq(Seq(S)) /\ more # <<>> /\ Len(more) = n + 1 /\ n \in Nat
      /\ \A i \in 1..n : more[i] = seqs[i]
      /\ more[n + 1] = s
  BY AppendProperties, LenProperties
<1> HIDE DEF more, n
<1>2. PICK g : Flattened(more, n + 1, g) /\ FlattenSeq(more) = g[n + 1]
  BY <1>1, FlattenIs
<1>3. g[n + 1] = IF n + 1 = 1 THEN s ELSE g[n] \o s
  BY <1>1, <1>2, FlattenedAt, (n + 1) - 1 = n
<1>4. CASE seqs = <<>>
  <2>1. n = 0 /\ FlattenSeq(seqs) = <<>>
    BY <1>4 DEF FlattenSeq, n
  <2> QED
    BY <2>1, <1>2, <1>3, ConcatEmptySeq DEF more
<1>5. CASE seqs # <<>>
  <2>1. PICK f : Flattened(seqs, n, f) /\ FlattenSeq(seqs) = f[n]
    BY <1>5, FlattenIs DEF n
  <2>2. n > 0
    BY <1>5, EmptySeq DEF n
  <2> DEFINE h == [i \in 1..n |-> g[i]]
  <2>3. Flattened(seqs, n, h)
    <3>1. ASSUME NEW i \in 1..n
          PROVE  h[i] = IF i = 1 THEN seqs[i] ELSE h[i - 1] \o seqs[i]
      <4>1. i \in 1..(n + 1) /\ (i # 1 => i - 1 \in 1..n)
        BY <1>1
      <4>2. g[i] = IF i = 1 THEN more[i] ELSE g[i - 1] \o more[i]
        BY <1>1, <1>2, <4>1, n + 1 \in Nat, FlattenedAt
      <4> QED
        BY <1>1, <4>1, <4>2
    <3>2. h = [i \in 1..n |-> h[i]]
      OBVIOUS
    <3> HIDE DEF h
    <3> QED
      BY <3>1, <3>2 DEF Flattened
  <2>4. h[n] = g[n]
    BY <2>2, <1>1
  <2> HIDE DEF h
  <2>5. f[n] = h[n]
    BY <1>1, <2>1, <2>2, <2>3, FlattenedUnique
  <2> QED
    BY <1>2, <1>3, <1>1, <2>1, <2>2, <2>4, <2>5 DEF more
<1> QED
  BY <1>4, <1>5
=============================================================================
