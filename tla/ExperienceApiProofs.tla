-------------------------- MODULE ExperienceApiProofs --------------------------
(***************************************************************************)
(* Proofs about the experience API source: however the list changes and    *)
(* whatever is answered, it hands pages over whole, misses and repeats no  *)
(* more than the list changed, and stays polite.                           *)
(***************************************************************************)
EXTENDS ExperienceApi, DataLemmas

Keys == DOMAIN Records

\* The place in the list up to which it has been read.
Cut == Len(received) * PageSize

-----------------------------------------------------------------------------
(* The invariant *)

TypeInv ==
    /\ ApiTypeOK
    /\ upstream \in Seq(Keys)
    /\ gone \subseteq Keys /\ IsFiniteSet(gone)
    /\ received \in Seq(Seq(Keys))
    /\ listed \in Seq(Keys)
    /\ pc # "done" => Len(received) < MaxPages
    /\ pc = "backoff" => attempt < MaxRequestAttempts

\* Nothing of the first list, and nothing that was read, is forgotten.
Known ==
    /\ Range(FirstList) \subseteq Range(upstream) \cup gone
    /\ Range(listed) \subseteq Range(upstream) \cup gone
    /\ outcome \in {"empty_page", "short_page"} => Len(upstream) <= Cut
    /\ outcome # "error" =>
          \A i \in DOMAIN received : \A k \in Range(received[i]) :
              Names(k) # NoIdentity => k \in Range(listed)

\* Records of the first list that the source has gone past without reading.
PassedOver ==
    {k \in Range(FirstList) :
        /\ \E i \in DOMAIN upstream : i <= Cut /\ upstream[i] = k
        /\ \A j \in DOMAIN received : k \notin Range(received[j])}

\* Records handed over that the source has still before it.
ToRepeat ==
    {k \in Range(listed) : \E i \in DOMAIN upstream : i > Cut /\ upstream[i] = k}

\* A record moved up past the place that is read is passed over, one moved
\* down past it is to be read again: each takes a change of the list.
Shifted ==
    /\ Cardinality(PassedOver) <= Cardinality(gone) + bumps
    /\ Len(listed) - Cardinality(Range(listed)) + Cardinality(ToRepeat)
           <= Cardinality(Inserted) + bumps

\* The pauses cover the interval, and the Retry-After of the last answer.
Paced ==
    /\ pc = "pace" => age + sleep >= Interval /\ quiet = 0
    /\ pc = "backoff" => quiet <= sleep
    /\ pc = "asked" => quiet = 0

ApiInv == TypeInv /\ Known /\ Shifted /\ PagesWhole /\ Paced
-----------------------------------------------------------------------------
(* The operators of the model *)

\* The sequences Parsed puts one after the other.
Parts(records) ==
    [i \in DOMAIN records |->
        IF Names(records[i]) = NoIdentity THEN <<>> ELSE <<records[i]>>]

LEMMA ParsedIs == \A records : Parsed(records) = FlattenSeq(Parts(records))
BY DEF Parsed, Parts

LEMMA PartsType ==
    ASSUME NEW s \in Seq(Keys)
    PROVE  Parts(s) \in Seq(Seq(Keys))
<1>1. Len(s) \in Nat /\ DOMAIN s = 1..Len(s) /\ \A i \in 1..Len(s) : s[i] \in Keys
  BY LenProperties, ElementOfSeq
<1>2. \A i \in 1..Len(s) : Parts(s)[i] \in Seq(Keys)
  BY <1>1 DEF Parts
<1>3. Parts(s) = [i \in 1..Len(s) |-> Parts(s)[i]]
  BY <1>1 DEF Parts
<1> QED
  BY <1>1, <1>2, <1>3, IsASeq

LEMMA ParsedType ==
    ASSUME NEW s \in Seq(Keys)
    PROVE  Parsed(s) \in Seq(Keys)
BY PartsType, FlattenType, ParsedIs

LEMMA ParsedAppend ==
    ASSUME NEW s \in Seq(Keys), NEW e \in Keys
    PROVE  Parsed(Append(s, e)) =
               IF Names(e) = NoIdentity THEN Parsed(s) ELSE Append(Parsed(s), e)
<1> DEFINE t == Append(s, e)
           part == IF Names(e) = NoIdentity THEN <<>> ELSE <<e>>
<1>1. /\ t \in Seq(Keys) /\ DOMAIN t = DOMAIN s \cup {Len(s) + 1}
      /\ Len(s) \in Nat /\ DOMAIN s = 1..Len(s) /\ Len(s) + 1 \notin DOMAIN s
      /\ \A i \in DOMAIN s : t[i] = s[i]
      /\ t[Len(s) + 1] = e /\ Len(t) = Len(s) + 1
  BY AppendParts
<1>2. part \in Seq(Keys)
  OBVIOUS
<1> HIDE DEF t, part
<1>3. Parts(s) \in Seq(Seq(Keys)) /\ Parts(t) \in Seq(Seq(Keys))
  BY <1>1, PartsType
<1> DEFINE a == Append(Parts(s), part)
<1>4. /\ DOMAIN Parts(s) = DOMAIN s /\ DOMAIN Parts(t) = DOMAIN t
      /\ Len(Parts(s)) = Len(s)
  <2>1. DOMAIN Parts(s) = DOMAIN s /\ DOMAIN Parts(t) = DOMAIN t
    BY DEF Parts
  <2>2. DOMAIN Parts(s) = 1..Len(Parts(s)) /\ Len(Parts(s)) \in Nat
    BY <1>3, LenProperties
  <2> QED
    BY <1>1, <2>1, <2>2
<1>5. /\ a \in Seq(Seq(Keys)) /\ Len(a) = Len(s) + 1
      /\ \A i \in DOMAIN s : a[i] = Parts(s)[i]
      /\ a[Len(s) + 1] = part
  BY <1>2, <1>3, <1>4, AppendParts
<1> HIDE DEF a
<1>6. Len(Parts(t)) = Len(s) + 1
  <2>1. DOMAIN Parts(t) = 1..Len(Parts(t)) /\ Len(Parts(t)) \in Nat
    BY <1>3, LenProperties
  <2> QED
    BY <1>1, <1>4, <2>1
<1>7. ASSUME NEW i \in 1..(Len(s) + 1) PROVE Parts(t)[i] = a[i]
  <2>1. CASE i \in DOMAIN s
    BY <1>1, <1>5, <2>1 DEF Parts
  <2>2. CASE i = Len(s) + 1
    BY <1>1, <1>5, <2>2 DEF Parts, part
  <2> QED
    BY <1>1, <2>1, <2>2
<1>8. Parts(t) = a
  <2>1. \A i \in 1..Len(Parts(t)) : Parts(t)[i] = a[i]
    BY <1>6, <1>7
  <2> QED
    BY <1>3, <1>5, <1>6, <2>1, SeqEqual
<1>9. Parsed(t) = Parsed(s) \o part
  <2>1. FlattenSeq(a) = FlattenSeq(Parts(s)) \o part
    BY <1>2, <1>3, FlattenAppend DEF a
  <2> QED
    BY <1>8, <2>1, ParsedIs
<1>10. Parsed(s) \in Seq(Keys)
  BY ParsedType
<1>11. CASE Names(e) = NoIdentity
  BY <1>9, <1>10, <1>11, ConcatEmptySeq DEF t, part
<1>12. CASE Names(e) # NoIdentity
  BY <1>9, <1>10, <1>12, AppendIsConcat DEF t, part
<1> QED
  BY <1>11, <1>12

\* What is handed over of the records of a page: those that name a page, each
\* once if the page has each record once.
ParsedWell(s) ==
    /\ Range(Parsed(s)) = {k \in Range(s) : Names(k) # NoIdentity}
    /\ IsInjective(s) => Len(Parsed(s)) = Cardinality(Range(Parsed(s)))
    /\ IsFiniteSet(Range(Parsed(s)))

LEMMA ParsedWellAppend ==
    ASSUME NEW s \in Seq(Keys), NEW e \in Keys, ParsedWell(s)
    PROVE  ParsedWell(Append(s, e))
<1> DEFINE t == Append(s, e)
<1>1. /\ t \in Seq(Keys) /\ DOMAIN t = DOMAIN s \cup {Len(s) + 1}
      /\ Len(s) + 1 \notin DOMAIN s
      /\ \A i \in DOMAIN s : t[i] = s[i]
      /\ t[Len(s) + 1] = e
  BY AppendParts
<1>2. Range(t) = Range(s) \cup {e}
  BY RangeOfAppend
<1>3. Parsed(s) \in Seq(Keys)
  BY ParsedType
<1>4. Parsed(t) = IF Names(e) = NoIdentity THEN Parsed(s) ELSE Append(Parsed(s), e)
  BY ParsedAppend
<1> HIDE DEF t
<1>5. Range(Parsed(t)) = {k \in Range(t) : Names(k) # NoIdentity}
  <2>1. CASE Names(e) = NoIdentity
    BY <1>2, <1>4, <2>1 DEF ParsedWell
  <2>2. CASE Names(e) # NoIdentity
    <3>1. Range(Parsed(t)) = Range(Parsed(s)) \cup {e}
      BY <1>3, <1>4, <2>2, RangeOfAppend
    <3> QED
      BY <1>2, <2>2, <3>1 DEF ParsedWell
  <2> QED
    BY <2>1, <2>2
<1>6. IsFiniteSet(Range(Parsed(t)))
  <2>1. IsFiniteSet(Range(Parsed(s)) \cup {e})
    BY FS_AddElement DEF ParsedWell
  <2>2. Range(Parsed(t)) \in SUBSET (Range(Parsed(s)) \cup {e})
    BY <1>2, <1>5 DEF ParsedWell
  <2> QED
    BY <2>1, <2>2, FS_Subset
<1>7. ASSUME IsInjective(t) PROVE Len(Parsed(t)) = Cardinality(Range(Parsed(t)))
  <2>1. IsInjective(s) /\ e \notin Range(s)
    BY <1>1, <1>7 DEF IsInjective, Range
  <2>2. Len(Parsed(s)) = Cardinality(Range(Parsed(s)))
    BY <2>1 DEF ParsedWell
  <2>3. CASE Names(e) = NoIdentity
    BY <1>4, <2>2, <2>3
  <2>4. CASE Names(e) # NoIdentity
    <3>1. Range(Parsed(t)) = Range(Parsed(s)) \cup {e}
      BY <1>3, <1>4, <2>4, RangeOfAppend
    <3>2. e \notin Range(Parsed(s))
      BY <2>1 DEF ParsedWell
    <3>3. Cardinality(Range(Parsed(s)) \cup {e}) = Cardinality(Range(Parsed(s))) + 1
      BY <3>2, FS_AddElement DEF ParsedWell
    <3>4. Len(Parsed(t)) = Len(Parsed(s)) + 1
      BY <1>3, <1>4, <2>4, AppendParts
    <3> QED
      BY <2>2, <3>1, <3>3, <3>4
  <2> QED
    BY <2>3, <2>4
<1> QED
  BY <1>5, <1>6, <1>7 DEF ParsedWell, t

LEMMA ParsedIsWell ==
    ASSUME NEW s \in Seq(Keys)
    PROVE  ParsedWell(s)
<1> DEFINE T == {n \in Nat : \A t \in Seq(Keys) : Len(t) = n => ParsedWell(t)}
<1>1. 0 \in T
  <2>1. ASSUME NEW t \in Seq(Keys), Len(t) = 0 PROVE ParsedWell(t)
    <3>1. t = <<>>
      BY <2>1, EmptySeq
    <3>2. Parsed(<<>>) = <<>>
      <4>1. DOMAIN Parts(<<>>) = {} /\ Parts(<<>>) \in Seq(Seq(Keys))
        BY EmptySeq, PartsType DEF Parts
      <4>2. Parts(<<>>) = <<>>
        BY <4>1, EmptySeq, LenProperties
      <4> QED
        BY <4>2, ParsedIs DEF FlattenSeq
    <3>3. Range(<<>>) = {} /\ Len(<<>>) = 0
      BY DEF Range
    <3> QED
      BY <3>1, <3>2, <3>3, FS_EmptySet DEF ParsedWell
  <2> QED
    BY <2>1
<1>2. ASSUME NEW n \in Nat \cap T PROVE n + 1 \in T
  <2>1. ASSUME NEW t \in Seq(Keys), Len(t) = n + 1 PROVE ParsedWell(t)
    <3>1. t # <<>>
      BY <2>1, EmptySeq
    <3>2. PICK u \in Seq(Keys), e \in Keys : t = Append(u, e)
      BY <3>1, SequenceEmptyOrAppend
    <3>3. Len(u) = n
      BY <2>1, <3>2, AppendParts
    <3>4. ParsedWell(u)
      BY <1>2, <3>3
    <3> QED
      BY <3>2, <3>4, ParsedWellAppend
  <2> QED
    BY <2>1
<1>3. Nat \subseteq T
  <2> HIDE DEF T
  <2> QED
    BY <1>1, <1>2, Induction
<1> QED
  BY <1>3, LenProperties

LEMMA CutType ==
    ASSUME TypeInv
    PROVE  /\ Cut \in Nat /\ PageSize \in Nat \ {0}
           /\ (PageNumber - 1) * PageSize = Cut
           /\ PageNumber * PageSize = Cut + PageSize
<1>1. Len(received) \in Nat /\ PageSize \in Nat \ {0}
  BY ExperienceApiAssumption DEF TypeInv
<1>2. ASSUME NEW n \in Nat
      PROVE  /\ n * PageSize \in Nat /\ (n + 1 - 1) * PageSize = n * PageSize
             /\ (n + 1) * PageSize = n * PageSize + PageSize
  BY <1>1
<1> QED
  BY <1>1, <1>2 DEF Cut, PageNumber

\* The page that is read: the records of the list after the cut, each once,
\* and fewer than a page has only where the list ends.
LEMMA PageIs ==
    ASSUME TypeInv
    PROVE  /\ PageRecords \in Seq(Keys) /\ IsInjective(PageRecords)
           /\ Range(PageRecords) =
                 {upstream[i] : i \in {j \in DOMAIN upstream :
                                          Cut < j /\ j <= Cut + PageSize}}
           /\ PageRecords = <<>> => Len(upstream) <= Cut
           /\ Len(PageRecords) < PageSize => Len(upstream) <= Cut + PageSize
<1> DEFINE p == PageRecords
           n == Least(Cut + PageSize, Len(upstream))
           l == Len(upstream)
           c == Cut
<1>1. /\ upstream \in Seq(Keys) /\ l \in Nat /\ IsInjective(upstream)
      /\ DOMAIN upstream = 1..l
  BY LenProperties DEF TypeInv, ApiTypeOK
<1>2. c \in Nat /\ PageSize \in Nat \ {0}
  BY CutType
<1>3. p = SubSeq(upstream, c + 1, n)
  BY CutType DEF PageRecords
<1>4. n = IF c + PageSize < l THEN c + PageSize ELSE l
  BY DEF Least
<1> HIDE DEF n, p, l, c
<1>5. n \in Nat /\ n <= l
  BY <1>1, <1>2, <1>4
<1>6. /\ p \in Seq(Keys) /\ Len(p) = IF c < n THEN n - c ELSE 0
      /\ DOMAIN p = 1..Len(p)
      /\ \A i \in DOMAIN p : /\ i \in Nat \ {0} /\ p[i] = upstream[c + i]
                             /\ c + i \in DOMAIN upstream /\ c + i <= n
      /\ \A j \in DOMAIN upstream : c < j /\ j <= n =>
             j - c \in DOMAIN p /\ p[j - c] = upstream[j]
  BY <1>1, <1>2, <1>3, <1>5, SliceParts DEF l
<1>7. IsInjective(p)
  <2>1. ASSUME NEW i \in DOMAIN p, NEW j \in DOMAIN p, p[i] = p[j] PROVE i = j
    <3>1. c + i = c + j
      BY <1>1, <1>6, <2>1 DEF IsInjective
    <3>2. i \in Nat /\ j \in Nat
      BY <1>6
    <3> QED
      BY <1>2, <3>1, <3>2
  <2> QED
    BY <2>1 DEF IsInjective
<1>8. Range(p) = {upstream[i] : i \in {j \in DOMAIN upstream :
                                          c < j /\ j <= c + PageSize}}
  <2>1. ASSUME NEW j \in DOMAIN upstream
        PROVE  j <= n <=> j <= c + PageSize
    BY <1>1, <1>2, <1>4
  <2>2. ASSUME NEW i \in DOMAIN p PROVE c < c + i
    <3>1. i \in Nat \ {0}
      BY <1>6
    <3> QED
      BY <1>2, <3>1
  <2>3. \A i \in DOMAIN p : /\ p[i] = upstream[c + i] /\ c < c + i
                            /\ c + i \in DOMAIN upstream /\ c + i <= c + PageSize
    BY <1>6, <2>1, <2>2
  <2>4. \A j \in DOMAIN upstream : c < j /\ j <= c + PageSize =>
            \E i \in DOMAIN p : p[i] = upstream[j]
    BY <1>6, <2>1
  <2> QED
    BY <2>3, <2>4 DEF Range
<1>9. /\ p = <<>> => l <= c
      /\ Len(p) < PageSize => l <= c + PageSize
  <2> DEFINE m == Len(p)
  <2>1. m = IF c < n THEN n - c ELSE 0
    BY <1>6
  <2>2. p = <<>> => m = 0
    BY EmptySeq
  <2> HIDE DEF m
  <2>3. /\ m = 0 => l <= c
        /\ m < PageSize => l <= c + PageSize
    BY <1>1, <1>2, <1>4, <2>1
  <2> QED
    BY <2>2, <2>3 DEF m
<1> QED
  BY <1>6, <1>7, <1>8, <1>9 DEF p, c, l

\* The pause of the pacer covers what the interval still asks for.
LEMMA PacerPause ==
    ASSUME TypeInv, NEW n, EnterPacer(n)
    PROVE  sleep' \in Nat /\ age + sleep' >= Interval
<1>1. Interval \in Nat /\ Jitter \in Nat
  BY ExperienceApiAssumption
<1>2. age \in Nat
  BY <1>1 DEF TypeInv, ApiTypeOK, Forgotten
<1>3. PICK j \in 0..Jitter : sleep' = Greatest(0, Interval + j - age)
  BY DEF EnterPacer
<1> QED
  BY <1>1, <1>2, <1>3 DEF Greatest

\* A delay before a retry is a time, and no shorter than Retry-After asks.
LEMMA DelayType ==
    ASSUME NEW failure \in Failure, NEW header \in Headers,
           NEW n \in Nat, NEW d \in RequestDelays(failure, header, n, Jitter),
           quiet \in Nat
    PROVE  /\ d \in Nat /\ Quieted(failure, header) \in Nat
           /\ quiet = 0 => Quieted(failure, header) <= d
<1>1. /\ header \in [readable : BOOLEAN, endless : BOOLEAN, seconds : Int]
      /\ Jitter \in Nat
  BY ExperienceApiAssumption
<1>2. header.readable => RetryAfterSeconds(header) \in Nat
  BY <1>1 DEF RetryAfterSeconds
<1>3. CASE failure = "throttled" /\ header.readable
  BY <1>2, <1>3 DEF RequestDelays, Quieted
<1>4. CASE ~(failure = "throttled" /\ header.readable)
  <2>1. \A j \in 0..Jitter : (IF n = 1 THEN 2 ELSE 5) + j \in Nat
    BY <1>1
  <2> QED
    BY <1>1, <1>4, <2>1 DEF RequestDelays, Quieted
<1> QED
  BY <1>3, <1>4

-----------------------------------------------------------------------------
(* The changes of the list *)

\* A record that arrives moves the others one place down.
LEMMA InsertParts ==
    ASSUME TypeInv, Insert
    PROVE  \E k \in Keys \ (Range(upstream) \cup gone) :
              /\ upstream' \in Seq(Keys) /\ IsInjective(upstream')
              /\ Range(upstream') = Range(upstream) \cup {k}
              /\ \A j \in DOMAIN upstream' :
                    \/ j = 1 /\ upstream'[j] = k
                    \/ \E i \in DOMAIN upstream :
                          j = i + 1 /\ upstream'[j] = upstream[i]
<1>1. PICK k \in Keys \ (Range(upstream) \cup gone) : upstream' = <<k>> \o upstream
  BY DEF Insert, Keys
<1>2. upstream \in Seq(Keys) /\ IsInjective(upstream) /\ k \in Keys \ Range(upstream)
  BY DEF TypeInv, ApiTypeOK
<1> QED
  BY <1>1, <1>2, PrependOnce

\* A record that is removed lets those after it move one place up.
LEMMA DeleteParts ==
    ASSUME TypeInv, Delete
    PROVE  \E k \in Range(upstream) :
              /\ gone' = gone \cup {k}
              /\ upstream' \in Seq(Keys) /\ IsInjective(upstream')
              /\ Range(upstream') = Range(upstream) \ {k}
              /\ \A j \in DOMAIN upstream' : \E i \in DOMAIN upstream :
                    upstream'[j] = upstream[i] /\ (i = j \/ i = j + 1)
<1>1. PICK i \in DOMAIN upstream : /\ upstream' = RemoveAt(upstream, i)
                                 /\ gone' = gone \cup {upstream[i]}
  BY DEF Delete
<1>2. upstream \in Seq(Keys) /\ IsInjective(upstream)
  BY DEF TypeInv, ApiTypeOK
<1>3. upstream[i] \in Range(upstream)
  BY DEF Range
<1> QED
  BY <1>1, <1>2, <1>3, RemoveOnce

\* A record that is moved to the head leaves every other one where it is or
\* one place further down.
LEMMA BumpParts ==
    ASSUME TypeInv, Bump
    PROVE  \E k \in Range(upstream) :
              /\ upstream' \in Seq(Keys) /\ IsInjective(upstream')
              /\ Range(upstream') = Range(upstream)
              /\ \A j \in DOMAIN upstream' :
                    \/ j = 1 /\ upstream'[j] = k
                    \/ \E i \in DOMAIN upstream :
                          upstream'[j] = upstream[i] /\ (j = i + 1 \/ j = i)
<1>1. PICK i \in DOMAIN upstream : upstream' = <<upstream[i]>> \o RemoveAt(upstream, i)
  BY DEF Bump
<1>2. upstream \in Seq(Keys) /\ IsInjective(upstream)
  BY DEF TypeInv, ApiTypeOK
<1> DEFINE r == RemoveAt(upstream, i)
           k == upstream[i]
<1>3. /\ r \in Seq(Keys) /\ IsInjective(r) /\ Range(r) = Range(upstream) \ {k}
      /\ \A j \in DOMAIN r : \E h \in DOMAIN upstream :
            r[j] = upstream[h] /\ h # i /\ (h = j \/ h = j + 1)
  BY <1>2, RemoveOnce
<1>4. k \in Range(upstream) /\ k \in Keys
  BY <1>2, LenProperties, ElementOfSeq DEF Range
<1> HIDE DEF r, k
<1>5. /\ upstream' \in Seq(Keys) /\ IsInjective(upstream')
      /\ Range(upstream') = Range(r) \cup {k}
      /\ \A j \in DOMAIN upstream' :
            \/ j = 1 /\ upstream'[j] = k
            \/ \E h \in DOMAIN r : j = h + 1 /\ upstream'[j] = r[h]
  <2>1. upstream' = <<k>> \o r
    BY <1>1 DEF k, r
  <2> QED
    BY <1>3, <1>4, <2>1, PrependOnce
<1>6. ASSUME NEW h \in DOMAIN r, NEW j, j = h + 1
      PROVE  \E g \in DOMAIN upstream : r[h] = upstream[g] /\ (j = g + 1 \/ j = g)
  BY <1>3, <1>6
<1>7. \A j \in DOMAIN upstream' :
         \/ j = 1 /\ upstream'[j] = k
         \/ \E g \in DOMAIN upstream :
               upstream'[j] = upstream[g] /\ (j = g + 1 \/ j = g)
  BY <1>5, <1>6
<1>8. Range(upstream') = Range(upstream)
  BY <1>3, <1>4, <1>5
<1> QED
  BY <1>4, <1>5, <1>7, <1>8

-----------------------------------------------------------------------------
(* Every step keeps the types *)

LEMMA TypeInit == Init => TypeInv
<1> SUFFICES ASSUME Init PROVE TypeInv
  OBVIOUS
<1> USE ExperienceApiAssumption DEF Init, Keys
<1>1. Range(upstream) \cap gone = {} /\ IsInjective(upstream)
  OBVIOUS
<1>2. age \in 0..Forgotten
  BY DEF Forgotten
<1>3. Len(received) = 0 /\ received \in Seq(Seq(Keys)) /\ listed \in Seq(Keys)
  OBVIOUS
<1>4. IsFiniteSet(gone)
  BY FS_EmptySet
<1>5. attempt \in 1..MaxRequestAttempts
  BY DEF MaxRequestAttempts
<1>6. ApiTypeOK
  BY <1>1, <1>2, <1>3, <1>5 DEF ApiTypeOK
<1> QED
  BY <1>3, <1>4, <1>6 DEF TypeInv

\* What a page that arrives does to the pages received.
LEMMA ArrivesType ==
    ASSUME TypeInv, Arrives
    PROVE  /\ received' \in Seq(Seq(Keys)) /\ Len(received') = Len(received) + 1
           /\ Len(received') <= MaxPages /\ Len(received) \in Nat
           /\ PageNumber = Len(received')
<1>1. /\ received \in Seq(Seq(Keys)) /\ PageRecords \in Seq(Keys)
      /\ Len(received) < MaxPages /\ MaxPages \in Nat
  BY PageIs, ExperienceApiAssumption DEF TypeInv, Arrives
<1>2. received' = Append(received, PageRecords)
  BY DEF Arrives
<1>3. /\ received' \in Seq(Seq(Keys)) /\ Len(received') = Len(received) + 1
      /\ Len(received) \in Nat
  BY <1>1, <1>2, AppendParts
<1> QED
  BY <1>1, <1>3 DEF PageNumber

LEMMA ChangeTypes ==
    ASSUME TypeInv, Change
    PROVE  TypeInv'
<1>1. /\ upstream' \in Seq(Keys) /\ IsInjective(upstream')
      /\ gone' \subseteq Keys /\ IsFiniteSet(gone')
      /\ Range(upstream') \cap gone' = {}
      /\ bumps' \in Nat
  <2>1. /\ bumps \in Nat /\ Range(upstream) \cap gone = {} /\ gone \subseteq Keys
        /\ IsFiniteSet(gone) /\ Range(upstream) \subseteq Keys
    BY RangeOfSeq DEF TypeInv, ApiTypeOK
  <2>2. CASE Insert
    BY <2>1, <2>2, InsertParts DEF Insert
  <2>3. CASE Delete
    BY <2>1, <2>3, DeleteParts, FS_AddElement DEF Delete
  <2>4. CASE Bump
    <3>1. bumps' = bumps + 1 /\ gone' = gone
      BY <2>4 DEF Bump
    <3> QED
      BY <2>1, <2>4, <3>1, BumpParts
  <2> QED
    BY <2>2, <2>3, <2>4 DEF Change
<1>2. UNCHANGED <<request, progress>>
  BY DEF Change, Insert, Delete, Bump, Changeable
<1> QED
  BY <1>1, <1>2 DEF TypeInv, ApiTypeOK, request, progress

LEMMA AnswerTypes ==
    ASSUME TypeInv, Answer
    PROVE  TypeInv'
<1> USE DEF TypeInv, ApiTypeOK
<1>1. CASE Retry
  <2>1. PICK failure \in Failure, header \in Headers :
            /\ RetriesRequest(failure, attempt)
            /\ sleep' \in RequestDelays(failure, header, attempt, Jitter)
            /\ quiet' = Quieted(failure, header)
    BY <1>1 DEF Retry
  <2>2. sleep' \in Nat /\ quiet' \in Nat
    BY <2>1, DelayType
  <2>3. attempt < MaxRequestAttempts
    BY <2>1 DEF RetriesRequest
  <2> QED
    BY <1>1, <2>2, <2>3 DEF Retry, list, progress
<1>2. CASE RequestFails
  BY <1>2 DEF RequestFails, EndSource, list
<1>3. CASE EmptyPage
  BY <1>3, ArrivesType DEF EmptyPage, Arrives, EndSource, list
<1>4. CASE PageRaises
  BY <1>4, ArrivesType DEF PageRaises, Arrives, EndSource, list
<1>5. ASSUME GoodPage PROVE listed' \in Seq(Keys)
  BY <1>5, PageIs, ParsedType, ConcatProperties DEF GoodPage
<1>6. CASE ShortPage
  BY <1>5, <1>6, ArrivesType DEF ShortPage, GoodPage, Arrives, EndSource, list, Keys
<1>7. CASE FullPage
  <2>1. CASE EndSource("configured_page_limit")
    BY <1>5, <1>7, <2>1, ArrivesType
    DEF FullPage, GoodPage, Arrives, EndSource, list, Keys
  <2>2. CASE PageNumber < MaxPages /\ EnterPacer(1) /\ UNCHANGED <<list, age, outcome>>
    <3>1. sleep' \in Nat
      BY <2>2, PacerPause
    <3>2. 1 \in 1..MaxRequestAttempts
      BY DEF MaxRequestAttempts
    <3> QED
      BY <1>5, <1>7, <2>2, <3>1, <3>2, ArrivesType
      DEF FullPage, GoodPage, Arrives, EnterPacer, list, Keys
  <2> QED
    BY <1>7, <2>1, <2>2 DEF FullPage
<1>8. CASE SleepsForever
  BY <1>8 DEF SleepsForever, RetriesRequest, list, progress
<1> QED
  BY <1>1, <1>2, <1>3, <1>4, <1>6, <1>7, <1>8 DEF Answer

LEMMA NextTypes ==
    ASSUME TypeInv, [Next]_vars
    PROVE  TypeInv'
<1> USE DEF TypeInv, ApiTypeOK
<1>1. CASE Post
  <2>1. 0 \in 0..Forgotten
    BY ExperienceApiAssumption DEF Forgotten
  <2> QED
    BY <1>1, <2>1 DEF Post, list, progress
<1>2. CASE BackoffEnds
  <2>1. sleep' \in Nat
    BY <1>2, PacerPause DEF BackoffEnds
  <2>2. attempt' \in 1..MaxRequestAttempts
    BY <1>2 DEF BackoffEnds, EnterPacer, MaxRequestAttempts
  <2> QED
    BY <1>2, <2>1, <2>2 DEF BackoffEnds, EnterPacer, list, progress
<1>3. CASE Tick
  <2>1. age' \in 0..Forgotten /\ sleep' \in Nat /\ quiet' \in Nat
    <3>1. Forgotten \in Nat
      BY ExperienceApiAssumption DEF Forgotten
    <3>2. age' \in 0..Forgotten
      BY <1>3, <3>1 DEF Tick, Least
    <3>3. sleep' \in Nat /\ quiet' \in Nat
      BY <1>3 DEF Tick, Greatest
    <3> QED
      BY <3>2, <3>3
  <2> QED
    BY <1>3, <2>1 DEF Tick, list, progress
<1>4. CASE UNCHANGED vars
  BY <1>4 DEF vars, list, request, progress
<1> QED
  BY <1>1, <1>2, <1>3, <1>4, ChangeTypes, AnswerTypes DEF Next, Terminated

-----------------------------------------------------------------------------
(* Every step keeps what is known of the list *)

LEMMA InitKnown == Init => Known
<1> SUFFICES ASSUME Init PROVE Known
  OBVIOUS
<1>1. Range(listed) = {} /\ DOMAIN received = {}
  BY DEF Init, Range
<1> QED
  BY <1>1 DEF Init, Known

LEMMA CutMoves ==
    ASSUME TypeInv, Arrives
    PROVE  /\ Cut' = Cut + PageSize
           /\ DOMAIN received' = DOMAIN received \cup {Len(received) + 1}
           /\ \A i \in DOMAIN received : received'[i] = received[i]
           /\ received'[Len(received) + 1] = PageRecords
<1>1. /\ received \in Seq(Seq(Keys)) /\ PageRecords \in Seq(Keys)
      /\ received' = Append(received, PageRecords)
  BY PageIs DEF TypeInv, Arrives
<1>2. /\ Len(received') = Len(received) + 1
      /\ DOMAIN received' = DOMAIN received \cup {Len(received) + 1}
      /\ \A i \in DOMAIN received : received'[i] = received[i]
      /\ received'[Len(received) + 1] = PageRecords
  BY <1>1, AppendParts
<1>3. Cut' = PageNumber * PageSize
  BY <1>2 DEF Cut, PageNumber
<1> QED
  BY <1>2, <1>3, CutType

\* A page is short where the list ends.
LEMMA ShortIsLast ==
    ASSUME TypeInv, ShortPage
    PROVE  Len(upstream) <= Cut'
<1>1. PICK size \in DeclaredSizes : Len(PageRecords) < DeclaredSize(size)
  BY DEF ShortPage
<1>2. DeclaredSize(size) \in Int /\ DeclaredSize(size) <= PageSize
  BY DeclaredSizesAssumption DEF DeclaredSize
<1>3. Cut' = Cut + PageSize
  BY CutMoves DEF ShortPage, GoodPage
<1>4. Len(PageRecords) < PageSize
  <2>1. Len(PageRecords) \in Nat /\ PageSize \in Nat
    BY PageIs, CutType, LenProperties
  <2> QED
    BY <1>1, <1>2, <2>1
<1> QED
  BY <1>3, <1>4, PageIs

LEMMA EmptyIsLast ==
    ASSUME TypeInv, EmptyPage
    PROVE  Len(upstream) <= Cut'
<1>1. Cut' = Cut + PageSize /\ Cut \in Nat /\ PageSize \in Nat
  BY CutMoves, CutType DEF EmptyPage
<1>2. Len(upstream) <= Cut /\ Len(upstream) \in Nat
  BY PageIs, LenProperties DEF EmptyPage, TypeInv
<1> QED
  BY <1>1, <1>2

\* A page is handed over with all its records that name a page.
LEMMA GoodPageParts ==
    ASSUME TypeInv, GoodPage
    PROVE  /\ Parsed(PageRecords) \in Seq(Keys)
           /\ listed' = listed \o Parsed(PageRecords)
           /\ Range(Parsed(PageRecords)) =
                  {k \in Range(PageRecords) : Names(k) # NoIdentity}
           /\ Len(Parsed(PageRecords)) = Cardinality(Range(Parsed(PageRecords)))
           /\ IsFiniteSet(Range(Parsed(PageRecords)))
           /\ Range(listed') = Range(listed) \cup Range(Parsed(PageRecords))
<1>1. PageRecords \in Seq(Keys) /\ IsInjective(PageRecords)
  BY PageIs
<1>2. ParsedWell(PageRecords) /\ Parsed(PageRecords) \in Seq(Keys)
  BY <1>1, ParsedIsWell, ParsedType
<1>3. listed' = listed \o Parsed(PageRecords) /\ listed \in Seq(Keys)
  BY DEF GoodPage, TypeInv
<1> QED
  BY <1>1, <1>2, <1>3, RangeConcatenation DEF ParsedWell

LEMMA ChangeKnown ==
    ASSUME TypeInv, Known, Change
    PROVE  Known'
<1>1. outcome = "running" /\ UNCHANGED <<request, progress>>
  BY DEF Change, Insert, Delete, Bump, Changeable
<1>2. Range(upstream) \cup gone \subseteq Range(upstream') \cup gone'
  <2>1. CASE Insert
    BY <2>1, InsertParts DEF Insert
  <2>2. CASE Delete
    BY <2>2, DeleteParts
  <2>3. CASE Bump
    BY <2>3, BumpParts DEF Bump
  <2> QED
    BY <2>1, <2>2, <2>3 DEF Change
<1> QED
  BY <1>1, <1>2 DEF Known, request, progress, Cut

LEMMA GoodPageKnown ==
    ASSUME TypeInv, Known, GoodPage, UNCHANGED list, outcome = "running",
           outcome' \in {"empty_page", "short_page"} => Len(upstream) <= Cut'
    PROVE  Known'
<1>1. Arrives /\ upstream' = upstream /\ gone' = gone
  BY DEF GoodPage, list
<1>2. Range(PageRecords) \subseteq Range(upstream)
  BY PageIs DEF Range
<1>3. Range(listed') \subseteq Range(upstream') \cup gone'
  BY <1>1, <1>2, GoodPageParts DEF Known
<1>4. ASSUME NEW i \in DOMAIN received', NEW k \in Range(received'[i]),
             Names(k) # NoIdentity
      PROVE  k \in Range(listed')
  <2>1. CASE i \in DOMAIN received
    BY <1>1, <1>4, <2>1, CutMoves, GoodPageParts DEF Known
  <2>2. CASE i = Len(received) + 1
    BY <1>1, <1>4, <2>2, CutMoves, GoodPageParts
  <2> QED
    BY <1>1, <2>1, <2>2, CutMoves
<1> QED
  BY <1>1, <1>3, <1>4 DEF Known

LEMMA NextKnown ==
    ASSUME TypeInv, Known, [Next]_vars
    PROVE  Known'
<1>1. CASE Change
  BY <1>1, ChangeKnown
<1>2. CASE EmptyPage
  <2>1. /\ outcome = "running" /\ Arrives /\ upstream' = upstream /\ gone' = gone
        /\ listed' = listed
    BY <1>2 DEF EmptyPage, EndSource, list, Arrives, TypeInv, ApiTypeOK
  <2>2. ASSUME NEW i \in DOMAIN received', NEW k \in Range(received'[i]),
               Names(k) # NoIdentity
        PROVE  k \in Range(listed')
    <3>1. CASE i \in DOMAIN received
      BY <2>1, <2>2, <3>1, CutMoves DEF Known
    <3>2. CASE i = Len(received) + 1
      BY <1>2, <2>1, <2>2, <3>2, CutMoves DEF EmptyPage, Range
    <3> QED
      BY <2>1, <3>1, <3>2, CutMoves
  <2> QED
    BY <1>2, <2>1, <2>2, EmptyIsLast DEF Known
<1>3. CASE PageRaises \/ RequestFails
  BY <1>3 DEF PageRaises, RequestFails, Arrives, EndSource, list, Known
<1>4. CASE ShortPage
  BY <1>4, GoodPageKnown, ShortIsLast
  DEF ShortPage, EndSource, GoodPage, Arrives, list, TypeInv, ApiTypeOK
<1>5. CASE FullPage
  <2>1. GoodPage /\ UNCHANGED list /\ outcome = "running"
    BY <1>5 DEF FullPage, EndSource, list, GoodPage, Arrives, TypeInv, ApiTypeOK
  <2>2. outcome' \notin {"empty_page", "short_page"}
    BY <1>5, <2>1 DEF FullPage, EndSource
  <2> QED
    BY <2>1, <2>2, GoodPageKnown
<1>6. CASE \/ Post \/ Retry \/ SleepsForever \/ BackoffEnds \/ Tick
           \/ UNCHANGED vars
  BY <1>6
  DEF Post, Retry, SleepsForever, BackoffEnds, Tick, vars, list, request, progress, Known, Cut
<1> QED
  BY <1>1, <1>2, <1>3, <1>4, <1>5, <1>6 DEF Next, Answer, Terminated

-----------------------------------------------------------------------------
(* Every step keeps the bounds on what is missed and repeated *)

LEMMA CountTypes ==
    ASSUME TypeInv
    PROVE  /\ IsFiniteSet(gone) /\ IsFiniteSet(Inserted)
           /\ IsFiniteSet(PassedOver) /\ IsFiniteSet(ToRepeat)
           /\ IsFiniteSet(Range(listed))
           /\ Cardinality(gone) \in Nat /\ Cardinality(Inserted) \in Nat
           /\ Cardinality(PassedOver) \in Nat /\ Cardinality(ToRepeat) \in Nat
           /\ Cardinality(Range(listed)) \in Nat
           /\ Len(listed) \in Nat /\ bumps \in Nat /\ Cut \in Nat
<1>1. /\ upstream \in Seq(Keys) /\ FirstList \in Seq(Keys) /\ listed \in Seq(Keys)
      /\ IsFiniteSet(gone) /\ bumps \in Nat
  BY ExperienceApiAssumption DEF TypeInv, ApiTypeOK, Keys
<1>2. /\ IsFiniteSet(Range(upstream)) /\ IsFiniteSet(Range(FirstList))
      /\ IsFiniteSet(Range(listed))
  BY <1>1, RangeFinite
<1>3. IsFiniteSet(Range(upstream) \cup gone)
  BY <1>1, <1>2, FS_Union
<1>4. /\ Inserted \subseteq Range(upstream) \cup gone
      /\ PassedOver \subseteq Range(FirstList) /\ ToRepeat \subseteq Range(listed)
  BY DEF Inserted, PassedOver, ToRepeat
<1>5. IsFiniteSet(Inserted) /\ IsFiniteSet(PassedOver) /\ IsFiniteSet(ToRepeat)
  BY <1>2, <1>3, <1>4, FS_Subset
<1> QED
  BY <1>1, <1>2, <1>5, CutType, FS_CardinalityType

LEMMA InitShifted == Init => Shifted
<1> SUFFICES ASSUME Init PROVE Shifted
  OBVIOUS
<1>1. TypeInv
  BY TypeInit
<1>2. PassedOver = {} /\ ToRepeat = {} /\ Range(listed) = {} /\ gone = {} /\ bumps = 0
  <2>1. Len(received) = 0 /\ Cut = 0
    BY ExperienceApiAssumption DEF Init, Cut
  <2>2. upstream \in Seq(Keys)
    BY <1>1 DEF TypeInv
  <2>3. \A i \in DOMAIN upstream : ~(i <= Cut)
    BY <2>1, <2>2, LenProperties
  <2> QED
    BY <2>3 DEF Init, PassedOver, ToRepeat, Range
<1>3. Len(listed) = 0 /\ Cardinality({}) = 0
  BY FS_EmptySet DEF Init
<1> QED
  BY <1>1, <1>2, <1>3, CountTypes DEF Shifted

\* The number of records that came to the list.
LEMMA InsertedBy ==
    ASSUME TypeInv, Known, Change
    PROVE  IF Insert THEN Cardinality(Inserted') = Cardinality(Inserted) + 1
                     ELSE Inserted' = Inserted
<1>1. CASE Insert
  <2>1. PICK k \in Keys \ (Range(upstream) \cup gone) :
            Range(upstream') = Range(upstream) \cup {k}
    BY <1>1, InsertParts
  <2>2. gone' = gone /\ k \notin Range(FirstList)
    BY <1>1, <2>1 DEF Insert, Known
  <2>3. Inserted' = Inserted \cup {k} /\ k \notin Inserted
    BY <2>1, <2>2 DEF Inserted
  <2> QED
    BY <1>1, <2>3, CountTypes, FS_AddElement
<1>2. CASE ~Insert
  <2>1. Range(upstream') \cup gone' = Range(upstream) \cup gone
    <3>1. CASE Delete
      BY <3>1, DeleteParts
    <3>2. CASE Bump
      BY <3>2, BumpParts DEF Bump
    <3> QED
      BY <1>2, <3>1, <3>2 DEF Change
  <2> QED
    BY <1>2, <2>1 DEF Inserted
<1> QED
  BY <1>1, <1>2

LEMMA ChangeFrame ==
    ASSUME TypeInv, Change
    PROVE  /\ received' = received /\ listed' = listed /\ Cut' = Cut
           /\ upstream \in Seq(Keys) /\ DOMAIN upstream \subseteq Nat \ {0}
           /\ IsInjective(upstream)
<1>1. received' = received /\ listed' = listed
  BY DEF Change, Insert, Delete, Bump, Changeable, progress
<1>2. upstream \in Seq(Keys) /\ DOMAIN upstream \subseteq Nat \ {0} /\ IsInjective(upstream)
  BY LenProperties DEF TypeInv, ApiTypeOK
<1> QED
  BY <1>1, <1>2 DEF Cut

\* A removed record may let one pass, a moved one may itself be past.
LEMMA ChangePasses ==
    ASSUME TypeInv, Known, Change
    PROVE  /\ Insert => PassedOver' \subseteq PassedOver
           /\ ~Insert => \E k : PassedOver' \subseteq PassedOver \cup {k}
<1> USE ChangeFrame
<1>1. CASE Insert
  <2>1. PICK k \in Keys \ (Range(upstream) \cup gone) :
           \A j \in DOMAIN upstream' :
              \/ j = 1 /\ upstream'[j] = k
              \/ \E i \in DOMAIN upstream : j = i + 1 /\ upstream'[j] = upstream[i]
    BY <1>1, InsertParts
  <2>2. k \notin Range(FirstList)
    BY <2>1 DEF Known
  <2>3. ASSUME NEW j \in DOMAIN upstream', j <= Cut, upstream'[j] # k
        PROVE  \E i \in DOMAIN upstream : i <= Cut /\ upstream[i] = upstream'[j]
    <3>1. PICK i \in DOMAIN upstream : j = i + 1 /\ upstream'[j] = upstream[i]
      BY <2>1, <2>3
    <3>2. i <= Cut
      BY <2>3, <3>1, CountTypes
    <3> QED
      BY <3>1, <3>2
  <2> QED
    BY <1>1, <2>2, <2>3 DEF PassedOver
<1>2. CASE Delete /\ ~Insert
  <2>1. \A j \in DOMAIN upstream' : \E i \in DOMAIN upstream :
           upstream'[j] = upstream[i] /\ (i = j \/ i = j + 1)
    BY <1>2, DeleteParts
  <2>2. ASSUME NEW j \in DOMAIN upstream', j <= Cut, upstream'[j] # upstream[Cut + 1]
        PROVE  \E i \in DOMAIN upstream : i <= Cut /\ upstream[i] = upstream'[j]
    <3>1. PICK i \in DOMAIN upstream :
             upstream'[j] = upstream[i] /\ (i = j \/ i = j + 1)
      BY <2>1
    <3>2. i <= Cut \/ i = Cut + 1
      <4>1. CASE i = j
        BY <2>2, <4>1
      <4>2. CASE i = j + 1
        <5>1. upstream' \in Seq(Keys)
          BY <1>2, DeleteParts
        <5>2. j \in Nat
          BY <5>1, LenProperties
        <5> QED
          BY <2>2, <4>2, <5>2, CountTypes
      <4> QED
        BY <3>1, <4>1, <4>2
    <3> QED
      BY <2>2, <3>1, <3>2
  <2>3. PassedOver' \subseteq PassedOver \cup {upstream[Cut + 1]}
    BY <2>2 DEF PassedOver
  <2> QED
    BY <1>2, <2>3
<1>3. CASE Bump /\ ~Insert
  <2>1. PICK k : \A j \in DOMAIN upstream' :
           \/ j = 1 /\ upstream'[j] = k
           \/ \E i \in DOMAIN upstream :
                 upstream'[j] = upstream[i] /\ (j = i + 1 \/ j = i)
    BY <1>3, BumpParts
  <2>2. ASSUME NEW j \in DOMAIN upstream', j <= Cut, upstream'[j] # k
        PROVE  \E i \in DOMAIN upstream : i <= Cut /\ upstream[i] = upstream'[j]
    <3>1. PICK i \in DOMAIN upstream :
             upstream'[j] = upstream[i] /\ (j = i + 1 \/ j = i)
      BY <2>1, <2>2
    <3>2. i <= Cut
      BY <2>2, <3>1, CountTypes
    <3> QED
      BY <3>1, <3>2
  <2>3. PassedOver' \subseteq PassedOver \cup {k}
    BY <2>2 DEF PassedOver
  <2> QED
    BY <1>3, <2>3
<1> QED
  BY <1>1, <1>2, <1>3 DEF Change

\* A new record may push one back, a moved one as well; a removed one none.
LEMMA ChangeRepeats ==
    ASSUME TypeInv, Known, Change
    PROVE  /\ Delete /\ ~Insert /\ ~Bump => ToRepeat' \subseteq ToRepeat
           /\ Insert \/ Bump => \E k : ToRepeat' \subseteq ToRepeat \cup {k}
<1> USE ChangeFrame
<1>1. CASE Insert
  <2>1. PICK k \in Keys \ (Range(upstream) \cup gone) :
           \A j \in DOMAIN upstream' :
              \/ j = 1 /\ upstream'[j] = k
              \/ \E i \in DOMAIN upstream : j = i + 1 /\ upstream'[j] = upstream[i]
    BY <1>1, InsertParts
  <2>2. k \notin Range(listed)
    BY <2>1 DEF Known
  <2>3. ASSUME NEW j \in DOMAIN upstream', j > Cut, upstream'[j] # k,
               upstream'[j] # upstream[Cut]
        PROVE  \E i \in DOMAIN upstream : i > Cut /\ upstream[i] = upstream'[j]
    <3>1. PICK i \in DOMAIN upstream : j = i + 1 /\ upstream'[j] = upstream[i]
      BY <2>1, <2>3
    <3>2. i > Cut \/ i = Cut
      BY <2>3, <3>1, CountTypes
    <3> QED
      BY <2>3, <3>1, <3>2
  <2>4. ToRepeat' \subseteq ToRepeat \cup {upstream[Cut]}
    BY <2>2, <2>3 DEF ToRepeat
  <2> QED
    BY <1>1, <2>4
<1>2. CASE Delete /\ ~Insert /\ ~Bump
  <2>1. \A j \in DOMAIN upstream' : \E i \in DOMAIN upstream :
           upstream'[j] = upstream[i] /\ (i = j \/ i = j + 1)
    BY <1>2, DeleteParts
  <2>2. ASSUME NEW j \in DOMAIN upstream', j > Cut
        PROVE  \E i \in DOMAIN upstream : i > Cut /\ upstream[i] = upstream'[j]
    <3>1. PICK i \in DOMAIN upstream :
             upstream'[j] = upstream[i] /\ (i = j \/ i = j + 1)
      BY <2>1
    <3>2. i > Cut
      <4>1. CASE i = j
        BY <2>2, <4>1
      <4>2. CASE i = j + 1
        <5>1. upstream' \in Seq(Keys)
          BY <1>2, DeleteParts
        <5>2. j \in Nat
          BY <5>1, LenProperties
        <5> QED
          BY <2>2, <4>2, <5>2, CountTypes
      <4> QED
        BY <3>1, <4>1, <4>2
    <3> QED
      BY <3>1, <3>2
  <2> QED
    BY <1>2, <2>2 DEF ToRepeat
<1>3. CASE Bump
  <2>1. PICK k \in Range(upstream) : \A j \in DOMAIN upstream' :
           \/ j = 1 /\ upstream'[j] = k
           \/ \E i \in DOMAIN upstream :
                 upstream'[j] = upstream[i] /\ (j = i + 1 \/ j = i)
    BY <1>3, BumpParts
  <2>2. ASSUME NEW j \in DOMAIN upstream', j > Cut, upstream'[j] # upstream[Cut]
        PROVE  \E i \in DOMAIN upstream : i > Cut /\ upstream[i] = upstream'[j]
    <3>1. CASE j = 1 /\ upstream'[j] = k
      <4>1. PICK i \in DOMAIN upstream : upstream[i] = k
        BY <2>1 DEF Range
      <4>2. i > Cut
        BY <2>2, <3>1, <4>1, CountTypes
      <4> QED
        BY <3>1, <4>1, <4>2
    <3>2. ASSUME NEW i \in DOMAIN upstream, upstream'[j] = upstream[i],
                 j = i + 1 \/ j = i
          PROVE  i > Cut
      <4>1. i > Cut \/ i = Cut
        BY <2>2, <3>2, CountTypes
      <4> QED
        BY <2>2, <3>2, <4>1
    <3> QED
      BY <2>1, <3>1, <3>2
  <2>3. ToRepeat' \subseteq ToRepeat \cup {upstream[Cut]}
    BY <2>2 DEF ToRepeat
  <2> QED
    BY <1>3, <2>3
<1> QED
  BY <1>1, <1>2, <1>3 DEF Change

LEMMA ChangeShifted ==
    ASSUME TypeInv, Known, Shifted, Change
    PROVE  Shifted'
<1> USE CountTypes, ChangeFrame
<1> DEFINE passed == Cardinality(PassedOver)
           repeat == Cardinality(ToRepeat)
           surplus == Len(listed) - Cardinality(Range(listed))
<1>1. /\ surplus' = surplus /\ surplus \in Int
      /\ passed \in Nat /\ repeat \in Nat
      /\ passed <= Cardinality(gone) + bumps
      /\ surplus + repeat <= Cardinality(Inserted) + bumps
  BY DEF Shifted
<1>2. CASE Insert
  <2>1. passed' <= passed /\ passed' \in Nat
    <3>1. IsFiniteSet(PassedOver) /\ PassedOver' \subseteq PassedOver
      BY <1>2, ChangePasses
    <3> QED
      BY <3>1, FS_Subset, FS_CardinalityType
  <2>2. repeat' <= repeat + 1 /\ repeat' \in Nat
    <3>1. PICK k : ToRepeat' \subseteq ToRepeat \cup {k}
      BY <1>2, ChangeRepeats
    <3> QED
      BY <3>1, OneMore
  <2>3. /\ Cardinality(Inserted') = Cardinality(Inserted) + 1
        /\ gone' = gone /\ bumps' = bumps
    BY <1>2, InsertedBy DEF Insert
  <2> HIDE DEF passed, repeat, surplus
  <2>4. passed' <= Cardinality(gone') + bumps'
    BY <1>1, <2>1, <2>3
  <2>5. surplus' + repeat' <= Cardinality(Inserted') + bumps'
    BY <1>1, <2>2, <2>3
  <2> QED
    BY <2>4, <2>5 DEF Shifted, passed, repeat, surplus
<1>3. CASE Delete /\ ~Insert /\ ~Bump
  <2>1. passed' <= passed + 1 /\ passed' \in Nat
    <3>1. PICK k : PassedOver' \subseteq PassedOver \cup {k}
      BY <1>3, ChangePasses
    <3> QED
      BY <3>1, OneMore
  <2>2. repeat' <= repeat /\ repeat' \in Nat
    <3>1. IsFiniteSet(ToRepeat) /\ ToRepeat' \subseteq ToRepeat
      BY <1>3, ChangeRepeats
    <3> QED
      BY <3>1, FS_Subset, FS_CardinalityType
  <2>3. /\ Cardinality(gone') = Cardinality(gone) + 1
        /\ Inserted' = Inserted /\ bumps' = bumps
    <3>1. PICK k \in Range(upstream) : gone' = gone \cup {k}
      BY <1>3, DeleteParts
    <3>2. k \notin gone
      BY DEF TypeInv, ApiTypeOK
    <3> QED
      BY <1>3, <3>1, <3>2, InsertedBy, FS_AddElement DEF Delete
  <2> HIDE DEF passed, repeat, surplus
  <2>4. passed' <= Cardinality(gone') + bumps'
    BY <1>1, <2>1, <2>3
  <2>5. surplus' + repeat' <= Cardinality(Inserted') + bumps'
    BY <1>1, <2>2, <2>3
  <2> QED
    BY <2>4, <2>5 DEF Shifted, passed, repeat, surplus
<1>4. CASE Bump /\ ~Insert
  <2>1. passed' <= passed + 1 /\ passed' \in Nat
    <3>1. PICK k : PassedOver' \subseteq PassedOver \cup {k}
      BY <1>4, ChangePasses
    <3> QED
      BY <3>1, OneMore
  <2>2. repeat' <= repeat + 1 /\ repeat' \in Nat
    <3>1. PICK k : ToRepeat' \subseteq ToRepeat \cup {k}
      BY <1>4, ChangeRepeats
    <3> QED
      BY <3>1, OneMore
  <2>3. gone' = gone /\ Inserted' = Inserted /\ bumps' = bumps + 1
    BY <1>4, InsertedBy DEF Bump
  <2> HIDE DEF passed, repeat, surplus
  <2>4. passed' <= Cardinality(gone') + bumps'
    BY <1>1, <2>1, <2>3
  <2>5. surplus' + repeat' <= Cardinality(Inserted') + bumps'
    BY <1>1, <2>2, <2>3
  <2> QED
    BY <2>4, <2>5 DEF Shifted, passed, repeat, surplus
<1> QED
  BY <1>2, <1>3, <1>4 DEF Change

\* Reading on passes over nothing.
LEMMA ArrivesPasses ==
    ASSUME TypeInv, Arrives, UNCHANGED list
    PROVE  PassedOver' \subseteq PassedOver
<1>1. /\ upstream' = upstream /\ Cut' = Cut + PageSize
      /\ DOMAIN received' = DOMAIN received \cup {Len(received) + 1}
      /\ \A i \in DOMAIN received : received'[i] = received[i]
      /\ received'[Len(received) + 1] = PageRecords
  BY CutMoves DEF list
<1>2. ASSUME NEW i \in DOMAIN upstream, i <= Cut + PageSize,
             upstream[i] \notin Range(PageRecords)
      PROVE  i <= Cut
  <2>1. DOMAIN upstream \subseteq Nat
    BY LenProperties DEF TypeInv
  <2>2. ~(Cut < i)
    BY <1>2, PageIs
  <2> QED
    BY <2>1, <2>2, CutType
<1> QED
  BY <1>1, <1>2 DEF PassedOver

\* What a page repeats had been ahead of the source.
LEMMA GoodPageShifted ==
    ASSUME TypeInv, Shifted, GoodPage, UNCHANGED list
    PROVE  Shifted'
<1> DEFINE page == Range(Parsed(PageRecords))
           again == page \cap Range(listed)
<1>1. /\ Arrives /\ upstream' = upstream /\ gone' = gone /\ bumps' = bumps
      /\ Inserted' = Inserted
  BY DEF GoodPage, list, Inserted
<1>2. /\ Cut' = Cut + PageSize /\ Cut \in Nat /\ PageSize \in Nat \ {0}
      /\ DOMAIN upstream \subseteq Nat /\ IsInjective(upstream)
  BY <1>1, CutMoves, CutType, LenProperties DEF TypeInv, ApiTypeOK
<1>3. ASSUME NEW k \in page
      PROVE  \E i \in DOMAIN upstream :
                upstream[i] = k /\ Cut < i /\ i <= Cut + PageSize
  BY <1>3, GoodPageParts, PageIs
<1>4. again \subseteq ToRepeat
  <2>1. ASSUME NEW k \in page PROVE \E i \in DOMAIN upstream : i > Cut /\ upstream[i] = k
    BY <1>2, <1>3
  <2> QED
    BY <2>1 DEF ToRepeat
<1>5. ASSUME NEW k \in ToRepeat' PROVE k \in ToRepeat /\ k \notin page
  <2>1. PICK i \in DOMAIN upstream : i > Cut + PageSize /\ upstream[i] = k
    BY <1>1, <1>2, <1>5 DEF ToRepeat
  <2>2. k \notin page
    <3>1. SUFFICES ASSUME k \in page PROVE FALSE
      OBVIOUS
    <3>2. PICK j \in DOMAIN upstream : upstream[j] = k /\ j <= Cut + PageSize
      BY <1>3, <3>1
    <3>3. i = j
      BY <1>2, <2>1, <3>2 DEF IsInjective
    <3> QED
      BY <1>2, <2>1, <3>2, <3>3
  <2>3. k \in Range(listed)
    BY <1>5, <2>2, GoodPageParts DEF ToRepeat
  <2>4. i > Cut
    BY <1>2, <2>1
  <2> QED
    BY <2>1, <2>2, <2>3, <2>4 DEF ToRepeat
<1>6. ToRepeat' \cup again \subseteq ToRepeat /\ ToRepeat' \cap again = {}
  BY <1>4, <1>5
<1>7. /\ Cardinality(ToRepeat') + Cardinality(again) <= Cardinality(ToRepeat)
      /\ {Cardinality(ToRepeat'), Cardinality(again), Cardinality(ToRepeat)}
            \subseteq Nat
  BY <1>6, CountTypes, TwoWithin
<1>8. /\ Len(listed') = Len(listed) + Cardinality(page)
      /\ Range(listed') = Range(listed) \cup page
      /\ IsFiniteSet(page) /\ Len(listed) \in Nat
  <2>1. Len(listed \o Parsed(PageRecords)) = Len(listed) + Len(Parsed(PageRecords))
    BY GoodPageParts, ConcatProperties DEF TypeInv
  <2> QED
    BY <2>1, GoodPageParts, CountTypes
<1>9. /\ Cardinality(Range(listed) \cup page) =
            Cardinality(Range(listed)) + Cardinality(page) - Cardinality(Range(listed) \cap page)
      /\ Cardinality(page) \in Nat /\ Cardinality(Range(listed)) \in Nat
  BY <1>8, CountTypes, FS_Union, FS_CardinalityType
<1>10. Range(listed) \cap page = again
  OBVIOUS
<1> HIDE DEF page, again
<1>11. /\ Len(listed') - Cardinality(Range(listed')) =
             Len(listed) - Cardinality(Range(listed)) + Cardinality(again)
       /\ Len(listed) - Cardinality(Range(listed)) \in Int
  <2>1. Cardinality(Range(listed')) =
            Cardinality(Range(listed)) + Cardinality(page) - Cardinality(again)
    BY <1>8, <1>9, <1>10
  <2>2. Cardinality(again) \in Nat
    BY <1>7
  <2> QED
    BY <1>8, <1>9, <2>1, <2>2
<1>12. Len(listed') - Cardinality(Range(listed')) + Cardinality(ToRepeat')
           <= Len(listed) - Cardinality(Range(listed)) + Cardinality(ToRepeat)
  BY <1>7, <1>11
<1>13. Cardinality(PassedOver') <= Cardinality(PassedOver)
  BY <1>1, ArrivesPasses, CountTypes, FS_Subset DEF GoodPage
<1>14. /\ Cardinality(PassedOver') \in Nat /\ Len(listed') - Cardinality(Range(listed')) \in Int
  <2>1. IsFiniteSet(PassedOver')
    BY <1>1, ArrivesPasses, CountTypes, FS_Subset DEF GoodPage
  <2> QED
    BY <2>1, <1>7, <1>11, FS_CardinalityType
<1>15. Cardinality(PassedOver') <= Cardinality(gone') + bumps'
  BY <1>1, <1>13, <1>14, CountTypes DEF Shifted
<1>16. Len(listed') - Cardinality(Range(listed')) + Cardinality(ToRepeat')
           <= Cardinality(Inserted') + bumps'
  BY <1>1, <1>7, <1>12, <1>14, CountTypes DEF Shifted
<1> QED
  BY <1>15, <1>16 DEF Shifted

\* A page that is not handed over repeats nothing.
LEMMA NoPageShifted ==
    ASSUME TypeInv, Shifted, Arrives, UNCHANGED list, listed' = listed
    PROVE  Shifted'
<1>1. /\ upstream' = upstream /\ gone' = gone /\ bumps' = bumps
      /\ Inserted' = Inserted
  BY DEF list, Inserted
<1>2. ToRepeat' \subseteq ToRepeat
  <2>1. ASSUME NEW i \in DOMAIN upstream, i > Cut' PROVE i > Cut
    <3>1. DOMAIN upstream \subseteq Nat
      BY LenProperties DEF TypeInv
    <3> QED
      BY <2>1, <3>1, CutMoves, CutType
  <2> QED
    BY <1>1, <2>1 DEF ToRepeat
<1>3. Cardinality(ToRepeat') <= Cardinality(ToRepeat) /\ Cardinality(ToRepeat') \in Nat
  BY <1>2, CountTypes, FS_Subset, FS_CardinalityType
<1>4. Cardinality(PassedOver') <= Cardinality(PassedOver) /\ Cardinality(PassedOver') \in Nat
  BY ArrivesPasses, CountTypes, FS_Subset, FS_CardinalityType
<1>5. Cardinality(PassedOver') <= Cardinality(gone') + bumps'
  BY <1>1, <1>4, CountTypes DEF Shifted
<1>6. Len(listed') - Cardinality(Range(listed')) + Cardinality(ToRepeat')
          <= Cardinality(Inserted') + bumps'
  BY <1>1, <1>3, CountTypes DEF Shifted
<1> QED
  BY <1>5, <1>6 DEF Shifted

LEMMA NextShifted ==
    ASSUME TypeInv, Known, Shifted, [Next]_vars
    PROVE  Shifted'
<1>1. CASE Change
  BY <1>1, ChangeShifted
<1>2. CASE ShortPage \/ FullPage
  BY <1>2, GoodPageShifted DEF ShortPage, FullPage, EndSource, list
<1>3. CASE EmptyPage \/ PageRaises
  BY <1>3, NoPageShifted DEF EmptyPage, PageRaises, EndSource, list
<1>4. CASE \/ Retry \/ SleepsForever \/ RequestFails \/ Post \/ BackoffEnds \/ Tick
           \/ UNCHANGED vars
  <2>1. UNCHANGED list /\ received' = received /\ listed' = listed
    BY <1>4
    DEF Retry, SleepsForever, RequestFails, EndSource, Post, BackoffEnds, Tick, vars,
        list, request, progress
  <2> QED
    BY <2>1 DEF Shifted, PassedOver, ToRepeat, Inserted, Cut, list
<1> QED
  BY <1>1, <1>2, <1>3, <1>4 DEF Next, Answer, Terminated

-----------------------------------------------------------------------------
(* Every step hands over a page whole *)

Raises(page) == \E k \in Range(page) : Names(k) = Malformed
Raised == \E i \in 1..Len(received) : Raises(received[i])
HandedOf(pages) == [i \in 1..Len(pages) |-> Parsed(pages[i])]
Whole == IF Raised THEN Front(received) ELSE received

LEMMA PagesWholeIs ==
    PagesWhole <=> /\ Raised => outcome = "error"
                   /\ listed = FlattenSeq(HandedOf(Whole))
BY DEF PagesWhole, Raised, Raises, HandedOf, Whole

LEMMA HandedAppend ==
    ASSUME NEW pages \in Seq(Seq(Keys)), NEW page \in Seq(Keys)
    PROVE  FlattenSeq(HandedOf(Append(pages, page))) =
               FlattenSeq(HandedOf(pages)) \o Parsed(page)
<1> DEFINE more == Append(pages, page)
           h == HandedOf(pages)
           a == Append(h, Parsed(page))
<1>1. /\ more \in Seq(Seq(Keys)) /\ Len(more) = Len(pages) + 1 /\ Len(pages) \in Nat
      /\ \A i \in 1..Len(pages) : more[i] = pages[i]
      /\ more[Len(pages) + 1] = page
  BY AppendProperties, LenProperties
<1>2. Parsed(page) \in Seq(Keys)
  BY ParsedType
<1>3. h \in Seq(Seq(Keys)) /\ Len(h) = Len(pages)
  <2>1. \A i \in 1..Len(pages) : Parsed(pages[i]) \in Seq(Keys)
    BY ParsedType, ElementOfSeq
  <2> QED
    BY <1>1, <2>1, IsASeq DEF HandedOf
<1>4. /\ a \in Seq(Seq(Keys)) /\ Len(a) = Len(pages) + 1
      /\ \A i \in 1..Len(pages) : a[i] = h[i]
      /\ a[Len(pages) + 1] = Parsed(page)
  BY <1>2, <1>3, AppendProperties
<1> HIDE DEF more, a
<1>5. ASSUME NEW i \in 1..(Len(pages) + 1) PROVE Parsed(more[i]) = a[i]
  <2>1. CASE i = Len(pages) + 1
    BY <1>1, <1>4, <2>1
  <2>2. CASE i # Len(pages) + 1
    <3>1. i \in 1..Len(pages)
      BY <1>1, <2>2
    <3> QED
      BY <1>1, <1>4, <3>1 DEF HandedOf
  <2> QED
    BY <2>1, <2>2
<1>6. HandedOf(more) = a
  <2>1. DOMAIN a = 1..(Len(pages) + 1) /\ a = [i \in DOMAIN a |-> a[i]]
    BY <1>4, LenProperties
  <2> QED
    BY <1>1, <1>5, <2>1 DEF HandedOf
<1>7. FlattenSeq(a) = FlattenSeq(h) \o Parsed(page)
  <2> HIDE DEF h
  <2> QED
    BY <1>2, <1>3, FlattenAppend DEF a
<1> QED
  BY <1>6, <1>7 DEF more

LEMMA InitWhole == Init => PagesWhole
<1> SUFFICES ASSUME Init PROVE PagesWhole
  OBVIOUS
<1>1. ~Raised /\ received = <<>> /\ Len(received) = 0
  BY DEF Init, Raised
<1>2. HandedOf(<<>>) = <<>>
  BY DEF HandedOf
<1>3. FlattenSeq(<<>>) = <<>>
  BY DEF FlattenSeq
<1> QED
  BY <1>1, <1>2, <1>3, PagesWholeIs DEF Whole, Init

\* Before a page arrives no page has been rejected; after it that is told by
\* the page.
LEMMA RaisedNext ==
    ASSUME TypeInv, PagesWhole, Arrives
    PROVE  /\ ~Raised /\ outcome = "running"
           /\ listed = FlattenSeq(HandedOf(received))
           /\ Raised' <=> Raises(PageRecords)
<1>1. outcome = "running"
  BY DEF Arrives, TypeInv, ApiTypeOK
<1>2. ~Raised
  BY <1>1, PagesWholeIs
<1>3. /\ received \in Seq(Seq(Keys)) /\ PageRecords \in Seq(Keys)
      /\ received' = Append(received, PageRecords)
  BY PageIs DEF TypeInv, Arrives
<1>4. /\ Len(received') = Len(received) + 1 /\ Len(received) \in Nat
      /\ \A i \in 1..Len(received) : received'[i] = received[i]
      /\ received'[Len(received) + 1] = PageRecords
  BY <1>3, AppendProperties, LenProperties
<1>5. Raised' <=> Raises(PageRecords)
  <2>1. ASSUME NEW i \in 1..Len(received')
        PROVE  i \in 1..Len(received) \/ i = Len(received) + 1
    BY <1>4
  <2>2. Len(received) + 1 \in 1..Len(received')
    BY <1>4
  <2>3. Raises(PageRecords) => Raised'
    BY <1>4, <2>2 DEF Raised, Raises
  <2>4. Raised' => Raises(PageRecords)
    <3>1. SUFFICES ASSUME NEW i \in 1..Len(received'), NEW k \in Range(received'[i]),
                          Names(k) = Malformed
                   PROVE  Raises(PageRecords)
      BY DEF Raised, Raises
    <3>2. CASE i \in 1..Len(received)
      BY <1>2, <1>4, <3>1, <3>2 DEF Raised, Raises
    <3>3. CASE i = Len(received) + 1
      BY <1>4, <3>1, <3>3 DEF Raises
    <3> QED
      BY <2>1, <3>2, <3>3
  <2> QED
    BY <2>3, <2>4
<1> QED
  BY <1>1, <1>2, <1>5, PagesWholeIs DEF Whole

LEMMA NextWhole ==
    ASSUME TypeInv, PagesWhole, [Next]_vars
    PROVE  PagesWhole'
<1>1. (PagesWhole)' <=> /\ Raised' => outcome' = "error"
                        /\ listed' = FlattenSeq(HandedOf(Whole'))
  BY DEF PagesWhole, Raised, Raises, HandedOf, Whole
<1>2. CASE PageRaises
  <2>1. Arrives /\ Raises(PageRecords) /\ outcome' = "error" /\ listed' = listed
    BY <1>2 DEF PageRaises, EndSource, Raises
  <2>2. Whole' = Front(received')
    BY <2>1, RaisedNext DEF Whole
  <2>3. Front(received') = received
    BY <2>1, PageIs, FrontOfAppend DEF Arrives, TypeInv
  <2> QED
    BY <1>1, <2>1, <2>2, <2>3, RaisedNext
<1>3. CASE EmptyPage
  <2>1. Arrives /\ PageRecords = <<>> /\ listed' = listed
    BY <1>3 DEF EmptyPage
  <2>2. ~Raises(PageRecords)
    BY <2>1 DEF Raises, Range
  <2>3. Whole' = Append(received, PageRecords)
    BY <2>1, <2>2, RaisedNext DEF Whole, Arrives
  <2>4. FlattenSeq(HandedOf(Whole')) = listed \o Parsed(PageRecords)
    BY <2>1, <2>3, RaisedNext, HandedAppend, PageIs DEF TypeInv
  <2>5. Parsed(PageRecords) = <<>>
    <3>1. DOMAIN Parts(<<>>) = {} /\ Parts(<<>>) = <<>>
      BY DEF Parts
    <3> QED
      BY <2>1, <3>1, ParsedIs DEF FlattenSeq
  <2>6. listed \o <<>> = listed
    BY ConcatEmptySeq DEF TypeInv
  <2> QED
    BY <1>1, <2>1, <2>2, <2>4, <2>5, <2>6, RaisedNext
<1>4. CASE ShortPage \/ FullPage
  <2>1. /\ Arrives /\ ~Raises(PageRecords)
        /\ listed' = listed \o Parsed(PageRecords)
    BY <1>4 DEF ShortPage, FullPage, GoodPage, Raises
  <2>2. Whole' = Append(received, PageRecords)
    BY <2>1, RaisedNext DEF Whole, Arrives
  <2>3. FlattenSeq(HandedOf(Whole')) = listed \o Parsed(PageRecords)
    BY <2>1, <2>2, RaisedNext, HandedAppend, PageIs DEF TypeInv
  <2> QED
    BY <1>1, <2>1, <2>3, RaisedNext
<1>5. CASE RequestFails
  <2>1. received' = received /\ listed' = listed /\ outcome' = "error"
    BY <1>5 DEF RequestFails, EndSource
  <2> QED
    BY <1>1, <2>1, PagesWholeIs DEF Whole, Raised
<1>6. CASE \/ Change \/ Retry \/ SleepsForever \/ Post \/ BackoffEnds \/ Tick
           \/ UNCHANGED vars
  <2>1. UNCHANGED progress
    BY <1>6
    DEF Change, Insert, Delete, Bump, Changeable, Retry, SleepsForever, Post,
        BackoffEnds, Tick, vars, progress
  <2> QED
    BY <2>1 DEF progress, PagesWhole
<1> QED
  BY <1>2, <1>3, <1>4, <1>5, <1>6 DEF Next, Answer, Terminated

-----------------------------------------------------------------------------
(* Every step keeps the pauses *)

LEMMA NextPaced ==
    ASSUME TypeInv, Paced, [Next]_vars
    PROVE  Paced'
<1> USE ExperienceApiAssumption DEF TypeInv, ApiTypeOK
<1>1. CASE Retry
  <2>1. PICK failure \in Failure, header \in Headers :
            /\ sleep' \in RequestDelays(failure, header, attempt, Jitter)
            /\ quiet' = Quieted(failure, header)
    BY <1>1 DEF Retry
  <2>2. quiet = 0 /\ pc' = "backoff"
    BY <1>1 DEF Retry, Paced
  <2>3. attempt \in Nat
    BY DEF MaxRequestAttempts
  <2>4. quiet' <= sleep'
    BY <2>1, <2>2, <2>3, DelayType
  <2> QED
    BY <2>2, <2>4 DEF Paced
<1>2. CASE BackoffEnds
  <2>1. /\ quiet' = 0 /\ age' = age /\ pc' = "pace"
        /\ EnterPacer(attempt + 1)
    BY <1>2 DEF BackoffEnds, EnterPacer, Paced
  <2> QED
    BY <2>1, PacerPause DEF Paced
<1>3. CASE FullPage
  <2>1. CASE EndSource("configured_page_limit")
    BY <2>1 DEF EndSource, Paced
  <2>2. CASE EnterPacer(1) /\ UNCHANGED <<list, age, outcome>>
    <3>1. quiet' = 0 /\ pc' = "pace"
      BY <1>3, <2>2 DEF FullPage, GoodPage, Arrives, EnterPacer, Paced
    <3> QED
      BY <2>2, <3>1, PacerPause DEF Paced
  <2> QED
    BY <1>3, <2>1, <2>2 DEF FullPage
<1>4. CASE Tick
  <2>1. Forgotten \in Nat /\ Interval <= Forgotten
    BY DEF Forgotten
  <2>2. /\ age \in Nat /\ sleep \in Nat /\ quiet \in Nat /\ pc' = pc
        /\ age' = IF age + 1 < Forgotten THEN age + 1 ELSE Forgotten
        /\ sleep' = IF sleep - 1 > 0 THEN sleep - 1 ELSE 0
        /\ quiet' = IF quiet - 1 > 0 THEN quiet - 1 ELSE 0
    BY <1>4, <2>1 DEF Tick, Least, Greatest
  <2>3. age + sleep >= Interval => age' + sleep' >= Interval
    BY <2>1, <2>2
  <2>4. /\ quiet <= sleep => quiet' <= sleep'
        /\ quiet = 0 => quiet' = 0
    BY <2>2
  <2> QED
    BY <2>2, <2>3, <2>4 DEF Paced
<1>5. CASE Post \/ SleepsForever
  BY <1>5 DEF Post, SleepsForever, Paced
<1>6. CASE RequestFails \/ EmptyPage \/ PageRaises \/ ShortPage
  BY <1>6 DEF RequestFails, EmptyPage, PageRaises, ShortPage, EndSource, Paced
<1>7. CASE Change \/ UNCHANGED vars
  <2>1. UNCHANGED request
    BY <1>7 DEF Change, Insert, Delete, Bump, Changeable, vars
  <2> QED
    BY <2>1 DEF request, Paced
<1> QED
  BY <1>1, <1>2, <1>3, <1>4, <1>5, <1>6, <1>7 DEF Next, Answer, Terminated

LEMMA ApiInit == Init => ApiInv
<1>1. Init => Paced
  BY ExperienceApiAssumption DEF Init, Paced, Forgotten
<1> QED
  BY <1>1, TypeInit, InitKnown, InitShifted, InitWhole DEF ApiInv

LEMMA ApiNext == ApiInv /\ [Next]_vars => ApiInv'
BY NextTypes, NextKnown, NextShifted, NextWhole, NextPaced DEF ApiInv

\* ApiInv holds throughout.
LEMMA ApiHolds == Spec => []ApiInv
BY ApiInit, ApiNext, PTL DEF Spec

-----------------------------------------------------------------------------
(* The theorems *)

\* The variables of the source keep their types: it asks for at most
\* EXPERIENCE_API_MAX_PAGES pages, for each at most three times.
THEOREM ApiTypes == Spec => []ApiTypeOK
BY ApiHolds, PTL DEF ApiInv, TypeInv

\* Pages are handed over whole, once and in the order of the list.
THEOREM PagesHandedWhole == Spec => []PagesWhole
BY ApiHolds, PTL DEF ApiInv

\* Whatever the list, the size of its pages and the changes meanwhile, an
\* exhausted source has missed and repeated no more than the list changed.
THEOREM MissesAreBounded == Spec => []MissesBounded
<1>1. ASSUME ApiInv PROVE MissesBounded
  <2>1. TypeInv /\ Known /\ Shifted
    BY <1>1 DEF ApiInv
  <2>2. ASSUME outcome \in {"empty_page", "short_page"}
        PROVE  Cardinality(Missed) <= Cardinality(gone) + bumps
    <3>1. Len(upstream) <= Cut /\ Cut \in Nat /\ Len(upstream) \in Nat
          /\ DOMAIN upstream = 1..Len(upstream)
      BY <2>1, <2>2, CutType, LenProperties DEF Known, TypeInv
    <3>2. \A i \in DOMAIN upstream : i <= Cut
      BY <3>1
    <3>3. Missed \subseteq PassedOver
      BY <2>1, <2>2, <3>2 DEF Missed, PassedOver, Known, Range
    <3>4. /\ Cardinality(Missed) <= Cardinality(PassedOver)
          /\ Cardinality(Missed) \in Nat
      BY <2>1, <3>3, CountTypes, FS_Subset, FS_CardinalityType
    <3> QED
      BY <2>1, <3>4, CountTypes DEF Shifted
  <2>3. Len(listed) - Cardinality(Range(listed)) <= Cardinality(Inserted) + bumps
    BY <2>1, CountTypes DEF Shifted
  <2> QED
    BY <2>2, <2>3 DEF MissesBounded
<1> QED
  BY <1>1, ApiHolds, PTL

\* No request starts in the silence that a 429 asked for.
THEOREM ApiSilenceKept == Spec => RetryAfterKept
<1>1. ApiInv /\ [Next]_vars => [Post => quiet = 0]_vars
  BY DEF ApiInv, Paced, Post
<1> QED
  BY <1>1, ApiHolds, PTL DEF Spec, RetryAfterKept

\* The source is a polite client of the site: every step is one of
\* PoliteClient or invisible to the site.
THEOREM ApiIsPolite == Spec => BehavesPolitely
<1>1. Init => Polite!Init
  BY DEF Init, Polite!Init
<1>2. ApiInv /\ [Next]_vars => [Polite!Next]_(Polite!vars)
  <2> SUFFICES ASSUME ApiInv, [Next]_vars
               PROVE  [Polite!Next]_(Polite!vars)
    OBVIOUS
  <2> USE ExperienceApiAssumption DEF ApiInv, TypeInv, ApiTypeOK, MaxRequestAttempts, Polite!vars
  <2>1. CASE Post
    <3>1. age >= Interval /\ attempt - 1 < 3
      BY <2>1 DEF Post, Paced
    <3>2. Polite!Request
      BY <2>1, <3>1 DEF Post, Polite!Request
    <3> QED
      BY <3>2 DEF Polite!Next
  <2>2. CASE BackoffEnds
    BY <2>2 DEF BackoffEnds, EnterPacer
  <2>3. CASE Retry \/ SleepsForever
    BY <2>3 DEF Retry, SleepsForever
  <2>4. CASE RequestFails \/ EmptyPage \/ PageRaises \/ ShortPage
    <3>1. /\ pc = "asked" /\ pc' = "done" /\ age' = age
          /\ attempt \in Nat \ {0}
      BY <2>4
      DEF RequestFails, EmptyPage, PageRaises, ShortPage, GoodPage, Arrives, EndSource
    <3>2. Polite!Finish
      BY <3>1 DEF Polite!Finish
    <3> QED
      BY <3>2 DEF Polite!Next
  <2>5. CASE FullPage
    <3>1. /\ pc = "asked" /\ age' = age /\ attempt \in Nat \ {0}
          /\ pc' = "done" \/ (pc' = "pace" /\ attempt' = 1)
      BY <2>5 DEF FullPage, GoodPage, Arrives, EndSource, EnterPacer
    <3>2. Polite!Finish
      BY <3>1 DEF Polite!Finish
    <3> QED
      BY <3>2 DEF Polite!Next
  <2>6. CASE Tick
    <3>1. Forgotten \in Nat /\ age \in Nat /\ age <= Forgotten
      BY DEF Forgotten
    <3>2. pc' = pc /\ attempt' = attempt /\ age' = Least(age + 1, Forgotten)
      BY <2>6 DEF Tick
    <3>3. CASE age = Forgotten
      BY <3>1, <3>2, <3>3 DEF Least
    <3>4. CASE age < Forgotten
      <4>1. age' = age + 1
        BY <3>1, <3>2, <3>4 DEF Least
      <4>2. Polite!Tick
        BY <3>2, <3>4, <4>1 DEF Polite!Tick
      <4> QED
        BY <4>2 DEF Polite!Next
    <3> QED
      BY <3>1, <3>3, <3>4
  <2>7. CASE Change \/ UNCHANGED vars
    BY <2>7 DEF Change, Insert, Delete, Bump, Changeable, request, vars
  <2> QED
    BY <2>1, <2>2, <2>3, <2>4, <2>5, <2>6, <2>7 DEF Next, Answer, Terminated
<1> QED
  BY <1>1, <1>2, ApiHolds, PTL DEF Spec, BehavesPolitely, Polite!Spec
=============================================================================
