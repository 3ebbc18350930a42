--------------------------- MODULE BatchWriteProofs ---------------------------
(***************************************************************************)
(* Proofs, for every set of jobs, pages, sources and batches, that the two *)
(* tables of the discovery writer agree, that their rows tell what was     *)
(* committed, and that no page becomes pending without a message.          *)
(***************************************************************************)
EXTENDS BatchWrite, DataLemmas

-----------------------------------------------------------------------------
(* The invariant *)

Observation == [item : Item, run : Jobs]

Stats == [observations : Nat, pages_inserted : Nat, pages_updated : Nat,
          batches_written : Nat]

\* The pages that have a row.
Present == {p \in Pages : pages[p].status # "absent"}

\* The observations that a commit of job j adds.
Tagged(b, j) == [i \in DOMAIN b |-> [item |-> b[i], run |-> j]]

\* The observations of a sequence that are about a lineage, and their items.
NotesOf(c, key) == {i \in DOMAIN c : Lineage(c[i].item) = key}

ToldOf(c, key) == {c[i].item : i \in NotesOf(c, key)}

\* The row of a lineage tells the first, or the last, of them.
TellsFirst(r, c, key) ==
    LET notes == NotesOf(c, key)
    IN  /\ notes # {}
        /\ r.first_seen_page = c[Min(notes)].item.source_page
        /\ r.first_run = c[Min(notes)].run

TellsLast(r, c, key) ==
    LET notes == NotesOf(c, key)
    IN  /\ notes # {}
        /\ r.last_seen_page = c[Max(notes)].item.source_page
        /\ r.last_run = c[Max(notes)].run
        /\ r.source_modified_at = Latest(ToldOf(c, key))

Items == [i \in DOMAIN committed |-> committed[i].item]

TypeInv ==
    /\ BatchTypeOK
    /\ batch \in [Jobs -> Batches \cup {<<>>}]
    /\ snapshot = [j \in Jobs |-> snapshot[j]]
    /\ stats \in [Jobs -> Stats]
    /\ committed \in Seq(Observation)

\* What the session of j read is of its batch, and what it found is still
\* there: rows are never deleted.
ReadOf(j) ==
    /\ batch[j] \in Batches
    /\ snapshot[j].pages \in [PagesOf(batch[j]) -> Row]
    /\ \A p \in PagesOf(batch[j]) :
          IF snapshot[j].pages[p].status = "absent"
          THEN snapshot[j].pages[p] = AbsentRow
          ELSE p \in Present
    /\ DOMAIN snapshot[j].sources \subseteq DOMAIN sources \cap LineagesOf(batch[j])
    /\ \A key \in DOMAIN snapshot[j].sources : snapshot[j].sources[key] \in LineageRow

SessionsRead == \A j \in Jobs : pc[j] = "writing" => ReadOf(j)

\* An absent row has no columns, and nothing was committed of a lineage that
\* has no row.
Nothing ==
    /\ \A p \in Pages \ Present : pages[p] = AbsentRow
    /\ \A i \in DOMAIN committed : Lineage(committed[i].item) \in DOMAIN sources

RowsTell ==
    /\ \A key \in DOMAIN sources :
          /\ TellsFirst(sources[key], committed, key)
          /\ key \notin raced => TellsLast(sources[key], committed, key)
    /\ \A p \in {q \in Pages : <<q>> \notin raced} :
          pages[p].source_modified_at = Latest(OfPage(Items, p))

BatchInv ==
    /\ TypeInv
    /\ SessionsRead
    /\ Nothing
    /\ IsFiniteSet(Present)
    /\ TablesAgree
    /\ RowsTell

-----------------------------------------------------------------------------
(* The latest edit time of a set of items *)

LEMMA LatestIs ==
    ASSUME NEW X \in SUBSET Item, IsFiniteSet(X)
    PROVE  /\ Latest(X) \in Stamp
           /\ \A item \in X : item.source_modified_at <= Latest(X)
           /\ \/ Latest(X) = None
              \/ \E item \in X : item.source_modified_at = Latest(X)
<1> DEFINE times == {item.source_modified_at : item \in X}
           S == {None} \cup times
<1>1. S \subseteq Stamp /\ Stamp \subseteq Int /\ \A n \in Stamp : n >= None
  <2>1. \A item \in X : item.source_modified_at \in Times \cup {None}
    BY DEF Item
  <2>2. \A item \in X : item.source_modified_at \in Stamp
    BY <2>1, BatchWriteAssumption DEF Stamp
  <2>3. S \subseteq Stamp
    BY <2>2 DEF Stamp
  <2>4. Stamp \subseteq Int /\ \A n \in Stamp : n >= None
    BY DEF Stamp, None
  <2> QED
    BY <2>3, <2>4
<1>2. IsFiniteSet(S)
  <2> DEFINE f == [item \in X |-> item.source_modified_at]
  <2>1. {f[item] : item \in X} = times
    OBVIOUS
  <2>2. IsFiniteSet({f[item] : item \in X})
    BY ImageFinite
  <2> QED
    BY <2>1, <2>2, FS_AddElement
<1>3. Max(S) \in S /\ \A n \in S : Max(S) >= n
  BY <1>1, <1>2, MaxMinOfFinite
<1>4. Latest(X) = Max(S)
  BY DEF Latest
<1>5. \A item \in X : item.source_modified_at <= Latest(X)
  <2>1. ASSUME NEW item \in X PROVE item.source_modified_at <= Latest(X)
    <3>1. item.source_modified_at \in S
      OBVIOUS
    <3> HIDE DEF S
    <3> QED
      BY <1>1, <1>3, <1>4, <3>1
  <2> QED
    BY <2>1
<1> QED
  BY <1>1, <1>3, <1>4, <1>5

LEMMA LatestOfBoth ==
    ASSUME NEW X \in SUBSET Item, NEW Y \in SUBSET Item,
           IsFiniteSet(X), IsFiniteSet(Y)
    PROVE  Latest(X \cup Y) = Later(Latest(X), Latest(Y))
<1>1. Stamp \subseteq Int /\ \A n \in Stamp : n >= None
  BY DEF Stamp, None
<1>2. IsFiniteSet(X \cup Y)
  BY FS_Union
<1> DEFINE a == Latest(X)
           b == Latest(Y)
           c == Latest(X \cup Y)
<1>3. /\ a \in Stamp /\ \A item \in X : item.source_modified_at <= a
      /\ a = None \/ \E item \in X : item.source_modified_at = a
  BY LatestIs
<1>4. /\ b \in Stamp /\ \A item \in Y : item.source_modified_at <= b
      /\ b = None \/ \E item \in Y : item.source_modified_at = b
  BY LatestIs
<1>5. /\ c \in Stamp /\ \A item \in X \cup Y : item.source_modified_at <= c
      /\ c = None \/ \E item \in X \cup Y : item.source_modified_at = c
  BY <1>2, LatestIs
<1> HIDE DEF a, b, c
<1>6. a <= c /\ b <= c /\ (c <= a \/ c <= b)
  BY <1>1, <1>3, <1>4, <1>5
<1>7. c = Later(a, b)
  BY <1>1, <1>3, <1>4, <1>5, <1>6 DEF Later
<1> QED
  BY <1>7 DEF a, b, c

-----------------------------------------------------------------------------
(* Batches one after the other *)

LEMMA BatchParts ==
    ASSUME NEW s \in Seq(Item)
    PROVE  /\ Range(s) \subseteq Item /\ IsFiniteSet(Range(s))
           /\ Len(s) \in Nat /\ DOMAIN s = 1..Len(s)
           /\ \A i \in DOMAIN s : s[i] \in Item /\ s[i] \in Range(s)
           /\ \A p \in Pages : OfPage(s, p) \in SUBSET Item /\ IsFiniteSet(OfPage(s, p))
<1>1. Len(s) \in Nat /\ DOMAIN s = 1..Len(s) /\ \A i \in DOMAIN s : s[i] \in Item
  BY LenProperties, ElementOfSeq
<1>2. Range(s) \subseteq Item /\ \A i \in DOMAIN s : s[i] \in Range(s)
  BY <1>1 DEF Range
<1>3. IsFiniteSet(Range(s))
  BY RangeFinite
<1>4. \A p \in Pages : OfPage(s, p) \in SUBSET Range(s)
  BY DEF OfPage
<1>5. \A p \in Pages : OfPage(s, p) \in SUBSET Item /\ IsFiniteSet(OfPage(s, p))
  BY <1>2, <1>3, <1>4, FS_Subset
<1> QED
  BY <1>1, <1>2, <1>3, <1>5

\* The items about a page, in both of two sequences.
LEMMA OfPageInBoth ==
    ASSUME NEW s \in Seq(Item), NEW t \in Seq(Item), NEW p \in Pages
    PROVE  Latest(OfPage(s \o t, p)) = Later(Latest(OfPage(s, p)), Latest(OfPage(t, p)))
<1>1. Range(s \o t) = Range(s) \cup Range(t)
  BY RangeConcatenation
<1>2. OfPage(s \o t, p) = OfPage(s, p) \cup OfPage(t, p)
  BY <1>1 DEF OfPage
<1> QED
  BY <1>2, BatchParts, LatestOfBoth

\* The first and the last of the items about a lineage.
LEMMA NotesAre ==
    ASSUME NEW s \in Seq(Item), NEW key, OfLineage(s, key) # {}
    PROVE  LET notes == OfLineage(s, key)
           IN  /\ notes \subseteq DOMAIN s /\ DOMAIN s \subseteq Nat
               /\ Min(notes) \in notes /\ \A i \in notes : Min(notes) <= i
               /\ Max(notes) \in notes /\ \A i \in notes : i <= Max(notes)
<1> DEFINE notes == OfLineage(s, key)
<1>1. DOMAIN s = 1..Len(s) /\ Len(s) \in Nat
  BY BatchParts
<1>2. notes \subseteq 1..Len(s)
  BY <1>1 DEF OfLineage
<1>3. IsFiniteSet(notes)
  <2>1. IsFiniteSet(1..Len(s))
    BY <1>1, FS_Interval
  <2> QED
    BY <1>2, <2>1, FS_Subset
<1>4. notes \in SUBSET Int
  BY <1>1, <1>2
<1> HIDE DEF notes
<1>5. /\ Max(notes) \in notes /\ \A i \in notes : Max(notes) >= i
      /\ Min(notes) \in notes /\ \A i \in notes : Min(notes) <= i
  BY <1>3, <1>4, MaxMinOfFinite DEF notes
<1>6. \A i \in notes : i <= Max(notes)
  BY <1>4, <1>5
<1> QED
  BY <1>1, <1>2, <1>5, <1>6 DEF notes

-----------------------------------------------------------------------------
(* What was committed about a lineage, and the row that tells it *)

LEMMA ItemsOfIs ==
    ASSUME NEW c \in Seq(Observation)
    PROVE  LET items == [i \in DOMAIN c |-> c[i].item]
           IN  /\ items \in Seq(Item) /\ Len(items) = Len(c) /\ DOMAIN items = DOMAIN c
               /\ \A key : OfLineage(items, key) = NotesOf(c, key)
<1> DEFINE items == [i \in DOMAIN c |-> c[i].item]
<1>1. Len(c) \in Nat /\ DOMAIN c = 1..Len(c) /\ \A i \in 1..Len(c) : c[i] \in Observation
  BY LenProperties, ElementOfSeq
<1>2. items = [i \in 1..Len(c) |-> c[i].item]
  BY <1>1
<1>3. \A i \in 1..Len(c) : c[i].item \in Item
  BY <1>1 DEF Observation
<1>4. items \in Seq(Item) /\ Len(items) = Len(c)
  <2>1. items \in [1..Len(c) -> Item]
    BY <1>2, <1>3
  <2> HIDE DEF items
  <2>2. items \in Seq(Item) /\ DOMAIN items = 1..Len(c)
    BY <1>1, <2>1, SeqDef
  <2> QED
    BY <1>1, <2>2, LenProperties
<1>5. \A key : OfLineage(items, key) = NotesOf(c, key)
  BY DEF OfLineage, NotesOf
<1> QED
  BY <1>4, <1>5

LEMMA ItemsOfBoth ==
    ASSUME NEW c \in Seq(Observation), NEW d \in Seq(Observation)
    PROVE  [i \in DOMAIN (c \o d) |-> (c \o d)[i].item] =
               [i \in DOMAIN c |-> c[i].item] \o [i \in DOMAIN d |-> d[i].item]
<1> DEFINE e == c \o d
           u == [i \in DOMAIN e |-> e[i].item]
           s == [i \in DOMAIN c |-> c[i].item]
           t == [i \in DOMAIN d |-> d[i].item]
<1>1. e \in Seq(Observation) /\ Len(e) = Len(c) + Len(d)
  BY ConcatProperties
<1>2. /\ u \in Seq(Item) /\ Len(u) = Len(e) /\ DOMAIN u = DOMAIN e
      /\ \A i \in DOMAIN e : u[i] = e[i].item
  <2> HIDE DEF e
  <2> QED
    BY <1>1, ItemsOfIs
<1>3. /\ s \in Seq(Item) /\ Len(s) = Len(c) /\ DOMAIN s = DOMAIN c
      /\ \A i \in DOMAIN c : s[i] = c[i].item
  BY ItemsOfIs
<1>4. /\ t \in Seq(Item) /\ Len(t) = Len(d) /\ DOMAIN t = DOMAIN d
      /\ \A i \in DOMAIN d : t[i] = d[i].item
  BY ItemsOfIs
<1>8. \A i \in DOMAIN e : \/ i \in DOMAIN c /\ e[i] = c[i]
                          \/ \E k \in DOMAIN d : i = Len(c) + k /\ e[i] = d[k]
  BY ConcatParts
<1> HIDE DEF u, s, t, e
<1>5. s \o t \in Seq(Item) /\ Len(s \o t) = Len(u)
  BY <1>1, <1>2, <1>3, <1>4, ConcatProperties
<1>6. ASSUME NEW i \in 1..Len(u) PROVE u[i] = (s \o t)[i]
  <2>1. i \in DOMAIN e
    BY <1>2, <1>6, LenProperties
  <2>2. CASE i \in DOMAIN c /\ e[i] = c[i]
    <3>1. (s \o t)[i] = s[i]
      BY <1>3, <1>4, <2>2, ConcatParts
    <3> QED
      BY <1>2, <1>3, <2>1, <2>2, <3>1
  <2>3. CASE \E k \in DOMAIN d : i = Len(c) + k /\ e[i] = d[k]
    <3>1. PICK k \in DOMAIN d : i = Len(c) + k /\ e[i] = d[k]
      BY <2>3
    <3>2. (s \o t)[Len(s) + k] = t[k]
      BY <1>3, <1>4, <3>1, ConcatParts
    <3> QED
      BY <1>2, <1>3, <1>4, <2>1, <3>1, <3>2
  <2> QED
    BY <1>8, <2>1, <2>2, <2>3
<1>7. u = s \o t
  BY <1>2, <1>5, <1>6, SeqEqual
<1> QED
  BY <1>7 DEF u, s, t, e

LEMMA NotesParts ==
    ASSUME NEW c \in Seq(Observation), NEW key
    PROVE  /\ DOMAIN c \subseteq 1..Len(c) /\ Len(c) \in Nat
           /\ NotesOf(c, key) \subseteq DOMAIN c
           /\ ToldOf(c, key) \in SUBSET Item /\ IsFiniteSet(ToldOf(c, key))
           /\ NotesOf(c, key) # {} =>
                 /\ Min(NotesOf(c, key)) \in NotesOf(c, key)
                 /\ \A i \in NotesOf(c, key) : Min(NotesOf(c, key)) <= i
                 /\ Max(NotesOf(c, key)) \in NotesOf(c, key)
                 /\ \A i \in NotesOf(c, key) : i <= Max(NotesOf(c, key))
<1> DEFINE items == [i \in DOMAIN c |-> c[i].item]
<1>1. /\ items \in Seq(Item) /\ DOMAIN items = DOMAIN c
      /\ OfLineage(items, key) = NotesOf(c, key)
  BY ItemsOfIs
<1>2. ToldOf(c, key) \subseteq Range(items)
  BY DEF ToldOf, NotesOf, Range
<1> HIDE DEF items
<1>3. Range(items) \subseteq Item /\ IsFiniteSet(Range(items))
  BY <1>1, BatchParts
<1>4. ToldOf(c, key) \in SUBSET Item /\ IsFiniteSet(ToldOf(c, key))
  <2>1. ToldOf(c, key) \in SUBSET Range(items)
    BY <1>2
  <2> QED
    BY <1>3, <2>1, FS_Subset
<1>5. NotesOf(c, key) \subseteq DOMAIN c /\ DOMAIN c = 1..Len(c) /\ Len(c) \in Nat
  BY LenProperties DEF NotesOf
<1>6. ASSUME NotesOf(c, key) # {}
      PROVE  /\ Min(NotesOf(c, key)) \in NotesOf(c, key)
             /\ \A i \in NotesOf(c, key) : Min(NotesOf(c, key)) <= i
             /\ Max(NotesOf(c, key)) \in NotesOf(c, key)
             /\ \A i \in NotesOf(c, key) : i <= Max(NotesOf(c, key))
  BY <1>1, <1>6, NotesAre
<1> QED
  BY <1>4, <1>5, <1>6

\* What was committed about a lineage in either of two sequences.
Joined(c, d, key) ==
    /\ c \o d \in Seq(Observation)
    /\ \A i \in NotesOf(c \o d, key) :
          \/ i \in NotesOf(c, key) /\ (c \o d)[i] = c[i]
          \/ \E k \in NotesOf(d, key) : i = Len(c) + k /\ (c \o d)[i] = d[k]
    /\ \A i \in NotesOf(c, key) : i \in NotesOf(c \o d, key) /\ (c \o d)[i] = c[i]
    /\ \A k \in NotesOf(d, key) : /\ Len(c) + k \in NotesOf(c \o d, key)
                                  /\ (c \o d)[Len(c) + k] = d[k]
    /\ ToldOf(c \o d, key) = ToldOf(c, key) \cup ToldOf(d, key)

LEMMA NotesOfBoth ==
    ASSUME NEW c \in Seq(Observation), NEW d \in Seq(Observation), NEW key
    PROVE  Joined(c, d, key)
<1> DEFINE e == c \o d
<1>1. /\ e \in Seq(Observation)
      /\ \A i \in DOMAIN e :
            \/ i \in DOMAIN c /\ e[i] = c[i]
            \/ \E k \in DOMAIN d : i = Len(c) + k /\ e[i] = d[k]
      /\ \A i \in DOMAIN c : i \in DOMAIN e /\ e[i] = c[i]
      /\ \A k \in DOMAIN d : Len(c) + k \in DOMAIN e /\ e[Len(c) + k] = d[k]
  BY ConcatParts
<1> HIDE DEF e
<1>2. \A i \in NotesOf(e, key) :
          \/ i \in NotesOf(c, key) /\ e[i] = c[i]
          \/ \E k \in NotesOf(d, key) : i = Len(c) + k /\ e[i] = d[k]
  BY <1>1 DEF NotesOf
<1>3. \A i \in NotesOf(c, key) : i \in NotesOf(e, key) /\ e[i] = c[i]
  BY <1>1 DEF NotesOf
<1>4. \A k \in NotesOf(d, key) : /\ Len(c) + k \in NotesOf(e, key)
                                 /\ e[Len(c) + k] = d[k]
  BY <1>1 DEF NotesOf
<1>5. ToldOf(e, key) = ToldOf(c, key) \cup ToldOf(d, key)
  <2>1. ToldOf(e, key) \subseteq ToldOf(c, key) \cup ToldOf(d, key)
    BY <1>2 DEF ToldOf
  <2>2. ToldOf(c, key) \subseteq ToldOf(e, key)
    BY <1>3 DEF ToldOf
  <2>3. ToldOf(d, key) \subseteq ToldOf(e, key)
    BY <1>4 DEF ToldOf
  <2> QED
    BY <2>1, <2>2, <2>3
<1> QED
  BY <1>1, <1>2, <1>3, <1>4, <1>5 DEF e, Joined

\* The first note stays the first.
LEMMA FirstStays ==
    ASSUME NEW c \in Seq(Observation), NEW d \in Seq(Observation), NEW key,
           NEW r, TellsFirst(r, c, key), NEW q,
           q.first_seen_page = r.first_seen_page, q.first_run = r.first_run
    PROVE  TellsFirst(q, c \o d, key)
<1>0. Joined(c, d, key)
  BY NotesOfBoth
<1> DEFINE m == Min(NotesOf(c, key))
<1>1. m \in NotesOf(c, key) /\ \A i \in NotesOf(c, key) : m <= i
  BY NotesParts DEF TellsFirst
<1>2. /\ Len(c) \in Nat /\ NotesOf(c, key) \subseteq 1..Len(c)
      /\ Len(d) \in Nat /\ NotesOf(d, key) \subseteq 1..Len(d)
      /\ NotesOf(c \o d, key) \subseteq Int
  <2>1. /\ NotesOf(c \o d, key) \subseteq DOMAIN (c \o d)
        /\ DOMAIN (c \o d) \subseteq 1..Len(c \o d)
    BY <1>0, NotesParts DEF Joined
  <2> QED
    BY <2>1, NotesParts
<1>3. m \in NotesOf(c \o d, key) /\ (c \o d)[m] = c[m]
  <2>1. \A i \in NotesOf(c, key) : i \in NotesOf(c \o d, key) /\ (c \o d)[i] = c[i]
    BY <1>0 DEF Joined
  <2> HIDE DEF m
  <2> QED
    BY <1>1, <2>1
<1>4. ASSUME NEW i \in NotesOf(c \o d, key) PROVE m <= i
  <2>1. CASE i \in NotesOf(c, key)
    BY <1>1, <2>1
  <2>2. CASE \E k \in NotesOf(d, key) : i = Len(c) + k
    <3>1. PICK k \in 1..Len(d) : i = Len(c) + k
      BY <1>2, <2>2
    <3>2. m \in 1..Len(c)
      BY <1>1, <1>2
    <3> HIDE DEF m
    <3> QED
      BY <1>2, <3>1, <3>2
  <2> QED
    BY <1>0, <2>1, <2>2 DEF Joined
<1>5. Min(NotesOf(c \o d, key)) = m
  <2> HIDE DEF m
  <2> QED
    BY <1>2, <1>3, <1>4, MinIs
<1>6. /\ r.first_seen_page = c[m].item.source_page
      /\ r.first_run = c[m].run
  BY DEF TellsFirst
<1> HIDE DEF m
<1> QED
  BY <1>3, <1>5, <1>6 DEF TellsFirst

\* The first note of a lineage that nothing was committed about.
LEMMA FirstNew ==
    ASSUME NEW c \in Seq(Observation), NEW d \in Seq(Observation), NEW key,
           NEW r, TellsFirst(r, d, key), NotesOf(c, key) = {}
    PROVE  TellsFirst(r, c \o d, key)
<1>0. Joined(c, d, key)
  BY NotesOfBoth
<1> DEFINE m == Min(NotesOf(d, key))
<1>1. m \in NotesOf(d, key) /\ \A i \in NotesOf(d, key) : m <= i
  BY NotesParts DEF TellsFirst
<1>2. Len(c) \in Nat /\ Len(d) \in Nat /\ NotesOf(d, key) \subseteq 1..Len(d)
  BY NotesParts
<1>3. /\ \A k \in NotesOf(d, key) : /\ Len(c) + k \in NotesOf(c \o d, key)
                                    /\ (c \o d)[Len(c) + k] = d[k]
      /\ \A i \in NotesOf(c \o d, key) : \E k \in NotesOf(d, key) : i = Len(c) + k
  BY <1>0 DEF Joined
<1>4. /\ r.first_seen_page = d[m].item.source_page
      /\ r.first_run = d[m].run
  BY DEF TellsFirst
<1> HIDE DEF m
<1>5. Len(c) + m \in NotesOf(c \o d, key) /\ (c \o d)[Len(c) + m] = d[m]
  BY <1>1, <1>3
<1>6. NotesOf(c \o d, key) \in SUBSET Int
  BY <1>2, <1>3
<1>7. \A i \in NotesOf(c \o d, key) : Len(c) + m <= i
  BY <1>1, <1>2, <1>3
<1>8. Min(NotesOf(c \o d, key)) = Len(c) + m
  BY <1>5, <1>6, <1>7, MinIs
<1> QED
  BY <1>4, <1>5, <1>8 DEF TellsFirst

\* What is committed about others leaves the last note as it is.
LEMMA LastStays ==
    ASSUME NEW c \in Seq(Observation), NEW d \in Seq(Observation), NEW key,
           NEW r, TellsLast(r, c, key), NotesOf(d, key) = {}
    PROVE  TellsLast(r, c \o d, key)
<1>0. Joined(c, d, key)
  BY NotesOfBoth
<1>1. /\ \A i \in NotesOf(c, key) : i \in NotesOf(c \o d, key) /\ (c \o d)[i] = c[i]
      /\ \A i \in NotesOf(c \o d, key) : i \in NotesOf(c, key)
      /\ ToldOf(c \o d, key) = ToldOf(c, key) \cup ToldOf(d, key)
  BY <1>0 DEF Joined
<1>2. NotesOf(c \o d, key) = NotesOf(c, key)
  BY <1>1
<1>3. ToldOf(c \o d, key) = ToldOf(c, key)
  BY <1>1 DEF ToldOf
<1>4. Max(NotesOf(c, key)) \in NotesOf(c, key)
  BY NotesParts DEF TellsLast
<1>5. (c \o d)[Max(NotesOf(c, key))] = c[Max(NotesOf(c, key))]
  BY <1>1, <1>4
<1> QED
  BY <1>2, <1>3, <1>5 DEF TellsLast

\* The last note is the last one of what is committed now; the latest time is
\* that of both.
LEMMA LastNew ==
    ASSUME NEW c \in Seq(Observation), NEW d \in Seq(Observation), NEW key,
           NEW r, NotesOf(d, key) # {},
           r.last_seen_page = d[Max(NotesOf(d, key))].item.source_page,
           r.last_run = d[Max(NotesOf(d, key))].run,
           r.source_modified_at = Later(Latest(ToldOf(c, key)), Latest(ToldOf(d, key)))
    PROVE  TellsLast(r, c \o d, key)
<1>0. Joined(c, d, key)
  BY NotesOfBoth
<1> DEFINE m == Max(NotesOf(d, key))
<1>1. m \in NotesOf(d, key) /\ \A i \in NotesOf(d, key) : i <= m
  BY NotesParts
<1>2. /\ Len(c) \in Nat /\ Len(d) \in Nat /\ NotesOf(d, key) \subseteq 1..Len(d)
      /\ NotesOf(c, key) \subseteq 1..Len(c)
  BY NotesParts
<1>3. /\ \A k \in NotesOf(d, key) : /\ Len(c) + k \in NotesOf(c \o d, key)
                                    /\ (c \o d)[Len(c) + k] = d[k]
      /\ \A i \in NotesOf(c \o d, key) :
            i \in NotesOf(c, key) \/ \E k \in NotesOf(d, key) : i = Len(c) + k
      /\ ToldOf(c \o d, key) = ToldOf(c, key) \cup ToldOf(d, key)
  BY <1>0 DEF Joined
<1>4. /\ r.last_seen_page = d[m].item.source_page
      /\ r.last_run = d[m].run
  OBVIOUS
<1> HIDE DEF m
<1>5. Len(c) + m \in NotesOf(c \o d, key) /\ (c \o d)[Len(c) + m] = d[m]
  BY <1>1, <1>3
<1>6. NotesOf(c \o d, key) \in SUBSET Int
  BY <1>2, <1>3
<1>7. ASSUME NEW i \in NotesOf(c \o d, key) PROVE Len(c) + m >= i
  <2>1. m \in 1..Len(d)
    BY <1>1, <1>2
  <2>2. CASE i \in NotesOf(c, key)
    BY <1>2, <2>1, <2>2
  <2>3. CASE \E k \in NotesOf(d, key) : i = Len(c) + k
    <3>1. PICK k \in NotesOf(d, key) : i = Len(c) + k
      BY <2>3
    <3>2. k <= m /\ k \in 1..Len(d)
      BY <1>1, <1>2
    <3> QED
      BY <1>2, <2>1, <3>1, <3>2
  <2> QED
    BY <1>3, <2>2, <2>3
<1>8. Max(NotesOf(c \o d, key)) = Len(c) + m
  BY <1>5, <1>6, <1>7, MaxIs
<1>9. Latest(ToldOf(c \o d, key)) = Later(Latest(ToldOf(c, key)), Latest(ToldOf(d, key)))
  BY <1>3, NotesParts, LatestOfBoth
<1> QED
  BY <1>4, <1>5, <1>8, <1>9 DEF TellsLast

-----------------------------------------------------------------------------
(* A batch and the rows it asks for *)

LEMMA TaggedParts ==
    ASSUME NEW b \in Seq(Item), NEW j \in Jobs
    PROVE  /\ Tagged(b, j) \in Seq(Observation) /\ Len(Tagged(b, j)) = Len(b)
           /\ [i \in DOMAIN Tagged(b, j) |-> Tagged(b, j)[i].item] = b
           /\ \A key : /\ NotesOf(Tagged(b, j), key) = OfLineage(b, key)
                       /\ ToldOf(Tagged(b, j), key) = {b[i] : i \in OfLineage(b, key)}
                       /\ key \in LineagesOf(b) <=> OfLineage(b, key) # {}
<1>1. /\ DOMAIN b = 1..Len(b) /\ Len(b) \in Nat /\ b = [i \in 1..Len(b) |-> b[i]]
      /\ \A i \in 1..Len(b) : b[i] \in Item
  BY BatchParts, SeqDef
<1>2. DOMAIN Tagged(b, j) = DOMAIN b /\ \A i \in DOMAIN b : Tagged(b, j)[i] = [item |-> b[i], run |-> j]
  BY DEF Tagged
<1>3. Tagged(b, j) \in [1..Len(b) -> Observation]
  BY <1>1 DEF Tagged, Observation
<1>4. Tagged(b, j) \in Seq(Observation) /\ Len(Tagged(b, j)) = Len(b)
  <2> DEFINE t == Tagged(b, j)
  <2>1. t \in [1..Len(b) -> Observation] /\ DOMAIN t = 1..Len(b)
    BY <1>1, <1>2, <1>3
  <2> HIDE DEF t
  <2>2. t \in Seq(Observation)
    BY <1>1, <2>1, SeqDef
  <2>3. Len(t) = Len(b)
    BY <1>1, <2>1, <2>2, LenProperties
  <2> QED
    BY <2>2, <2>3 DEF t
<1>5. [i \in DOMAIN Tagged(b, j) |-> Tagged(b, j)[i].item] = b
  BY <1>1, <1>2
<1>6. \A key : /\ NotesOf(Tagged(b, j), key) = OfLineage(b, key)
               /\ ToldOf(Tagged(b, j), key) = {b[i] : i \in OfLineage(b, key)}
  BY <1>2 DEF NotesOf, ToldOf, OfLineage
<1>7. \A key : key \in LineagesOf(b) <=> OfLineage(b, key) # {}
  BY DEF LineagesOf, OfLineage, Range
<1> QED
  BY <1>4, <1>5, <1>6, <1>7

\* A lineage row as a new one is inserted.
LEMMA NewRow ==
    ASSUME NEW b \in Seq(Item), NEW j \in Jobs, NEW key, key \in LineagesOf(b),
           NEW c \in Seq(Observation), NotesOf(c, key) = {}
    PROVE  /\ NewLineage(b, key, j) \in LineageRow
           /\ TellsFirst(NewLineage(b, key, j), c \o Tagged(b, j), key)
           /\ TellsLast(NewLineage(b, key, j), c \o Tagged(b, j), key)
<1> DEFINE d == Tagged(b, j)
           seen == OfLineage(b, key)
           r == NewLineage(b, key, j)
<1>1. /\ d \in Seq(Observation) /\ NotesOf(d, key) = seen /\ seen # {}
      /\ ToldOf(d, key) = {b[i] : i \in seen}
  BY TaggedParts
<1>2. /\ Min(seen) \in seen /\ Max(seen) \in seen /\ seen \subseteq DOMAIN b
      /\ \A i \in DOMAIN b : b[i] \in Item
  BY <1>1, NotesAre, BatchParts
<1>3. \A i \in seen : d[i].item = b[i] /\ d[i].run = j
  BY <1>2 DEF Tagged
<1>4. /\ r.first_seen_page = b[Min(seen)].source_page
      /\ r.last_seen_page = b[Max(seen)].source_page
      /\ r.source_modified_at = Latest({b[i] : i \in seen})
      /\ r.first_run = j /\ r.last_run = j
  BY DEF NewLineage
<1>5. Latest(ToldOf(d, key)) \in Stamp
  BY <1>1, NotesParts, LatestIs
<1>6. r \in LineageRow
  <2>1. b[Min(seen)].source_page \in Nat /\ b[Max(seen)].source_page \in Nat
    BY <1>2 DEF Item
  <2> QED
    BY <1>1, <1>5, <2>1 DEF NewLineage, LineageRow
<1> HIDE DEF d, seen, r
<1>7. TellsFirst(r, d, key)
  BY <1>1, <1>2, <1>3, <1>4 DEF TellsFirst
<1>8. TellsFirst(r, c \o d, key)
  BY <1>1, <1>7, FirstNew
<1>9. r.source_modified_at = Later(Latest(ToldOf(c, key)), Latest(ToldOf(d, key)))
  <2>1. ToldOf(c, key) = {}
    BY DEF ToldOf
  <2>2. Latest({}) = None
    BY LatestIs, FS_EmptySet
  <2> QED
    BY <1>1, <1>4, <1>5, <2>1, <2>2 DEF Later, Stamp, None
<1>10. TellsLast(r, c \o d, key)
  BY <1>1, <1>2, <1>3, <1>4, <1>9, LastNew
<1> QED
  BY <1>6, <1>8, <1>10 DEF d, r

\* A lineage row that is there, as the session of j updates it.
LEMMA SeenRow ==
    ASSUME NEW b \in Seq(Item), NEW j \in Jobs, NEW key, key \in LineagesOf(b),
           NEW c \in Seq(Observation), NEW row \in LineageRow, NEW old \in LineageRow,
           TellsFirst(row, c, key)
    PROVE  LET r == FlushLineage(row, old, SeenLineage(old, b, key, j))
           IN  /\ r \in LineageRow
               /\ TellsFirst(r, c \o Tagged(b, j), key)
               /\ row = old /\ TellsLast(row, c, key) =>
                     TellsLast(r, c \o Tagged(b, j), key)
<1> DEFINE d == Tagged(b, j)
           seen == OfLineage(b, key)
           new == SeenLineage(old, b, key, j)
           r == FlushLineage(row, old, new)
<1>1. /\ d \in Seq(Observation) /\ NotesOf(d, key) = seen /\ seen # {}
      /\ ToldOf(d, key) = {b[i] : i \in seen}
  BY TaggedParts
<1>2. /\ Max(seen) \in seen /\ seen \subseteq DOMAIN b
      /\ \A i \in DOMAIN b : b[i] \in Item
  BY <1>1, NotesAre, BatchParts
<1>3. \A i \in seen : d[i].item = b[i] /\ d[i].run = j
  BY <1>2 DEF Tagged
<1>4. Latest(ToldOf(d, key)) \in Stamp
  BY <1>1, NotesParts, LatestIs
<1>5. /\ new.last_seen_page = b[Max(seen)].source_page
      /\ new.last_run = j
      /\ new.source_modified_at =
            Later(old.source_modified_at, Latest({b[i] : i \in seen}))
  BY DEF SeenLineage, LineageRow
<1>6. b[Max(seen)].source_page \in Nat
  BY <1>2 DEF Item
<1>7. /\ new.last_seen_page \in Nat /\ new.last_run \in Jobs
      /\ new.source_modified_at \in Stamp
  BY <1>1, <1>4, <1>5, <1>6 DEF Later, LineageRow
<1> HIDE DEF new
<1>8. /\ r.first_seen_page = row.first_seen_page /\ r.first_run = row.first_run
      /\ r.last_seen_page = Column(row.last_seen_page, old.last_seen_page, new.last_seen_page)
      /\ r.last_run = Column(row.last_run, old.last_run, new.last_run)
      /\ r.source_modified_at =
            Column(row.source_modified_at, old.source_modified_at, new.source_modified_at)
      /\ r \in LineageRow
  BY <1>7 DEF FlushLineage, Column, LineageRow
<1> HIDE DEF d, seen, r
<1>9. TellsFirst(r, c \o d, key)
  BY <1>1, <1>8, FirstStays
<1>10. ASSUME row = old, TellsLast(row, c, key) PROVE TellsLast(r, c \o d, key)
  <2>1. /\ r.last_seen_page = new.last_seen_page /\ r.last_run = new.last_run
        /\ r.source_modified_at = new.source_modified_at
    BY <1>8, <1>10 DEF Column
  <2>2. old.source_modified_at = Latest(ToldOf(c, key))
    BY <1>10 DEF TellsLast
  <2>3. r.source_modified_at = Later(Latest(ToldOf(c, key)), Latest(ToldOf(d, key)))
    BY <1>1, <1>5, <2>1, <2>2
  <2> QED
    BY <1>1, <1>2, <1>3, <1>5, <2>1, <2>3, LastNew
<1> QED
  BY <1>8, <1>9, <1>10 DEF d, r, new

\* A row of the table pages, as a commit over what it has become leaves it.
LEMMA MergedPage ==
    ASSUME NEW r \in Row, NEW old \in Row, NEW modified \in Stamp,
           IF old.status = "absent" THEN old = AbsentRow ELSE r.status # "absent",
           r.status = "absent" => r = AbsentRow,
           ~Conflicts(r, [old |-> old, new |-> DiscoveredRow(old, modified)])
    PROVE  LET q == Flush(r, [old |-> old, new |-> DiscoveredRow(old, modified)])
           IN  /\ q \in Row
               /\ q.status # "absent"
               /\ r.source_modified_at = old.source_modified_at =>
                     q.source_modified_at = Later(r.source_modified_at, modified)
               /\ r.status # "pending" /\ q.status = "pending" =>
                     Dispatchable(old, modified)
<1> DEFINE new == DiscoveredRow(old, modified)
           q == Flush(r, [old |-> old, new |-> new])
<1>1. CASE old.status = "absent"
  <2>1. new = [AbsentRow EXCEPT !.status = "pending", !.source_modified_at = modified]
    BY <1>1 DEF DiscoveredRow
  <2>2. new.status = "pending" /\ new.source_modified_at = modified /\ new \in Row
    BY <2>1 DEF AbsentRow, Row, Status, ErrorType, Stamp
  <2>3. r = AbsentRow
    BY <1>1, <2>2 DEF Conflicts
  <2> HIDE DEF new
  <2>4. q \in Row /\ q.status = "pending" /\ q.source_modified_at = modified
    BY <1>1, <2>1, <2>2, <2>3 DEF Flush, Column, Row, AbsentRow, Status
  <2>5. Later(r.source_modified_at, modified) = modified
    BY <2>3 DEF Later, AbsentRow, Stamp, None
  <2>6. Dispatchable(old, modified)
    BY <1>1 DEF Dispatchable
  <2> QED
    BY <2>4, <2>5, <2>6 DEF new
<1>2. CASE old.status # "absent"
  <2>1. /\ new.source_modified_at = Later(old.source_modified_at, modified)
        /\ new.status = IF Outdated(old, modified) THEN "pending" ELSE old.status
        /\ new \in Row
    BY <1>2 DEF DiscoveredRow, Row, Later, Status, ErrorType
  <2>2. Outdated(old, modified) => Dispatchable(old, modified)
    BY DEF Dispatchable
  <2> HIDE DEF new
  <2>3. q \in Row
    BY <2>1 DEF Flush, Column, Row
  <2>4. /\ q.status = Column(r.status, old.status, new.status)
        /\ q.source_modified_at = Column(r.source_modified_at, old.source_modified_at,
                                         new.source_modified_at)
    BY DEF Flush
  <2>5. q.status # "absent"
    BY <1>2, <2>1, <2>4 DEF Column
  <2>6. r.source_modified_at = old.source_modified_at =>
           q.source_modified_at = Later(r.source_modified_at, modified)
    BY <2>1, <2>4 DEF Column
  <2>7. r.status # "pending" /\ q.status = "pending" => Dispatchable(old, modified)
    BY <2>1, <2>2, <2>4 DEF Column
  <2> QED
    BY <2>3, <2>5, <2>6, <2>7 DEF new
<1> QED
  BY <1>1, <1>2

-----------------------------------------------------------------------------
(* Steps *)

\* The batch in hand, while it is written.
LEMMA WritingParts ==
    ASSUME BatchInv, NEW j \in Jobs, pc[j] = "writing"
    PROVE  /\ ReadOf(j) /\ batch[j] \in Seq(Item)
           /\ PagesOf(batch[j]) \subseteq Pages /\ IsFiniteSet(PagesOf(batch[j]))
           /\ LineagesOf(batch[j]) \subseteq Pages \X Sources
           /\ PagesOf(batch[j]) = {key[1] : key \in LineagesOf(batch[j])}
<1>1. ReadOf(j)
  BY DEF BatchInv, SessionsRead
<1>2. batch[j] \in Seq(Item)
  BY <1>1, BatchWriteAssumption DEF ReadOf
<1>3. Range(batch[j]) \subseteq Item /\ IsFiniteSet(Range(batch[j]))
  BY <1>2, BatchParts
<1>4. PagesOf(batch[j]) \subseteq Pages /\ LineagesOf(batch[j]) \subseteq Pages \X Sources
  BY <1>3 DEF PagesOf, LineagesOf, Lineage, Item
<1>5. IsFiniteSet(PagesOf(batch[j]))
  <2> DEFINE S == Range(batch[j])
             f == [item \in S |-> item.page]
  <2>1. {f[item] : item \in S} = PagesOf(batch[j])
    BY DEF PagesOf
  <2>2. IsFiniteSet({f[item] : item \in S})
    BY <1>3, ImageFinite
  <2> QED
    BY <2>1, <2>2
<1>6. PagesOf(batch[j]) = {key[1] : key \in LineagesOf(batch[j])}
  <2>1. \A item : Lineage(item)[1] = item.page
    BY DEF Lineage
  <2> QED
    BY <2>1 DEF PagesOf, LineagesOf
<1> QED
  BY <1>1, <1>2, <1>4, <1>5, <1>6

\* What a commit makes of the table pages.
LEMMA CommitPages ==
    ASSUME BatchInv, NEW j \in Jobs, Commit(j)
    PROVE  /\ pages' \in [Pages -> Row]
           /\ Present' = Present \cup PagesOf(batch[j])
           /\ \A p \in Pages \ PagesOf(batch[j]) : pages'[p] = pages[p]
           /\ \A p \in PagesOf(batch[j]) :
                 /\ pages[p].source_modified_at = snapshot[j].pages[p].source_modified_at =>
                       pages'[p].source_modified_at =
                           Later(pages[p].source_modified_at, Latest(OfPage(batch[j], p)))
                 /\ pages[p].status # "pending" /\ pages'[p].status = "pending" =>
                       p \in dispatchable'[j]
           /\ InsertedPages(j) = PagesOf(batch[j]) \ Present
<1> DEFINE b == batch[j]
<1>1. /\ ReadOf(j) /\ b \in Seq(Item) /\ PagesOf(b) \subseteq Pages
      /\ pc[j] = "writing"
  BY WritingParts DEF Commit
<1>2. pages' = WrittenPages(j) /\ ~Refused(j) /\ pages \in [Pages -> Row]
  BY DEF Commit, BatchInv, TypeInv, BatchTypeOK
<1>3. ASSUME NEW p \in Pages \ PagesOf(b) PROVE pages'[p] = pages[p]
  BY <1>2 DEF WrittenPages
<1>4. ASSUME NEW p \in PagesOf(b)
      PROVE  /\ pages'[p] \in Row /\ pages'[p].status # "absent"
             /\ pages[p].source_modified_at = snapshot[j].pages[p].source_modified_at =>
                   pages'[p].source_modified_at =
                       Later(pages[p].source_modified_at, Latest(OfPage(b, p)))
             /\ pages[p].status # "pending" /\ pages'[p].status = "pending" =>
                   Dispatchable(snapshot[j].pages[p], Latest(OfPage(b, p)))
             /\ snapshot[j].pages[p].status = "absent" <=> p \notin Present
  <2> DEFINE r == pages[p]
             old == snapshot[j].pages[p]
             modified == Latest(OfPage(b, p))
             q == Flush(r, [old |-> old, new |-> DiscoveredRow(old, modified)])
  <2>1. p \in Pages /\ r \in Row /\ old \in Row
    BY <1>1, <1>2 DEF ReadOf
  <2>2. modified \in Stamp
    BY <1>1, <2>1, BatchParts, LatestIs
  <2>3. IF old.status = "absent" THEN old = AbsentRow ELSE r.status # "absent"
    BY <1>1 DEF ReadOf, Present
  <2>4. r.status = "absent" => r = AbsentRow
    BY <2>1 DEF BatchInv, Nothing, Present
  <2>5. ~Conflicts(r, [old |-> old, new |-> DiscoveredRow(old, modified)])
    BY <1>2 DEF Refused, PageWrite
  <2>6. pages'[p] = q
    BY <1>2, <2>1 DEF WrittenPages, PageWrite
  <2>7. old.status = "absent" <=> p \notin Present
    <3>1. old.status = "absent" => DiscoveredRow(old, modified).status # "absent"
      BY DEF DiscoveredRow, AbsentRow
    <3>2. old.status = "absent" => r.status = "absent"
      BY <2>5, <3>1 DEF Conflicts
    <3> QED
      BY <2>1, <2>3, <3>2 DEF Present
  <2>8. /\ q \in Row /\ q.status # "absent"
        /\ r.source_modified_at = old.source_modified_at =>
              q.source_modified_at = Later(r.source_modified_at, modified)
        /\ r.status # "pending" /\ q.status = "pending" => Dispatchable(old, modified)
    <3> HIDE DEF r, old, modified
    <3> QED
      BY <2>1, <2>2, <2>3, <2>4, <2>5, MergedPage
  <2> QED
    BY <2>6, <2>7, <2>8
<1>5. pages' \in [Pages -> Row]
  <2>1. \A p \in Pages : pages'[p] \in Row
    BY <1>2, <1>3, <1>4
  <2>2. pages' = [p \in Pages |-> pages'[p]]
    BY <1>2 DEF WrittenPages
  <2> QED
    BY <2>1, <2>2
<1>6. Present' = Present \cup PagesOf(b)
  BY <1>1, <1>3, <1>4 DEF Present
<1>7. dispatchable'[j] = {p \in PagesOf(b) :
               Dispatchable(snapshot[j].pages[p], Latest(OfPage(b, p)))}
  BY DEF Commit, Put, BatchInv, TypeInv, BatchTypeOK
<1>8. InsertedPages(j) = PagesOf(b) \ Present
  BY <1>4 DEF InsertedPages
<1> QED
  BY <1>3, <1>4, <1>5, <1>6, <1>7, <1>8

\* What a commit makes of the table page_sources.
LEMMA CommitSources ==
    ASSUME BatchInv, NEW j \in Jobs, Commit(j)
    PROVE  /\ DOMAIN sources' = DOMAIN sources \cup LineagesOf(batch[j])
           /\ \A key \in DOMAIN sources' :
                 /\ sources'[key] \in LineageRow
                 /\ TellsFirst(sources'[key], committed', key)
                 /\ key \notin raced' => TellsLast(sources'[key], committed', key)
<1> DEFINE b == batch[j]
           d == Tagged(b, j)
<1>1. ReadOf(j) /\ b \in Seq(Item) /\ pc[j] = "writing"
  BY WritingParts DEF Commit
<1>2. /\ sources' = WrittenSources(j) /\ ~Refused(j)
      /\ committed' = committed \o d /\ raced' = raced \cup Overtaken(j)
  BY DEF Commit, Tagged
<1>3. /\ committed \in Seq(Observation) /\ d \in Seq(Observation)
      /\ \A key : NotesOf(d, key) = {} <=> key \notin LineagesOf(b)
  BY <1>1, TaggedParts DEF BatchInv, TypeInv
<1>4. DOMAIN sources' = DOMAIN sources \cup LineagesOf(b)
  BY <1>2 DEF WrittenSources
<1>5. \A key \in DOMAIN sources :
          /\ sources[key] \in LineageRow
          /\ TellsFirst(sources[key], committed, key)
          /\ key \notin raced => TellsLast(sources[key], committed, key)
  BY DEF BatchInv, TypeInv, BatchTypeOK, RowsTell
<1>6. ASSUME NEW key \in DOMAIN sources', key \notin LineagesOf(b)
      PROVE  /\ sources'[key] \in LineageRow
             /\ TellsFirst(sources'[key], committed \o d, key)
             /\ key \notin raced' => TellsLast(sources'[key], committed \o d, key)
  <2>1. key \in DOMAIN sources /\ sources'[key] = sources[key]
    BY <1>2, <1>4, <1>6 DEF WrittenSources
  <2>2. TellsFirst(sources[key], committed \o d, key)
    BY <1>3, <1>5, <2>1, FirstStays
  <2>3. key \notin raced' => TellsLast(sources[key], committed \o d, key)
    BY <1>2, <1>3, <1>5, <1>6, <2>1, LastStays
  <2> QED
    BY <1>5, <2>1, <2>2, <2>3
<1>7. ASSUME NEW key \in LineagesOf(b)
      PROVE  /\ sources'[key] \in LineageRow
             /\ TellsFirst(sources'[key], committed \o d, key)
             /\ key \notin raced' => TellsLast(sources'[key], committed \o d, key)
  <2>1. sources'[key] = WrittenLineage(j, key)
    BY <1>2 DEF WrittenSources
  <2>2. CASE key \notin DOMAIN snapshot[j].sources
    <3>1. key \notin DOMAIN sources
      BY <1>2, <2>2 DEF Refused
    <3>2. NotesOf(committed, key) = {}
      BY <3>1 DEF NotesOf, BatchInv, Nothing
    <3>3. sources'[key] = NewLineage(b, key, j)
      BY <2>1, <2>2 DEF WrittenLineage
    <3> QED
      BY <1>1, <1>3, <1>7, <3>2, <3>3, NewRow
  <2>3. CASE key \in DOMAIN snapshot[j].sources
    <3> DEFINE old == snapshot[j].sources[key]
               row == sources[key]
               r == FlushLineage(row, old, SeenLineage(old, b, key, j))
    <3>1. key \in DOMAIN sources /\ old \in LineageRow
      BY <1>1, <2>3 DEF ReadOf
    <3>2. sources'[key] = r
      BY <2>1, <2>3 DEF WrittenLineage
    <3>3. key \notin raced' => key \notin raced /\ row = old
      BY <1>2, <2>3 DEF Overtaken
    <3>4. row \in LineageRow /\ TellsFirst(row, committed, key)
      BY <1>5, <3>1
    <3>5. key \notin raced => TellsLast(row, committed, key)
      BY <1>5, <3>1
    <3>6. /\ r \in LineageRow
          /\ TellsFirst(r, committed \o d, key)
          /\ row = old /\ TellsLast(row, committed, key) =>
                TellsLast(r, committed \o d, key)
      <4> HIDE DEF row, old
      <4> QED
        BY <1>1, <1>3, <1>7, <3>1, <3>4, SeenRow
    <3> HIDE DEF r, row, old
    <3> QED
      BY <3>2, <3>3, <3>5, <3>6
  <2> QED
    BY <2>2, <2>3
<1> QED
  BY <1>2, <1>4, <1>6, <1>7

\* What a commit makes of the counters.
LEMMA CommitStats ==
    ASSUME BatchInv, NEW j \in Jobs, Commit(j)
    PROVE  /\ stats' \in [Jobs -> Stats]
           /\ \A k \in Jobs \ {j} : stats'[k] = stats[k]
           /\ stats'[j].observations = stats[j].observations + Len(batch[j])
           /\ stats'[j].pages_inserted =
                  stats[j].pages_inserted + Cardinality(PagesOf(batch[j]) \ Present)
           /\ stats'[j].batches_written # stats[j].batches_written
<1> DEFINE new == Cardinality(PagesOf(batch[j]) \ Present)
           all == Cardinality(PagesOf(batch[j]))
<1>1. new \in Nat /\ all \in Nat /\ new <= all /\ Len(batch[j]) \in Nat
  <2>1. IsFiniteSet(PagesOf(batch[j])) /\ batch[j] \in Seq(Item)
    BY WritingParts DEF Commit
  <2>2. /\ IsFiniteSet(PagesOf(batch[j]) \ Present)
        /\ Cardinality(PagesOf(batch[j]) \ Present) <= all
    BY <2>1, FS_Subset
  <2> QED
    BY <2>1, <2>2, FS_CardinalityType, LenProperties
<1>2. stats' = Put(stats, j, Included(j)) /\ stats \in [Jobs -> Stats]
  BY DEF Commit, BatchInv, TypeInv
<1>3. Included(j) = [observations |-> stats[j].observations + Len(batch[j]),
                     pages_inserted |-> stats[j].pages_inserted + new,
                     pages_updated |-> stats[j].pages_updated + all - new,
                     batches_written |-> stats[j].batches_written + 1]
  BY CommitPages DEF Included
<1> HIDE DEF new, all
<1>4. stats[j] \in Stats
  BY <1>2
<1>5. Included(j) \in Stats
  <2>1. \A n \in Nat : n + all - new \in Nat
    BY <1>1
  <2> QED
    BY <1>1, <1>3, <1>4, <2>1 DEF Stats
<1>6. stats'[j] = Included(j) /\ \A k \in Jobs \ {j} : stats'[k] = stats[k]
  BY <1>2 DEF Put
<1>7. stats' \in [Jobs -> Stats]
  BY <1>2, <1>5 DEF Put
<1>8. stats'[j].batches_written # stats[j].batches_written
  BY <1>3, <1>4, <1>6 DEF Stats
<1> QED
  BY <1>3, <1>6, <1>7, <1>8 DEF new

\* The tables and the counters agree after a commit.
LEMMA CommitAgrees ==
    ASSUME BatchInv, NEW j \in Jobs, Commit(j)
    PROVE  TablesAgree' /\ IsFiniteSet(Present)'
<1> DEFINE b == batch[j]
<1>1. /\ b \in Seq(Item) /\ IsFiniteSet(PagesOf(b)) /\ PagesOf(b) \subseteq Pages
      /\ PagesOf(b) = {key[1] : key \in LineagesOf(b)}
  BY WritingParts DEF Commit
<1>2. Present' = Present \cup PagesOf(b)
  BY CommitPages
<1>3. IsFiniteSet(Present)
  BY DEF BatchInv
<1>4. Present' = {key[1] : key \in DOMAIN sources'}
  <2>1. Present = {key[1] : key \in DOMAIN sources}
    BY DEF BatchInv, TablesAgree, Present
  <2>2. DOMAIN sources' = DOMAIN sources \cup LineagesOf(b)
    BY CommitSources
  <2> QED
    BY <1>1, <1>2, <2>1, <2>2
<1>5. /\ IsFiniteSet(Present')
      /\ Cardinality(Present') = Cardinality(Present) + Cardinality(PagesOf(b) \ Present)
      /\ Cardinality(Present) \in Nat /\ Cardinality(PagesOf(b) \ Present) \in Nat
  <2> DEFINE X == PagesOf(b) \ Present
  <2>1. IsFiniteSet(X)
    BY <1>1, FS_Subset
  <2>2. Present' = Present \cup X /\ Present \cap X = {}
    BY <1>2
  <2> HIDE DEF X
  <2>3. /\ IsFiniteSet(Present \cup X)
        /\ Cardinality(Present \cup X) =
               Cardinality(Present) + Cardinality(X) - Cardinality(Present \cap X)
    BY <1>3, <2>1, FS_Union
  <2>4. Cardinality(Present \cap X) = 0
    BY <2>2, FS_EmptySet
  <2>5. Cardinality(Present) \in Nat /\ Cardinality(X) \in Nat
    BY <1>3, <2>1, FS_CardinalityType
  <2> QED
    BY <2>2, <2>3, <2>4, <2>5 DEF X
<1> DEFINE inserted == [k \in Jobs |-> stats[k].pages_inserted]
           inserted2 == [k \in Jobs |-> stats'[k].pages_inserted]
           seen == [k \in Jobs |-> stats[k].observations]
           seen2 == [k \in Jobs |-> stats'[k].observations]
<1>6. /\ inserted \in [Jobs -> Int] /\ inserted2 \in [Jobs -> Int]
      /\ seen \in [Jobs -> Int] /\ seen2 \in [Jobs -> Int]
      /\ stats[j] \in Stats
  <2>1. stats \in [Jobs -> Stats] /\ stats' \in [Jobs -> Stats]
    BY CommitStats DEF BatchInv, TypeInv
  <2>2. \A k \in Jobs : /\ stats[k].pages_inserted \in Nat
                        /\ stats[k].observations \in Nat
                        /\ stats'[k].pages_inserted \in Nat
                        /\ stats'[k].observations \in Nat
    BY <2>1 DEF Stats
  <2> QED
    BY <2>1, <2>2
<1>7. /\ \A k \in Jobs \ {j} : inserted2[k] = inserted[k] /\ seen2[k] = seen[k]
      /\ inserted2[j] = inserted[j] + Cardinality(PagesOf(b) \ Present)
      /\ seen2[j] = seen[j] + Len(b)
      /\ inserted[j] \in Nat /\ seen[j] \in Nat
  BY <1>6, CommitStats DEF Stats
<1>8. /\ SumFunction(inserted) = Cardinality(Present)
      /\ SumFunction(seen) = Len(committed)
  BY DEF BatchInv, TablesAgree, Present
<1>9. Len(committed') = Len(committed) + Len(b) /\ Len(b) \in Nat /\ Len(committed) \in Nat
  <2>1. committed \in Seq(Observation) /\ committed' = committed \o Tagged(b, j)
    BY DEF BatchInv, TypeInv, Commit, Tagged
  <2>2. Tagged(b, j) \in Seq(Observation) /\ Len(Tagged(b, j)) = Len(b)
    BY <1>1, TaggedParts
  <2>3. Len(committed') = Len(committed) + Len(Tagged(b, j))
    BY <2>1, <2>2, ConcatProperties
  <2> QED
    BY <1>1, <2>1, <2>2, <2>3, LenProperties
<1>10. IsFiniteSet(Jobs)
  BY BatchWriteAssumption
<1> HIDE DEF inserted, inserted2, seen, seen2, b
<1>11. SumFunction(inserted2) = SumFunction(inserted) - inserted[j] + inserted2[j]
  <2>1. \A k \in Jobs \ {j} : inserted2[k] = inserted[k]
    BY <1>7
  <2> QED
    BY <1>6, <1>10, <2>1, SumChange
<1>12. SumFunction(seen2) = SumFunction(seen) - seen[j] + seen2[j]
  <2>1. \A k \in Jobs \ {j} : seen2[k] = seen[k]
    BY <1>7
  <2> QED
    BY <1>6, <1>10, <2>1, SumChange
<1>13. SumFunction(inserted2) = Cardinality(Present')
  BY <1>5, <1>7, <1>8, <1>11
<1>14. SumFunction(seen2) = Len(committed')
  <2>1. seen2[j] = seen[j] + Len(b) /\ seen[j] \in Nat
    BY <1>7
  <2> QED
    BY <1>8, <1>9, <1>12, <2>1
<1> QED
  BY <1>4, <1>5, <1>13, <1>14 DEF TablesAgree, Present, inserted2, seen2

\* What a session read of the tables stays true while rows are only added.
LEMMA ReadStays ==
    ASSUME NEW k, ReadOf(k), batch'[k] = batch[k], snapshot'[k] = snapshot[k],
           Present \subseteq Present', DOMAIN sources \subseteq DOMAIN sources'
    PROVE  ReadOf(k)'
BY DEF ReadOf

LEMMA CommitInv ==
    ASSUME BatchInv, NEW j \in Jobs, Commit(j)
    PROVE  BatchInv'
<1> DEFINE b == batch[j]
<1>1. /\ ReadOf(j) /\ b \in Seq(Item) /\ PagesOf(b) \subseteq Pages
      /\ LineagesOf(b) \subseteq Pages \X Sources
  BY WritingParts DEF Commit
<1>2. TypeInv /\ committed' = committed \o Tagged(b, j)
  BY DEF BatchInv, Commit, Tagged
<1>3. Tagged(b, j) \in Seq(Observation) /\ committed \in Seq(Observation)
  BY <1>1, <1>2, TaggedParts DEF TypeInv
<1>4. /\ pages' \in [Pages -> Row] /\ Present' = Present \cup PagesOf(b)
      /\ \A p \in Pages \ PagesOf(b) : pages'[p] = pages[p]
  BY CommitPages
<1>5. /\ DOMAIN sources' = DOMAIN sources \cup LineagesOf(b)
      /\ \A key \in DOMAIN sources' : sources'[key] \in LineageRow
  BY CommitSources
<1>6. TypeInv'
  <2>1. stats' \in [Jobs -> Stats]
    BY CommitStats
  <2>2. committed' \in Seq(Observation)
    BY <1>2, <1>3, ConcatProperties
  <2>3. DOMAIN sources' \subseteq Pages \X Sources
    BY <1>1, <1>2, <1>5 DEF TypeInv, BatchTypeOK
  <2>4. /\ pc' \in [Jobs -> {"idle", "writing", "failed"}]
        /\ batch' \in [Jobs -> Batches \cup {<<>>}]
        /\ snapshot' = [k \in Jobs |-> snapshot'[k]]
    BY <1>2 DEF TypeInv, BatchTypeOK, Commit, CloseSession, Put
  <2>5. dispatchable' \in [Jobs -> SUBSET Pages]
    <3>1. {p \in PagesOf(b) :
              Dispatchable(snapshot[j].pages[p], Latest(OfPage(b, p)))} \in SUBSET Pages
      BY <1>1
    <3> QED
      BY <1>2, <3>1 DEF TypeInv, BatchTypeOK, Commit, Put
  <2>6. \A k \in Jobs : batch'[k] \in Batches \cup {<<>>}
    BY <2>4
  <2> QED
    BY <1>4, <1>5, <2>1, <2>2, <2>3, <2>4, <2>5, <2>6 DEF TypeInv, BatchTypeOK
<1>7. SessionsRead'
  <2>1. ASSUME NEW k \in Jobs, pc'[k] = "writing" PROVE ReadOf(k)'
    <3>1. k # j /\ pc[k] = "writing"
      BY <1>2, <2>1 DEF TypeInv, BatchTypeOK, Commit, Put
    <3>2. batch'[k] = batch[k] /\ snapshot'[k] = snapshot[k]
      BY <1>2, <3>1 DEF TypeInv, Commit, CloseSession, Put
    <3>3. ReadOf(k)
      BY <3>1 DEF BatchInv, SessionsRead
    <3> QED
      BY <1>4, <1>5, <3>2, <3>3, ReadStays
  <2> QED
    BY <2>1 DEF SessionsRead
<1>8. Nothing'
  <2>1. \A p \in Pages \ Present' : pages'[p] = AbsentRow
    BY <1>4 DEF BatchInv, Nothing
  <2>2. ASSUME NEW i \in DOMAIN committed'
        PROVE  Lineage(committed'[i].item) \in DOMAIN sources'
    <3>1. CASE i \in DOMAIN committed /\ committed'[i] = committed[i]
      BY <1>5, <3>1 DEF BatchInv, Nothing
    <3>2. CASE \E k \in DOMAIN Tagged(b, j) : committed'[i] = Tagged(b, j)[k]
      <4>1. PICK k \in DOMAIN Tagged(b, j) : committed'[i] = Tagged(b, j)[k]
        BY <3>2
      <4>2. k \in DOMAIN b /\ committed'[i].item = b[k]
        BY <4>1 DEF Tagged
      <4>3. Lineage(b[k]) \in LineagesOf(b)
        BY <4>2 DEF LineagesOf, Range
      <4> QED
        BY <1>5, <4>2, <4>3
    <3> QED
      BY <1>2, <1>3, <3>1, <3>2, ConcatParts
  <2> QED
    BY <2>1, <2>2 DEF Nothing
<1>9. RowsTell'
  <2>1. \A key \in DOMAIN sources' :
           /\ TellsFirst(sources'[key], committed', key)
           /\ key \notin raced' => TellsLast(sources'[key], committed', key)
    BY CommitSources
  <2>2. ASSUME NEW p \in Pages, <<p>> \notin raced'
        PROVE  pages'[p].source_modified_at = Latest(OfPage(Items', p))
    <3>1. Items' = Items \o b /\ Items \in Seq(Item)
      <4>1. Items \in Seq(Item)
        BY <1>3, ItemsOfIs DEF Items
      <4>2. Items' = [i \in DOMAIN (committed \o Tagged(b, j)) |->
                         (committed \o Tagged(b, j))[i].item]
        BY <1>2 DEF Items
      <4>3. [i \in DOMAIN Tagged(b, j) |-> Tagged(b, j)[i].item] = b
        BY <1>1, TaggedParts
      <4> QED
        BY <1>3, <4>1, <4>2, <4>3, ItemsOfBoth DEF Items
    <3>2. Latest(OfPage(Items', p)) = Later(Latest(OfPage(Items, p)), Latest(OfPage(b, p)))
      BY <1>1, <3>1, OfPageInBoth
    <3>3. <<p>> \notin raced /\ <<p>> \notin Overtaken(j)
      BY <2>2 DEF Commit
    <3>4. pages[p].source_modified_at = Latest(OfPage(Items, p))
      BY <3>3 DEF BatchInv, RowsTell
    <3>5. CASE p \in PagesOf(b)
      <4>1. pages[p].source_modified_at = snapshot[j].pages[p].source_modified_at
        BY <3>3, <3>5 DEF Overtaken
      <4>2. pages'[p].source_modified_at =
                Later(pages[p].source_modified_at, Latest(OfPage(b, p)))
        BY <3>5, <4>1, CommitPages
      <4> QED
        BY <3>2, <3>4, <4>2
    <3>6. CASE p \notin PagesOf(b)
      <4>1. OfPage(b, p) = {}
        BY <3>6 DEF PagesOf, OfPage
      <4>2. Latest({}) = None
        BY LatestIs, FS_EmptySet
      <4>3. Latest(OfPage(Items, p)) \in Stamp
        BY <3>1, BatchParts, LatestIs
      <4>4. Later(Latest(OfPage(Items, p)), None) = Latest(OfPage(Items, p))
        BY <4>3 DEF Later, Stamp, None
      <4> QED
        BY <1>4, <3>2, <3>4, <3>6, <4>1, <4>2, <4>4
    <3> QED
      BY <3>5, <3>6
  <2> QED
    BY <2>1, <2>2 DEF RowsTell
<1> QED
  BY <1>6, <1>7, <1>8, <1>9, CommitAgrees DEF BatchInv

\* A step that leaves the tables and what was committed alone.
LEMMA TablesStay ==
    ASSUME BatchInv, UNCHANGED <<tables, stats, history>>
    PROVE  /\ Present' = Present /\ Nothing' /\ IsFiniteSet(Present)'
           /\ TablesAgree' /\ RowsTell'
<1>1. UNCHANGED <<pages, sources, stats, committed, raced>>
  BY DEF tables, history
<1>2. Present' = Present
  BY <1>1 DEF Present
<1>3. Nothing'
  BY <1>1, <1>2 DEF BatchInv, Nothing
<1>4. TablesAgree'
  BY <1>1 DEF BatchInv, TablesAgree
<1>5. RowsTell'
  <2>1. Items' = Items
    BY <1>1 DEF Items
  <2> QED
    BY <1>1, <2>1 DEF BatchInv, RowsTell
<1> QED
  BY <1>2, <1>3, <1>4, <1>5 DEF BatchInv

LEMMA ReadInv ==
    ASSUME BatchInv, NEW j \in Jobs, Read(j)
    PROVE  BatchInv'
<1>1. TypeInv /\ pages \in [Pages -> Row]
  BY DEF BatchInv, TypeInv, BatchTypeOK
<1>2. UNCHANGED <<pages, sources, stats, dispatchable, committed, raced>>
  BY DEF Read, tables, history
<1>3. /\ Present' = Present /\ Nothing' /\ IsFiniteSet(Present)'
      /\ TablesAgree' /\ RowsTell'
  BY TablesStay DEF Read
<1>4. PICK b \in Batches :
          /\ batch' = Put(batch, j, b)
          /\ snapshot' = Put(snapshot, j,
                 [pages |-> [p \in PagesOf(b) |-> pages[p]],
                  sources |-> [key \in DOMAIN sources \cap LineagesOf(b) |->
                                  sources[key]]])
  BY DEF Read
<1>5. PagesOf(b) \subseteq Pages
  <2>1. Range(b) \subseteq Item
    BY BatchParts, BatchWriteAssumption
  <2> QED
    BY <2>1 DEF PagesOf, Item
<1>6. TypeInv'
  <2>1. /\ pc' \in [Jobs -> {"idle", "writing", "failed"}]
        /\ batch' \in [Jobs -> Batches \cup {<<>>}]
        /\ snapshot' = [k \in Jobs |-> snapshot'[k]]
    BY <1>1, <1>4 DEF TypeInv, BatchTypeOK, Read, Put
  <2>2. \A k \in Jobs : batch'[k] \in Batches \cup {<<>>}
    BY <2>1
  <2> QED
    BY <1>1, <1>2, <2>1, <2>2 DEF TypeInv, BatchTypeOK
<1>7. ReadOf(j)'
  <2>1. /\ batch'[j] = b
        /\ snapshot'[j].pages = [p \in PagesOf(b) |-> pages[p]]
        /\ snapshot'[j].sources = [key \in DOMAIN sources \cap LineagesOf(b) |-> sources[key]]
    BY <1>1, <1>4 DEF TypeInv, Put
  <2>2. \A p \in PagesOf(b) : IF pages[p].status = "absent" THEN pages[p] = AbsentRow
                                                            ELSE p \in Present
    BY <1>5 DEF BatchInv, Nothing, Present
  <2>3. \A key \in DOMAIN sources : sources[key] \in LineageRow
    BY <1>1 DEF TypeInv, BatchTypeOK
  <2>4. [p \in PagesOf(b) |-> pages[p]] \in [PagesOf(b) -> Row]
    BY <1>1, <1>5
  <2> QED
    BY <1>2, <1>3, <2>1, <2>2, <2>3, <2>4 DEF ReadOf
<1>8. SessionsRead'
  <2>1. ASSUME NEW k \in Jobs, k # j, pc'[k] = "writing" PROVE ReadOf(k)'
    <3>1. pc[k] = "writing" /\ batch'[k] = batch[k] /\ snapshot'[k] = snapshot[k]
      BY <1>1, <1>4, <2>1 DEF TypeInv, BatchTypeOK, Read, Put
    <3>2. ReadOf(k)
      BY <3>1 DEF BatchInv, SessionsRead
    <3> QED
      BY <1>2, <1>3, <3>1, <3>2, ReadStays
  <2> QED
    BY <1>7, <2>1 DEF SessionsRead
<1> QED
  BY <1>3, <1>6, <1>8 DEF BatchInv

LEMMA RollBackInv ==
    ASSUME BatchInv, NEW j \in Jobs, RollBack(j)
    PROVE  BatchInv'
<1>1. TypeInv
  BY DEF BatchInv
<1>2. UNCHANGED <<pages, sources, stats, dispatchable, committed, raced>>
  BY DEF RollBack, tables, history
<1>3. /\ Present' = Present /\ Nothing' /\ IsFiniteSet(Present)'
      /\ TablesAgree' /\ RowsTell'
  BY TablesStay DEF RollBack
<1>4. TypeInv'
  <2>1. /\ pc' \in [Jobs -> {"idle", "writing", "failed"}]
        /\ batch' \in [Jobs -> Batches \cup {<<>>}]
        /\ snapshot' = [k \in Jobs |-> snapshot'[k]]
    BY <1>1 DEF TypeInv, BatchTypeOK, RollBack, CloseSession, Put
  <2>2. \A k \in Jobs : batch'[k] \in Batches \cup {<<>>}
    BY <2>1
  <2> QED
    BY <1>1, <1>2, <2>1, <2>2 DEF TypeInv, BatchTypeOK
<1>5. SessionsRead'
  <2>1. ASSUME NEW k \in Jobs, pc'[k] = "writing" PROVE ReadOf(k)'
    <3>1. k # j /\ pc[k] = "writing"
      BY <1>1, <2>1 DEF TypeInv, BatchTypeOK, RollBack, Put
    <3>2. batch'[k] = batch[k] /\ snapshot'[k] = snapshot[k]
      BY <1>1, <3>1 DEF TypeInv, RollBack, CloseSession, Put
    <3>3. ReadOf(k)
      BY <3>1 DEF BatchInv, SessionsRead
    <3> QED
      BY <1>2, <1>3, <3>2, <3>3, ReadStays
  <2> QED
    BY <2>1 DEF SessionsRead
<1> QED
  BY <1>3, <1>4, <1>5 DEF BatchInv

\* A fetch changes neither which pages have a row nor their edit times.
LEMMA FetchedPage ==
    ASSUME BatchInv, NEW p \in Pages, Fetch(p)
    PROVE  /\ pages' \in [Pages -> Row]
           /\ \A q \in Pages :
                 /\ pages'[q].status = "absent" <=> pages[q].status = "absent"
                 /\ pages'[q].status = "absent" => pages'[q] = pages[q]
                 /\ pages'[q].source_modified_at = pages[q].source_modified_at
                 /\ pages'[q].status = "pending" => pages[q].status = "pending"
<1>1. pages \in [Pages -> Row] /\ pages[p].status = "pending"
  BY DEF BatchInv, TypeInv, BatchTypeOK, Fetch
<1>2. PICK r : /\ pages' = Put(pages, p, r)
               /\ \/ \E now \in Times : r = SuccessRow(pages[p], now, now)
                  \/ r = FailedRow(pages[p], "permanent")
  BY DEF Fetch
<1>3. /\ r \in Row /\ r.status \in {"success", "failed"}
      /\ r.source_modified_at = pages[p].source_modified_at
  <2>1. Times \subseteq Stamp
    BY BatchWriteAssumption DEF Stamp
  <2>2. CASE \E now \in Times : r = SuccessRow(pages[p], now, now)
    BY <1>1, <2>1, <2>2 DEF SuccessRow, Row, Status, ErrorType
  <2>3. CASE r = FailedRow(pages[p], "permanent")
    BY <1>1, <2>3 DEF FailedRow, Row, Status, ErrorType
  <2> QED
    BY <1>2, <2>2, <2>3
<1>4. \A q \in Pages : pages'[q] = IF q = p THEN r ELSE pages[q]
  BY <1>1, <1>2 DEF Put
<1>5. pages' \in [Pages -> Row]
  BY <1>1, <1>2, <1>3 DEF Put
<1> QED
  BY <1>1, <1>3, <1>4, <1>5

LEMMA FetchInv ==
    ASSUME BatchInv, NEW p \in Pages, Fetch(p)
    PROVE  BatchInv'
<1>1. UNCHANGED <<sources, pc, batch, snapshot, stats, dispatchable, committed, raced>>
  BY DEF Fetch, jobs, history
<1>2. Present' = Present
  BY FetchedPage DEF Present
<1>3. TypeInv'
  BY <1>1, FetchedPage DEF BatchInv, TypeInv, BatchTypeOK
<1>4. SessionsRead'
  <2>1. ASSUME NEW k \in Jobs, pc'[k] = "writing" PROVE ReadOf(k)'
    <3>1. ReadOf(k)
      BY <1>1, <2>1 DEF BatchInv, SessionsRead
    <3> QED
      BY <1>1, <1>2, <3>1, ReadStays
  <2> QED
    BY <2>1 DEF SessionsRead
<1>5. Nothing'
  BY <1>1, FetchedPage DEF BatchInv, Nothing, Present
<1>6. TablesAgree'
  <2>1. Present = {key[1] : key \in DOMAIN sources}
    BY DEF BatchInv, TablesAgree, Present
  <2>2. SumFunction([j \in Jobs |-> stats[j].pages_inserted]) = Cardinality(Present)
    BY DEF BatchInv, TablesAgree, Present
  <2>3. SumFunction([j \in Jobs |-> stats[j].observations]) = Len(committed)
    BY DEF BatchInv, TablesAgree
  <2>4. /\ Present' = {key[1] : key \in DOMAIN sources'}
        /\ SumFunction([j \in Jobs |-> stats'[j].pages_inserted]) = Cardinality(Present')
        /\ SumFunction([j \in Jobs |-> stats'[j].observations]) = Len(committed')
    BY <1>1, <1>2, <2>1, <2>2, <2>3
  <2> QED
    BY <2>4 DEF TablesAgree, Present
<1>7. RowsTell'
  <2>1. Items' = Items
    BY <1>1 DEF Items
  <2> QED
    BY <1>1, <2>1, FetchedPage DEF BatchInv, RowsTell
<1> QED
  BY <1>2, <1>3, <1>4, <1>5, <1>6, <1>7 DEF BatchInv

-----------------------------------------------------------------------------
(* The invariant holds *)

LEMMA InitBatch == Init => BatchInv
<1> SUFFICES ASSUME Init PROVE BatchInv
  OBVIOUS
<1> USE DEF Init
<1>1. AbsentRow \in Row
  BY DEF AbsentRow, Row, Status, ErrorType, Stamp
<1>2. NoStats \in Stats
  BY DEF NoStats, Stats
<1>3. DOMAIN sources = {} /\ DOMAIN committed = {} /\ Len(committed) = 0
  OBVIOUS
<1>4. TypeInv
  <2>1. BatchTypeOK
    BY <1>1, <1>3 DEF BatchTypeOK
  <2>2. committed \in Seq(Observation)
    OBVIOUS
  <2>3. stats \in [Jobs -> Stats]
    BY <1>2
  <2>4. batch \in [Jobs -> Batches \cup {<<>>}] /\ snapshot = [j \in Jobs |-> snapshot[j]]
    OBVIOUS
  <2> QED
    BY <2>1, <2>2, <2>3, <2>4 DEF TypeInv
<1>5. SessionsRead
  BY DEF SessionsRead
<1>6. Present = {}
  BY DEF Present, AbsentRow
<1>7. Nothing
  BY <1>3 DEF Nothing
<1>8. IsFiniteSet(Present)
  BY <1>6, FS_EmptySet
<1>9. TablesAgree
  <2> DEFINE inserted == [j \in Jobs |-> stats[j].pages_inserted]
             seen == [j \in Jobs |-> stats[j].observations]
  <2>1. /\ inserted \in [Jobs -> Int] /\ seen \in [Jobs -> Int]
        /\ \A j \in Jobs : inserted[j] = 0 /\ seen[j] = 0
    BY DEF NoStats
  <2>2. IsFiniteSet(Jobs)
    BY BatchWriteAssumption
  <2> HIDE DEF inserted, seen
  <2>3. SumFunction(inserted) = 0 /\ SumFunction(seen) = 0
    BY <2>1, <2>2, SumZero
  <2>4. Present = {key[1] : key \in DOMAIN sources}
    BY <1>3, <1>6
  <2>5. Cardinality(Present) = 0
    BY <1>6, FS_EmptySet
  <2> QED
    BY <1>3, <2>3, <2>4, <2>5 DEF TablesAgree, Present, inserted, seen
<1>10. RowsTell
  <2>1. ASSUME NEW p \in Pages PROVE pages[p].source_modified_at = Latest(OfPage(Items, p))
    <3>1. OfPage(Items, p) = {}
      BY <1>3 DEF OfPage, Items, Range
    <3>2. Latest({}) = None
      BY LatestIs, FS_EmptySet
    <3> QED
      BY <3>1, <3>2 DEF AbsentRow
  <2> QED
    BY <1>3, <2>1 DEF RowsTell
<1> QED
  BY <1>4, <1>5, <1>7, <1>8, <1>9, <1>10 DEF BatchInv

LEMMA StutterInv == BatchInv /\ UNCHANGED vars => BatchInv'
<1> SUFFICES ASSUME BatchInv, UNCHANGED vars PROVE BatchInv'
  OBVIOUS
<1>1. UNCHANGED <<pages, sources, pc, batch, snapshot, stats, dispatchable, committed, raced>>
  BY DEF vars, tables, jobs, history
<1>2. /\ Present' = Present /\ Nothing' /\ IsFiniteSet(Present)'
      /\ TablesAgree' /\ RowsTell'
  BY <1>1, TablesStay DEF tables, history
<1>3. TypeInv'
  BY <1>1 DEF BatchInv, TypeInv, BatchTypeOK
<1>4. SessionsRead'
  BY <1>1, <1>2, ReadStays DEF BatchInv, SessionsRead
<1> QED
  BY <1>2, <1>3, <1>4 DEF BatchInv

LEMMA NextBatch == BatchInv /\ [Next]_vars => BatchInv'
BY ReadInv, CommitInv, RollBackInv, FetchInv, StutterInv DEF Next, Write, Terminated

LEMMA BatchKept == Spec => []BatchInv
BY InitBatch, NextBatch, PTL DEF Spec

\* BatchTypeOK holds, for all jobs, pages and batches.
THEOREM BatchTypes == Spec => []BatchTypeOK
<1>1. BatchInv => BatchTypeOK
  BY DEF BatchInv, TypeInv
<1> QED
  BY <1>1, BatchKept, PTL

\* TablesAgree: write_discovered_batch writes both tables or neither, and its
\* counters add up to what is in them, however many jobs write at once.
THEOREM OneTransaction == Spec => []TablesAgree
<1>1. BatchInv => TablesAgree
  BY DEF BatchInv
<1> QED
  BY <1>1, BatchKept, PTL

\* RowsTellHistory: every lineage row names the source page and the run of its
\* first committed item; rows that were not raced also name those of the last
\* one and the latest edit time.
THEOREM RowsAreHistory == Spec => []RowsTellHistory
<1>1. BatchInv => RowsTellHistory
  <2> SUFFICES ASSUME BatchInv PROVE RowsTellHistory
    OBVIOUS
  <2>1. committed \in Seq(Observation)
    BY DEF BatchInv, TypeInv
  <2>2. \A key : OfLineage(Items, key) = NotesOf(committed, key)
    BY DEF Items, OfLineage, NotesOf
  <2>3. \A i \in DOMAIN committed : Items[i] = committed[i].item
    BY DEF Items
  <2>4. \A key : ToldOf(committed, key) = {Items[i] : i \in NotesOf(committed, key)}
    BY <2>3 DEF ToldOf, NotesOf
  <2>5. ASSUME NEW key \in DOMAIN sources
        PROVE  LET notes == OfLineage(Items, key)
               IN  /\ notes # {}
                   /\ sources[key].first_seen_page = Items[Min(notes)].source_page
                   /\ sources[key].first_run = committed[Min(notes)].run
                   /\ key \notin raced =>
                         /\ sources[key].last_seen_page = Items[Max(notes)].source_page
                         /\ sources[key].last_run = committed[Max(notes)].run
                         /\ sources[key].source_modified_at =
                                Latest({Items[i] : i \in notes})
    <3> DEFINE notes == NotesOf(committed, key)
    <3>1. /\ TellsFirst(sources[key], committed, key)
          /\ key \notin raced => TellsLast(sources[key], committed, key)
      BY DEF BatchInv, RowsTell
    <3>2. /\ notes # {} /\ notes \subseteq DOMAIN committed
          /\ Min(notes) \in notes /\ Max(notes) \in notes
      BY <2>1, <3>1, NotesParts DEF TellsFirst
    <3> QED
      BY <2>2, <2>3, <2>4, <3>1, <3>2 DEF TellsFirst, TellsLast
  <2>6. \A p \in {q \in Pages : <<q>> \notin raced} :
            pages[p].source_modified_at = Latest(OfPage(Items, p))
    BY DEF BatchInv, RowsTell
  <2> QED
    BY <2>5, <2>6 DEF RowsTellHistory, Items
<1> QED
  BY <1>1, BatchKept, PTL

\* NoSilentPending: the commit that makes a page pending reports it.
THEOREM PendingIsReported == Spec => NoSilentPending
<1> DEFINE Reported ==
        \A p \in Pages :
            pages[p].status # "pending" /\ pages'[p].status = "pending" =>
                \E j \in Jobs : stats'[j] # stats[j] /\ p \in dispatchable'[j]
<1>1. BatchInv /\ [Next]_vars => [Reported]_vars
  <2> SUFFICES ASSUME BatchInv, Next PROVE Reported
    OBVIOUS
  <2>1. CASE UNCHANGED pages
    BY <2>1
  <2>2. ASSUME NEW j \in Jobs, Commit(j) PROVE Reported
    <3>1. PagesOf(batch[j]) \subseteq Pages
      BY <2>2, WritingParts DEF Commit
    <3>2. stats'[j] # stats[j]
      BY <2>2, CommitStats
    <3>3. /\ \A p \in Pages \ PagesOf(batch[j]) : pages'[p] = pages[p]
          /\ \A p \in PagesOf(batch[j]) :
                pages[p].status # "pending" /\ pages'[p].status = "pending" =>
                    p \in dispatchable'[j]
      BY <2>2, CommitPages
    <3> QED
      BY <3>2, <3>3
  <2>3. ASSUME NEW p \in Pages, Fetch(p) PROVE Reported
    <3>1. \A q \in Pages : pages'[q].status = "pending" => pages[q].status = "pending"
      BY <2>3, FetchedPage
    <3> QED
      BY <3>1
  <2> HIDE DEF Reported
  <2>4. ASSUME NEW j \in Jobs, Read(j) \/ RollBack(j) PROVE UNCHANGED pages
    BY <2>4 DEF Read, RollBack, tables
  <2>5. Terminated => UNCHANGED pages
    BY DEF Terminated, vars, tables
  <2> QED
    BY <2>1, <2>2, <2>3, <2>4, <2>5 DEF Next, Write
<1> QED
  BY <1>1, BatchKept, PTL DEF Spec, NoSilentPending
=============================================================================
