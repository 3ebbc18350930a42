---------------------------- MODULE SitemapProofs ----------------------------
(***************************************************************************)
(* Proofs about the sitemap walk: the limits it keeps, that no page and no *)
(* document is taken twice, and that a complete walk is complete.          *)
(***************************************************************************)
EXTENDS Sitemap, DataLemmas

\* What is collected from the documents.
PageFound == [entry : Entry, page : PageIdentity, source : Url,
              source_modified_at : Int]

PagesIn(s) == {s[i].page : i \in DOMAIN s}

TypeInv ==
    /\ SitemapTypeOK
    /\ batch \in Seq(PageFound)
    /\ listed \in Seq(PageFound)
    /\ served = [d \in DOMAIN served |-> served[d]]
    /\ \A d \in DOMAIN served : served[d] \in Seq(Entry)

\* What the document in hand is to the rest of the state.
InHand ==
    /\ attempt > 0 => /\ outcome = "running"
                      /\ document # NoDocument
                      /\ document \notin DOMAIN served
                      /\ documents_seen < MaxDocuments
                      /\ entries = <<>> /\ batch = <<>>
    /\ document = NoDocument => entries = <<>> /\ batch = <<>>
    /\ attempt = 0 /\ outcome = "running" /\ document # NoDocument =>
           /\ document \in DOMAIN served
           /\ Range(entries) \subseteq Range(served[document])
    /\ outcome # "running" => attempt = 0
    /\ outcome = "queue_exhausted" =>
           document = NoDocument /\ queue = <<>> /\ ~limit_hit
    /\ visited \subseteq DOMAIN served \cup {document}

\* What is collected is of the document in hand, and only a malformed
\* location of it ends the walk before it is handed over.
Collected ==
    batch # <<>> =>
        /\ document \in DOMAIN served
        /\ \A i \in DOMAIN batch : batch[i].entry \in Range(served[document])
        /\ outcome # "running" =>
               /\ outcome = "error"
               /\ \E e \in Range(served[document]) : ~Readable(e.url)

\* A page is known by the entry that names it, and is collected once.
PagesSound ==
    /\ \A i \in DOMAIN listed : listed[i].page = IdentityFromUrl(listed[i].entry.url)
    /\ \A i \in DOMAIN batch : batch[i].page = IdentityFromUrl(batch[i].entry.url)
    /\ \A i, j \in DOMAIN listed : listed[i].page = listed[j].page => i = j
    /\ \A i, j \in DOMAIN batch : batch[i].page = batch[j].page => i = j
    /\ PagesIn(listed) \cap PagesIn(batch) = {}
    /\ seen = PagesIn(listed) \cup PagesIn(batch)

NamedIn(d) == {IdentityFromUrl(e.url) : e \in Range(served[d])} \ {NoIdentity}

\* The walk has followed an entry: its page is listed, its document visited
\* or waiting.
Followed(e) ==
    /\ IdentityFromUrl(e.url) # NoIdentity => IdentityFromUrl(e.url) \in seen
    /\ IdentityFromUrl(e.url) = NoIdentity /\ IsAllowedSitemap(e.url) =>
           StripQueryAndFragment(e.url) \in visited \cup Range(queue)

\* Nothing is forgotten but what a limit cuts off.
Covered ==
    /\ AllowedRoots \subseteq visited \cup Range(queue)
    /\ seen \subseteq UNION {NamedIn(d) : d \in DOMAIN served}
    /\ limit_hit \/
       \A d \in DOMAIN served : \A e \in Range(served[d]) :
           Followed(e) \/ (d = document /\ e \in Range(entries))

\* A set of documents closed under the links read so far.
Closed(S) ==
    /\ AllowedRoots \subseteq S
    /\ \A c \in S \cap DOMAIN served : Links(c) \subseteq S

\* The walk leaves no such set: it visits nothing but what can be reached.
Necessary ==
    \A S \in SUBSET Url :
        Closed(S) => /\ visited \subseteq S
                     /\ \A u \in Range(queue) : IsAllowedSitemap(u) => u \in S

WalkInv == TypeInv /\ InHand /\ Collected /\ PagesSound /\ Covered /\ Necessary
-----------------------------------------------------------------------------
(* The operators of the model *)

LEMMA StripKeeps ==
    ASSUME NEW u \in Url
    PROVE  /\ StripQueryAndFragment(u) \in Url
           /\ IdentityFromUrl(StripQueryAndFragment(u)) = IdentityFromUrl(u)
           /\ IsAllowedSitemap(StripQueryAndFragment(u)) <=> IsAllowedSitemap(u)
BY DEF StripQueryAndFragment, Url, IdentityFromUrl, IsAllowedSitemap

LEMMA IdentityType ==
    ASSUME NEW u \in Url, IdentityFromUrl(u) # NoIdentity
    PROVE  IdentityFromUrl(u) \in PageIdentity
BY DEF Url, IdentityFromUrl, PageIdentity, NoIdentity

LEMMA NoDocumentIsNone == NoDocument \notin Url
BY DEF NoDocument, Url

LEMMA LastmodType ==
    ASSUME NEW lastmod \in Lastmod
    PROVE  ParseLastmod(lastmod) \in Int
<1>1. HostOffset \in Int /\ lastmod.at \in Int
  BY SitemapAssumption DEF Lastmod
<1>2. lastmod.at \div 24 \in Int
  BY <1>1
<1>3. lastmod.form \in {"absent", "naive", "zoned", "dated"}
  BY DEF Lastmod
<1> QED
  BY <1>1, <1>2, <1>3 DEF ParseLastmod, NoTime

LEMMA FoundType ==
    ASSUME NEW e \in Entry, IdentityFromUrl(e.url) # NoIdentity,
           document \in Url
    PROVE  Found(e) \in PageFound
<1>1. e.url \in Url /\ e.lastmod \in Lastmod
  BY DEF Entry
<1> QED
  BY <1>1, IdentityType, LastmodType DEF Found, PageFound

-----------------------------------------------------------------------------
(* Types *)

LEMMA TypeInit == Init => TypeInv
<1> SUFFICES ASSUME Init PROVE TypeInv
  OBVIOUS
<1>1. queue \in Seq(Url)
  <2>1. \A i \in 1..Len(Roots) : Roots[i] \in Url
    BY SitemapAssumption, ElementOfSeq
  <2>2. Len(Roots) \in Nat
    BY SitemapAssumption
  <2> QED
    BY <2>1, <2>2, StripKeeps DEF Init
<1>2. /\ DOMAIN served = {}
      /\ served = [d \in DOMAIN served |-> served[d]]
  BY DEF Init
<1>3. batch \in Seq(PageFound) /\ listed \in Seq(PageFound)
      /\ entries \in Seq(Entry) /\ Len(batch) = 0 /\ Len(listed) = 0
  BY DEF Init
<1>4. 0 \in 0..MaxDocuments /\ 0 \in 0..MaxUrls /\ 0 < EmitBatchSize
  BY SitemapAssumption
<1>5. limit_hit \in BOOLEAN
  BY Zenon DEF Init
<1>6. /\ document \in visited \cup {NoDocument}
      /\ attempt \in 0..MaxRequestAttempts
      /\ outcome \in {"running", "error", "max_urls", "max_documents",
                      "queue_exhausted"}
  BY DEF Init, MaxRequestAttempts
<1>7. SitemapTypeOK
  BY <1>1, <1>2, <1>3, <1>4, <1>5, <1>6 DEF Init, SitemapTypeOK
<1> QED
  BY <1>2, <1>3, <1>7 DEF Init, TypeInv
\* What the emission of a batch does to the sequences.
LEMMA EmitType ==
    ASSUME TypeInv, NEW found \in Seq(PageFound), Emit(found)
    PROVE  /\ batch' = <<>> /\ batch' \in Seq(PageFound) /\ Len(batch') = 0
           /\ listed' \in Seq(PageFound) /\ accepted' = Len(listed')
<1>1. listed \in Seq(PageFound) /\ accepted = Len(listed)
  BY DEF TypeInv, SitemapTypeOK
<1>2. /\ listed' = listed \o found /\ accepted' = accepted + Len(found)
      /\ batch' = <<>>
  BY DEF Emit
<1> QED
  BY <1>1, <1>2, ConcatProperties

\* A page is read from an entry.
LEMMA ReadPageType ==
    ASSUME TypeInv, NEW e \in Entry, document \in Url, ReadPage(e)
    PROVE  /\ seen' \subseteq PageIdentity
           /\ batch' \in Seq(PageFound) /\ Len(batch') < EmitBatchSize
           /\ listed' \in Seq(PageFound) /\ accepted' = Len(listed')
           /\ queue' = queue
<1>1. /\ batch \in Seq(PageFound) /\ listed \in Seq(PageFound)
      /\ accepted = Len(listed) /\ seen \subseteq PageIdentity
  BY DEF TypeInv, SitemapTypeOK
<1>2. IdentityFromUrl(e.url) # NoIdentity /\ e.url \in Url
  BY DEF ReadPage, Entry
<1>3. Found(e) \in PageFound /\ IdentityFromUrl(e.url) \in PageIdentity
  BY <1>2, FoundType, IdentityType
<1>4. Append(batch, Found(e)) \in Seq(PageFound)
      /\ Len(Append(batch, Found(e))) = Len(batch) + 1
  BY <1>1, <1>3, AppendProperties
<1>5. EmitBatchSize \in Nat \ {0} /\ Len(batch) \in Nat
  BY <1>1, SitemapAssumption
<1>6. CASE Emit(Append(batch, Found(e)))
  <2>1. /\ batch' = <<>> /\ batch' \in Seq(PageFound) /\ Len(batch') = 0
        /\ listed' \in Seq(PageFound) /\ accepted' = Len(listed')
    BY <1>4, <1>6, EmitType
  <2> QED
    BY <1>1, <1>3, <1>5, <2>1 DEF ReadPage
<1>7. CASE /\ Len(batch) + 1 < EmitBatchSize
           /\ batch' = Append(batch, Found(e))
           /\ UNCHANGED <<listed, accepted>>
  BY <1>1, <1>3, <1>4, <1>5, <1>7 DEF ReadPage
<1> QED
  BY <1>6, <1>7 DEF ReadPage

LEMMA TypeStep ==
    ASSUME TypeInv, InHand, [Next]_vars
    PROVE  TypeInv'
<1> USE DEF TypeInv, SitemapTypeOK
<1>0. /\ MaxDocuments \in Nat /\ MaxUrls \in Nat /\ EmitBatchSize \in Nat \ {0}
      /\ NoDocument \notin Url
  BY SitemapAssumption, NoDocumentIsNone
<1>1. CASE Skip
  <2>1. queue' \in Seq(Url)
    BY <1>1, HeadAndTail DEF Skip, MayVisit
  <2> QED
    BY <1>1, <2>1 DEF Skip, counts, pages
<1>2. CASE Visit
  <2>1. queue' \in Seq(Url) /\ Head(queue) \in Url /\ IsAllowedSitemap(Head(queue))
    BY <1>2, HeadAndTail DEF Visit, MayVisit, Skippable
  <2>2. /\ visited' \subseteq {u \in Url : IsAllowedSitemap(u)}
        /\ document' \in visited' \cup {NoDocument}
        /\ DOMAIN served' \subseteq visited'
    BY <1>2, <2>1 DEF Visit
  <2> QED
    BY <1>2, <2>1, <2>2 DEF Visit, counts, pages, MaxRequestAttempts
<1>3. CASE RetryDocument
  <2>1. attempt' \in 0..MaxRequestAttempts
    BY <1>3 DEF RetryDocument, RetriesRequest, MaxRequestAttempts
  <2> QED
    BY <1>3, <2>1 DEF RetryDocument, walk, counts, pages
<1>4. CASE DocumentFails
  BY <1>4 DEF DocumentFails, walk, counts, pages, MaxRequestAttempts
<1>5. CASE DocumentArrives
  <2>1. documents_seen' \in 0..MaxDocuments /\ document \in visited
    BY <1>0, <1>5 DEF DocumentArrives, InHand
  <2>2. PICK content \in Contents :
          /\ entries' = content
          /\ served' = [d \in DOMAIN served \cup {document} |->
                           IF d = document THEN content ELSE served[d]]
    BY <1>5 DEF DocumentArrives
  <2>3. content \in Seq(Entry)
    BY SitemapAssumption
  <2>4. /\ DOMAIN served' = DOMAIN served \cup {document}
        /\ served' = [d \in DOMAIN served' |-> served'[d]]
        /\ \A d \in DOMAIN served' : served'[d] \in Seq(Entry)
    BY <2>2, <2>3
  <2> QED
    BY <1>5, <2>1, <2>2, <2>3, <2>4
       DEF DocumentArrives, walk, pages, MaxRequestAttempts
<1>6. CASE DocumentUnreadable
  <2>1. documents_seen' \in 0..MaxDocuments
    BY <1>0, <1>6 DEF DocumentUnreadable, InHand
  <2> QED
    BY <1>6, <2>1 DEF DocumentUnreadable, walk, pages, MaxRequestAttempts
<1>7. CASE ReadEntry
  <2>1. /\ urls_seen' \in 0..MaxUrls /\ document \in Url
        /\ Head(entries) \in Entry /\ entries' \in Seq(Entry)
    <3>1. entries # <<>> /\ entries' = Tail(entries)
      BY <1>7 DEF ReadEntry, TakeEntry
    <3>2. Head(entries) \in Entry /\ Tail(entries) \in Seq(Entry)
      BY <3>1, HeadAndTail
    <3> QED
      BY <1>0, <1>7, <3>1, <3>2 DEF ReadEntry, TakeEntry, Reading
  <2>2. TakeEntry
    BY <1>7 DEF ReadEntry
  <2>3. CASE ReadPage(Head(entries))
    <3> USE <2>3
    <3>1. /\ seen' \subseteq PageIdentity
          /\ batch' \in Seq(PageFound) /\ Len(batch') < EmitBatchSize
          /\ listed' \in Seq(PageFound) /\ accepted' = Len(listed')
          /\ queue' = queue
      BY ONLY TypeInv, <2>1, <2>3, ReadPageType
    <3> QED
      BY <2>1, <2>2, <3>1 DEF TakeEntry
  <2>4. CASE ReadSitemap(Head(entries))
    <3>1. StripQueryAndFragment(Head(entries).url) \in Url
      BY <2>1, StripKeeps DEF Entry
    <3>2. queue' \in Seq(Url)
      BY <2>4, <3>1, RangeOfAppend DEF ReadSitemap
    <3> QED
      BY <2>1, <2>2, <2>4, <3>2 DEF ReadSitemap, TakeEntry, pages
  <2>5. CASE PassOver(Head(entries))
    BY <2>1, <2>2, <2>5 DEF PassOver, TakeEntry, pages
  <2> QED
    BY <1>7, <2>3, <2>4, <2>5 DEF ReadEntry
<1>8. CASE HitUrlLimit
  <2>1. entries' \in Seq(Entry)
    BY <1>8 DEF HitUrlLimit
  <2>2. limit_hit' \in BOOLEAN
    BY <1>8 DEF HitUrlLimit
  <2> QED
    BY <1>8, <2>1, <2>2 DEF HitUrlLimit, walk, pages
<1>9. CASE EndDocument
  <2>1. /\ batch' = <<>> /\ batch' \in Seq(PageFound) /\ Len(batch') = 0
        /\ listed' \in Seq(PageFound) /\ accepted' = Len(listed')
    BY ONLY TypeInv, <1>9, EmitType DEF EndDocument, TypeInv
  <2> QED
    BY <1>0, <1>9, <2>1 DEF EndDocument
<1>10. CASE Finish
  BY <1>10 DEF Finish, StopReason, walk, counts, pages
<1>11. CASE EntryRaises
  BY <1>0, <1>11 DEF EntryRaises, Reading, walk, counts, pages
<1>12. CASE UNCHANGED vars
  BY <1>12 DEF vars, walk, counts, pages
<1> QED
  BY <1>1, <1>2, <1>3, <1>4, <1>5, <1>6, <1>7, <1>8, <1>9, <1>10, <1>11, <1>12
     DEF Next, Terminated
-----------------------------------------------------------------------------
(* The document in hand *)

LEMMA InHandInit == Init => InHand
<1> SUFFICES ASSUME Init PROVE InHand
  OBVIOUS
<1> QED
  BY DEF Init, InHand

LEMMA InHandStep ==
    ASSUME TypeInv, InHand, [Next]_vars
    PROVE  InHand'
<1> USE DEF InHand
<1>0. /\ MaxDocuments \in Nat /\ documents_seen \in Nat /\ attempt \in Nat
      /\ visited \subseteq Url /\ NoDocument \notin Url
      /\ DOMAIN served \subseteq visited
  BY SitemapAssumption, NoDocumentIsNone
     DEF TypeInv, SitemapTypeOK, MaxRequestAttempts
<1>1. CASE Skip
  BY <1>0, <1>1 DEF Skip, Walking, counts, pages
<1>2. CASE Visit
  <2>1. /\ Head(queue) \in Url /\ Head(queue) \notin visited
        /\ documents_seen < MaxDocuments /\ outcome = "running"
        /\ document = NoDocument
    BY <1>2, HeadAndTail
       DEF Visit, Walking, MayVisit, Skippable, TypeInv, SitemapTypeOK
  <2> QED
    BY <1>0, <1>2, <2>1 DEF Visit, counts, pages
<1>3. CASE RetryDocument
  BY <1>0, <1>3 DEF RetryDocument, walk, counts, pages
<1>4. CASE DocumentFails
  BY <1>0, <1>4 DEF DocumentFails, walk, counts, pages
<1>5. CASE DocumentArrives
  <2>1. PICK content \in Contents :
          /\ entries' = content
          /\ served' = [d \in DOMAIN served \cup {document} |->
                           IF d = document THEN content ELSE served[d]]
    BY <1>5 DEF DocumentArrives
  <2>2. served'[document] = entries' /\ DOMAIN served' = DOMAIN served \cup {document}
    BY <2>1
  <2>3. document' = document /\ Range(entries') \subseteq Range(served'[document])
    BY <1>5, <2>2 DEF DocumentArrives, walk
  <2> QED
    BY <1>0, <1>5, <2>2, <2>3 DEF DocumentArrives, walk, pages
<1>6. CASE DocumentUnreadable
  BY <1>0, <1>6 DEF DocumentUnreadable, walk, pages
<1>7. CASE ReadEntry
  <2>1. /\ attempt = 0 /\ outcome = "running" /\ document # NoDocument
        /\ UNCHANGED <<visited, document, documents_seen, limit_hit, attempt,
                       outcome, served>>
    BY <1>7 DEF ReadEntry, TakeEntry, Reading
  <2>2. Range(entries') \subseteq Range(entries)
    BY <1>7, HeadAndTail DEF ReadEntry, TakeEntry, TypeInv, SitemapTypeOK
  <2> QED
    BY <1>0, <2>1, <2>2
<1>8. CASE HitUrlLimit
  <2>1. Range(entries') = {}
    BY <1>8 DEF HitUrlLimit, Range
  <2> QED
    BY <1>0, <1>8, <2>1 DEF HitUrlLimit, Reading, walk
<1>9. CASE EndDocument
  BY <1>0, <1>9 DEF EndDocument, Reading, Emit
<1>10. CASE Finish
  <2>1. outcome' = "queue_exhausted" => queue = <<>> /\ ~limit_hit
    BY <1>10 DEF Finish, StopReason
  <2> QED
    BY <1>0, <1>10, <2>1 DEF Finish, Walking, StopReason, walk, counts, pages
<1>11. CASE EntryRaises
  BY <1>0, <1>11 DEF EntryRaises, Reading, walk, counts, pages
<1>12. CASE UNCHANGED vars
  BY <1>12 DEF vars, walk, counts, pages
<1> QED
  BY <1>1, <1>2, <1>3, <1>4, <1>5, <1>6, <1>7, <1>8, <1>9, <1>10, <1>11, <1>12
     DEF Next, Terminated

LEMMA CollectedStep ==
    ASSUME TypeInv, InHand, Collected, [Next]_vars
    PROVE  Collected'
<1>1. /\ batch \in Seq(PageFound) /\ entries \in Seq(Entry)
      /\ EmitBatchSize \in Nat \ {0}
  BY SitemapAssumption DEF TypeInv, SitemapTypeOK
<1>2. CASE ReadPage(Head(entries)) /\ ReadEntry
  <2>1. /\ document \in DOMAIN served /\ outcome = "running"
        /\ Head(entries) \in Range(served[document]) /\ Head(entries) \in Entry
        /\ UNCHANGED <<document, served, outcome>>
    BY <1>1, <1>2, HeadAndTail DEF ReadEntry, TakeEntry, Reading, InHand
  <2>2. CASE batch' = <<>>
    BY <2>2 DEF Collected
  <2>3. CASE batch' = Append(batch, Found(Head(entries)))
    <3>1. /\ Found(Head(entries)) \in PageFound
          /\ Found(Head(entries)).entry = Head(entries)
      <4>1. document \in Url /\ IdentityFromUrl(Head(entries).url) # NoIdentity
        BY <1>2, <2>1 DEF TypeInv, SitemapTypeOK, ReadPage
      <4> QED
        BY <2>1, <4>1, FoundType DEF Found
    <3>2. \A i \in DOMAIN batch' :
              \/ batch'[i] = Found(Head(entries))
              \/ i \in DOMAIN batch /\ batch'[i] = batch[i]
      <4>1. PICK found \in PageFound : found = Found(Head(entries))
        BY <3>1
      <4> QED
        BY <1>1, <2>3, <4>1, AppendParts
    <3>3. \A i \in DOMAIN batch : batch[i].entry \in Range(served[document])
      BY DEF Collected
    <3> QED
      BY <2>1, <3>1, <3>2, <3>3 DEF Collected
  <2> QED
    BY <1>2, <2>2, <2>3 DEF ReadPage, Emit
<1>3. CASE ~(ReadPage(Head(entries)) /\ ReadEntry) /\ batch # <<>>
  <2>1. /\ attempt = 0 /\ document # NoDocument /\ document \in DOMAIN served
    BY <1>3 DEF InHand, Collected, TypeInv, SitemapTypeOK, MaxRequestAttempts
  <2>2. CASE EndDocument
    BY <2>2 DEF EndDocument, Emit, Collected
  <2>3. CASE EntryRaises
    <3>1. /\ Head(entries) \in Range(served[document]) /\ ~Readable(Head(entries).url)
      BY <1>1, <2>3, HeadAndTail DEF EntryRaises, Reading, InHand
    <3> QED
      BY <2>3, <3>1 DEF EntryRaises, Collected, walk, pages
  <2>4. CASE ~EndDocument /\ ~EntryRaises
    <3>1. UNCHANGED <<batch, document, served, outcome>>
      BY <1>3, <2>1, <2>4
         DEF Next, vars, Skip, Visit, Walking, RetryDocument, DocumentFails,
             DocumentArrives, DocumentUnreadable, ReadEntry, TakeEntry,
             ReadSitemap, PassOver, HitUrlLimit, Finish, Terminated, walk, pages
    <3> QED
      BY <3>1 DEF Collected
  <2> QED
    BY <2>2, <2>3, <2>4
<1>4. CASE ~(ReadPage(Head(entries)) /\ ReadEntry) /\ batch = <<>>
  <2>1. batch' = <<>>
    BY <1>4
       DEF Next, vars, Skip, Visit, RetryDocument, DocumentFails,
           DocumentArrives, DocumentUnreadable, ReadEntry, ReadSitemap,
           PassOver, EntryRaises, HitUrlLimit, EndDocument, Emit, Finish,
           Terminated, pages
  <2> QED
    BY <2>1 DEF Collected
<1> QED
  BY <1>2, <1>3, <1>4

-----------------------------------------------------------------------------
(* The pages collected *)

LEMMA PagesInit == Init => PagesSound
<1> SUFFICES ASSUME Init PROVE PagesSound
  OBVIOUS
<1>1. DOMAIN listed = {} /\ DOMAIN batch = {} /\ seen = {}
  BY DEF Init
<1> QED
  BY <1>1 DEF PagesSound, PagesIn

\* Handing over what was collected moves it.
LEMMA EmitPages ==
    ASSUME TypeInv, NEW found \in Seq(PageFound), Emit(found),
           \A i \in DOMAIN listed : listed[i].page = IdentityFromUrl(listed[i].entry.url),
           \A i \in DOMAIN found : found[i].page = IdentityFromUrl(found[i].entry.url),
           \A i, j \in DOMAIN listed : listed[i].page = listed[j].page => i = j,
           \A i, j \in DOMAIN found : found[i].page = found[j].page => i = j,
           PagesIn(listed) \cap PagesIn(found) = {},
           seen' = PagesIn(listed) \cup PagesIn(found)
    PROVE  PagesSound'
<1>1. /\ listed \in Seq(PageFound) /\ listed' = listed \o found /\ batch' = <<>>
  BY DEF TypeInv, Emit
<1>2. /\ Len(listed) \in Nat /\ DOMAIN listed \subseteq Nat
      /\ DOMAIN found \subseteq Nat
      /\ \A i \in DOMAIN listed' :
            \/ i \in DOMAIN listed /\ listed'[i] = listed[i]
            \/ \E k \in DOMAIN found :
                  i = Len(listed) + k /\ listed'[i] = found[k]
      /\ \A i \in DOMAIN listed : i \in DOMAIN listed' /\ listed'[i] = listed[i]
      /\ \A k \in DOMAIN found : /\ Len(listed) + k \in DOMAIN listed'
                                 /\ listed'[Len(listed) + k] = found[k]
  BY <1>1, ConcatParts, LenProperties
<1>3. DOMAIN batch' = {}
  BY <1>1
<1>4. PagesIn(listed') = PagesIn(listed) \cup PagesIn(found)
  <2>1. ASSUME NEW i \in DOMAIN listed'
        PROVE  listed'[i].page \in PagesIn(listed) \cup PagesIn(found)
    BY <1>2 DEF PagesIn
  <2>2. ASSUME NEW i \in DOMAIN listed PROVE listed[i].page \in PagesIn(listed')
    BY <1>2 DEF PagesIn
  <2>3. ASSUME NEW k \in DOMAIN found PROVE found[k].page \in PagesIn(listed')
    <3>1. /\ Len(listed) + k \in DOMAIN listed'
          /\ listed'[Len(listed) + k].page = found[k].page
      BY <1>2
    <3> QED
      BY <3>1 DEF PagesIn
  <2>4. PagesIn(listed') \subseteq PagesIn(listed) \cup PagesIn(found)
    BY <2>1 DEF PagesIn
  <2>5. PagesIn(listed) \subseteq PagesIn(listed')
    BY <2>2 DEF PagesIn
  <2>6. PagesIn(found) \subseteq PagesIn(listed')
    BY <2>3 DEF PagesIn
  <2> QED
    BY <2>4, <2>5, <2>6
<1>5. ASSUME NEW i \in DOMAIN listed'
      PROVE  listed'[i].page = IdentityFromUrl(listed'[i].entry.url)
  BY <1>2
<1>6. ASSUME NEW i \in DOMAIN listed', NEW j \in DOMAIN listed',
             listed'[i].page = listed'[j].page
      PROVE  i = j
  <2>1. CASE i \in DOMAIN listed /\ j \in DOMAIN listed
    BY <2>1, <1>2, <1>6
  <2>2. ASSUME NEW k \in DOMAIN found, listed'[i] = found[k], j \in DOMAIN listed
        PROVE  FALSE
    <3>1. listed[j].page \in PagesIn(listed) /\ found[k].page \in PagesIn(found)
      BY <2>2 DEF PagesIn
    <3>2. found[k].page = listed[j].page
      BY <2>2, <1>2, <1>6
    <3> QED
      BY <3>1, <3>2
  <2>3. ASSUME NEW k \in DOMAIN found, listed'[j] = found[k], i \in DOMAIN listed
        PROVE  FALSE
    <3>1. listed[i].page \in PagesIn(listed) /\ found[k].page \in PagesIn(found)
      BY <2>3 DEF PagesIn
    <3>2. found[k].page = listed[i].page
      BY <2>3, <1>2, <1>6
    <3> QED
      BY <3>1, <3>2
  <2>4. ASSUME NEW k \in DOMAIN found, NEW l \in DOMAIN found,
               i = Len(listed) + k, listed'[i] = found[k],
               j = Len(listed) + l, listed'[j] = found[l]
        PROVE  i = j
    BY <2>4, <1>6
  <2> QED
    BY <1>2, <2>1, <2>2, <2>3, <2>4
<1>7. PagesIn(batch') = {}
  BY <1>3 DEF PagesIn
<1> QED
  BY <1>3, <1>4, <1>5, <1>6, <1>7 DEF PagesSound
\* A page that is collected was not listed or collected before.
LEMMA ReadPageSound ==
    ASSUME TypeInv, PagesSound, NEW e \in Entry, document \in Url, ReadPage(e)
    PROVE  PagesSound'
<1> USE DEF PagesSound
<1> DEFINE more == Append(batch, Found(e))
           page == IdentityFromUrl(e.url)
<1>1. /\ page \notin seen /\ page # NoIdentity /\ seen' = seen \cup {page}
      /\ \/ Emit(more)
         \/ batch' = more /\ listed' = listed
  BY DEF ReadPage
<1>2. batch \in Seq(PageFound) /\ Found(e) \in PageFound
  BY <1>1, FoundType DEF TypeInv
<1>3. Found(e).page = page /\ Found(e).entry = e
  BY DEF Found
<1>4. /\ more \in Seq(PageFound)
      /\ DOMAIN more = DOMAIN batch \cup {Len(batch) + 1}
      /\ Len(batch) + 1 \notin DOMAIN batch
      /\ \A i \in DOMAIN batch : more[i] = batch[i]
      /\ more[Len(batch) + 1] = Found(e)
  BY <1>2, AppendParts
<1> HIDE DEF more, page
<1>5. /\ page \notin PagesIn(batch) /\ page \notin PagesIn(listed)
      /\ \A i \in DOMAIN batch : batch[i].page # page
  BY <1>1 DEF PagesIn
<1>6. PagesIn(more) = PagesIn(batch) \cup {page}
  <2>1. ASSUME NEW i \in DOMAIN more PROVE more[i].page \in PagesIn(batch) \cup {page}
    BY <1>3, <1>4 DEF PagesIn
  <2>2. ASSUME NEW i \in DOMAIN batch PROVE batch[i].page \in PagesIn(more)
    BY <1>4 DEF PagesIn
  <2>3. page \in PagesIn(more)
    BY <1>3, <1>4 DEF PagesIn
  <2>4. PagesIn(more) \subseteq PagesIn(batch) \cup {page}
    BY <2>1 DEF PagesIn
  <2>5. PagesIn(batch) \subseteq PagesIn(more)
    BY <2>2 DEF PagesIn
  <2> QED
    BY <2>3, <2>4, <2>5
<1>7. /\ \A i \in DOMAIN more : more[i].page = IdentityFromUrl(more[i].entry.url)
      /\ PagesIn(listed) \cap PagesIn(more) = {}
      /\ seen' = PagesIn(listed) \cup PagesIn(more)
  BY <1>1, <1>3, <1>4, <1>5, <1>6 DEF page
<1>8. \A i, j \in DOMAIN more : more[i].page = more[j].page => i = j
  BY <1>3, <1>4, <1>5
<1>9. CASE Emit(more)
  BY <1>4, <1>7, <1>8, <1>9, EmitPages
<1>10. CASE batch' = more /\ listed' = listed
  BY <1>7, <1>8, <1>10
<1> QED
  BY <1>1, <1>9, <1>10

LEMMA PagesStep ==
    ASSUME TypeInv, PagesSound, [Next]_vars
    PROVE  PagesSound'
<1>1. CASE UNCHANGED pages
  BY <1>1 DEF pages, PagesSound, PagesIn
<1>2. CASE ReadEntry
  <2>1. document \in Url /\ Head(entries) \in Entry
    BY <1>2, HeadAndTail
       DEF ReadEntry, TakeEntry, Reading, TypeInv, SitemapTypeOK
  <2>2. CASE ReadPage(Head(entries))
    BY <2>1, <2>2, ReadPageSound
  <2> QED
    BY <1>1, <1>2, <2>2 DEF ReadEntry, ReadSitemap, PassOver
<1>3. CASE EndDocument
  <2>1. Emit(batch) /\ batch \in Seq(PageFound) /\ seen' = seen
    BY <1>3 DEF EndDocument, TypeInv
  <2> QED
    BY <2>1, EmitPages DEF PagesSound
<1>4. ASSUME ~ReadEntry, ~EndDocument PROVE UNCHANGED pages
  BY <1>4
     DEF Next, vars, Skip, Visit, RetryDocument, DocumentFails, DocumentArrives,
         DocumentUnreadable, EntryRaises, HitUrlLimit, Finish, Terminated
<1> QED
  BY <1>1, <1>2, <1>3, <1>4
-----------------------------------------------------------------------------
(* What a complete walk has covered *)

\* What was read stays read.
LEMMA ServedKept ==
    ASSUME TypeInv, InHand, [Next]_vars
    PROVE  \A d \in DOMAIN served : d \in DOMAIN served' /\ served'[d] = served[d]
<1>1. CASE DocumentArrives
  BY <1>1 DEF DocumentArrives, InHand
<1>2. ASSUME ~DocumentArrives PROVE served' = served
  BY <1>2
     DEF Next, vars, Skip, Visit, RetryDocument, DocumentFails, ReadEntry,
         TakeEntry, DocumentUnreadable, EntryRaises, HitUrlLimit, EndDocument, Finish,
         Terminated
<1> QED
  BY <1>1, <1>2

\* Documents stay visited or waiting, pages stay seen.
LEMMA NothingForgotten ==
    ASSUME TypeInv, [Next]_vars
    PROVE  /\ \A u \in visited \cup Range(queue) :
                 IsAllowedSitemap(u) => u \in visited' \cup Range(queue')
           /\ seen \subseteq seen'
<1>0. queue \in Seq(Url) /\ entries \in Seq(Entry)
  BY DEF TypeInv, SitemapTypeOK
<1>1. CASE Skip
  <2>1. Range(queue) = {Head(queue)} \cup Range(queue')
    BY <1>0, <1>1, HeadAndTail DEF Skip, MayVisit
  <2> QED
    BY <1>1, <2>1 DEF Skip, Skippable, pages
<1>2. CASE Visit
  <2>1. Range(queue) = {Head(queue)} \cup Range(queue')
    BY <1>0, <1>2, HeadAndTail DEF Visit, MayVisit
  <2> QED
    BY <1>2, <2>1 DEF Visit, pages
<1>3. CASE ReadEntry
  <2>1. Head(entries) \in Entry /\ visited' = visited
    BY <1>0, <1>3, HeadAndTail DEF ReadEntry, TakeEntry
  <2>2. CASE ReadPage(Head(entries))
    BY <2>1, <2>2 DEF ReadPage
  <2>3. CASE ReadSitemap(Head(entries))
    <3>1. StripQueryAndFragment(Head(entries).url) \in Url
      BY <2>1, StripKeeps DEF Entry
    <3>2. Range(queue) \subseteq Range(queue')
      BY <1>0, <2>3, <3>1, RangeOfAppend DEF ReadSitemap
    <3> QED
      BY <2>1, <2>3, <3>2 DEF ReadSitemap, pages
  <2>4. CASE PassOver(Head(entries))
    BY <2>1, <2>4 DEF PassOver, pages
  <2> QED
    BY <1>3, <2>2, <2>3, <2>4 DEF ReadEntry
<1>4. ASSUME ~Skip, ~Visit, ~ReadEntry
      PROVE  queue' = queue /\ visited' = visited /\ seen' = seen
  BY <1>4
     DEF Next, vars, RetryDocument, DocumentFails, DocumentArrives,
         DocumentUnreadable, EntryRaises, HitUrlLimit, EndDocument, Finish, Terminated,
         walk, pages
<1> QED
  BY <1>1, <1>2, <1>3, <1>4

LEMMA FollowedKept ==
    ASSUME TypeInv, [Next]_vars, NEW e \in Entry, Followed(e)
    PROVE  Followed(e)'
<1>1. e.url \in Url
  BY DEF Entry
<1> QED
  BY <1>1, StripKeeps, NothingForgotten DEF Followed

\* An entry taken from the document is followed.
LEMMA EntryFollowed ==
    ASSUME TypeInv, ReadEntry, NEW e, e = Head(entries)
    PROVE  Followed(e)'
<1>1. e \in Entry /\ e.url \in Url /\ visited' = visited /\ queue \in Seq(Url)
  <2>1. e \in Entry
    BY HeadAndTail DEF ReadEntry, TakeEntry, TypeInv, SitemapTypeOK
  <2> QED
    BY <2>1 DEF ReadEntry, TakeEntry, TypeInv, SitemapTypeOK, Entry
<1>2. CASE ReadPage(e)
  BY <1>2 DEF ReadPage, Followed
<1>3. CASE ReadSitemap(e)
  <2>1. StripQueryAndFragment(e.url) \in Range(queue')
    BY <1>1, <1>3, StripKeeps, RangeOfAppend DEF ReadSitemap
  <2> QED
    BY <1>3, <2>1 DEF ReadSitemap, Followed
<1>4. CASE PassOver(e)
  BY <1>1, <1>4 DEF PassOver, Followed, pages
<1> QED
  BY <1>2, <1>3, <1>4 DEF ReadEntry

LEMMA CoveredInit == Init => Covered
<1> SUFFICES ASSUME Init PROVE Covered
  OBVIOUS
<1>1. Len(Roots) \in Nat /\ DOMAIN Roots = 1..Len(Roots)
  BY SitemapAssumption, LenProperties
<1>2. AllowedRoots \subseteq Range(queue)
  BY <1>1 DEF AllowedRoots, Range, Init
<1>3. DOMAIN served = {} /\ seen = {}
  BY DEF Init
<1> QED
  BY <1>2, <1>3 DEF Covered

LEMMA CoveredStep ==
    ASSUME TypeInv, InHand, Covered, [Next]_vars
    PROVE  Covered'
<1>1. AllowedRoots \subseteq visited' \cup Range(queue')
  BY NothingForgotten DEF Covered, AllowedRoots
<1>2. \A d \in DOMAIN served : d \in DOMAIN served' /\ served'[d] = served[d]
  BY ServedKept
<1>3. seen' \subseteq UNION {NamedIn(d)' : d \in DOMAIN served'}
  <2>1. UNION {NamedIn(d) : d \in DOMAIN served}
            \subseteq UNION {NamedIn(d)' : d \in DOMAIN served'}
    BY <1>2 DEF NamedIn
  <2>2. CASE seen' = seen
    BY <2>1, <2>2 DEF Covered
  <2>3. CASE seen' # seen
    <3>1. ReadEntry
      BY <2>3
         DEF Next, vars, Skip, Visit, RetryDocument, DocumentFails,
             DocumentArrives, DocumentUnreadable, EntryRaises, HitUrlLimit, EndDocument,
             Finish, Terminated, pages
    <3>2. /\ Head(entries) \in Range(served[document])
          /\ document \in DOMAIN served
      BY <3>1, HeadAndTail
         DEF ReadEntry, TakeEntry, Reading, InHand, TypeInv, SitemapTypeOK
    <3>3. /\ IdentityFromUrl(Head(entries).url) # NoIdentity
          /\ seen' = seen \cup {IdentityFromUrl(Head(entries).url)}
      BY <2>3, <3>1 DEF ReadEntry, ReadPage, ReadSitemap, PassOver, pages
    <3>4. IdentityFromUrl(Head(entries).url) \in NamedIn(document)
      BY <3>2, <3>3 DEF NamedIn
    <3> QED
      BY <2>1, <3>2, <3>3, <3>4 DEF Covered
  <2> QED
    BY <2>2, <2>3
<1>4. limit_hit' \/
      \A d \in DOMAIN served' : \A e \in Range(served'[d]) :
          Followed(e)' \/ (d = document' /\ e \in Range(entries'))
  <2>1. CASE HitUrlLimit
    BY <2>1 DEF HitUrlLimit
  <2>2. CASE ~HitUrlLimit
    <3>1. limit_hit' = limit_hit
      BY <2>2
         DEF Next, vars, Skip, Visit, RetryDocument, DocumentFails,
             DocumentArrives, DocumentUnreadable, ReadEntry, TakeEntry,
             EntryRaises, EndDocument, Finish, Terminated, counts
    <3>2. SUFFICES ASSUME ~limit_hit, NEW d \in DOMAIN served',
                          NEW e \in Range(served'[d])
                   PROVE  Followed(e)' \/ (d = document' /\ e \in Range(entries'))
      BY <3>1
    <3>3. CASE d \in DOMAIN served
      <4>1. e \in Range(served[d])
        BY <1>2, <3>3
      <4>2. e \in Entry
        BY <3>3, <4>1, RangeOfSeq DEF TypeInv
      <4>3. CASE Followed(e)
        BY <4>2, <4>3, FollowedKept
      <4>4. CASE d = document /\ e \in Range(entries)
        <5>1. document # NoDocument /\ entries # <<>> /\ ~EndDocument /\ ~Visit
          <6>1. entries # <<>>
            BY <4>4 DEF Range
          <6> QED
            BY <6>1 DEF InHand, EndDocument, Visit, Walking
        <5>2. ~DocumentArrives
          BY <3>3, <4>4 DEF DocumentArrives, InHand
        <5>3. CASE ReadEntry
          <6>1. /\ Range(entries) = {Head(entries)} \cup Range(entries')
                /\ document' = document
            BY <5>1, <5>3, HeadAndTail
               DEF ReadEntry, TakeEntry, TypeInv, SitemapTypeOK
          <6>2. e = Head(entries) => Followed(e)'
            BY <5>3, EntryFollowed
          <6> QED
            BY <4>4, <6>1, <6>2
        <5>4. CASE ~ReadEntry
          <6>1. entries' = entries /\ document' = document
            BY <2>2, <5>1, <5>2, <5>4
               DEF Next, vars, Skip, RetryDocument, DocumentFails,
                   DocumentUnreadable, EntryRaises, Finish, Terminated, walk
          <6> QED
            BY <4>4, <6>1
        <5> QED
          BY <5>3, <5>4
      <4> QED
        BY <3>2, <3>3, <4>1, <4>3, <4>4 DEF Covered
    <3>4. CASE d \notin DOMAIN served
      <4>1. DocumentArrives
        BY <3>4
           DEF Next, vars, Skip, Visit, RetryDocument, DocumentFails,
               DocumentUnreadable, ReadEntry, TakeEntry, EntryRaises, HitUrlLimit,
               EndDocument, Finish, Terminated
      <4>2. d = document /\ served'[d] = entries' /\ document' = document
        BY <3>4, <4>1 DEF DocumentArrives, walk
      <4> QED
        BY <4>2
    <3> QED
      BY <3>3, <3>4
  <2> QED
    BY <2>1, <2>2
<1> QED
  BY <1>1, <1>3, <1>4 DEF Covered, AllowedRoots
-----------------------------------------------------------------------------
(* What can be reached *)

LEMMA NecessaryInit == Init => Necessary
<1> SUFFICES ASSUME Init PROVE Necessary
  OBVIOUS
<1>1. Roots \in Seq(Url) /\ Len(Roots) \in Nat /\ DOMAIN Roots = 1..Len(Roots)
  BY SitemapAssumption, LenProperties
<1>2. ASSUME NEW u \in Range(queue), IsAllowedSitemap(u) PROVE u \in AllowedRoots
  <2>1. PICK i \in 1..Len(Roots) : u = StripQueryAndFragment(Roots[i])
    BY <1>1, <1>2 DEF Init, Range
  <2>2. Roots[i] \in Url /\ Roots[i] \in Range(Roots)
    BY <1>1, ElementOfSeq DEF Range
  <2> QED
    BY <1>2, <2>1, <2>2, StripKeeps DEF AllowedRoots
<1> QED
  BY <1>2 DEF Necessary, Closed, Init

LEMMA ClosedBefore ==
    ASSUME TypeInv, InHand, [Next]_vars, NEW S, Closed(S)'
    PROVE  Closed(S)
BY ServedKept DEF Closed, AllowedRoots, Links

LEMMA NecessaryStep ==
    ASSUME TypeInv, InHand, Necessary, [Next]_vars
    PROVE  Necessary'
<1> SUFFICES ASSUME NEW S \in SUBSET Url, Closed(S)'
             PROVE  /\ visited' \subseteq S
                    /\ \A u \in Range(queue') : IsAllowedSitemap(u) => u \in S
  BY DEF Necessary, Closed, AllowedRoots, Links
<1>1. /\ Closed(S)
      /\ visited \subseteq S
      /\ \A u \in Range(queue) : IsAllowedSitemap(u) => u \in S
  BY ClosedBefore DEF Necessary
<1>2. queue \in Seq(Url) /\ entries \in Seq(Entry)
  BY DEF TypeInv, SitemapTypeOK
<1>3. CASE Skip \/ Visit
  <2>1. Range(queue) = {Head(queue)} \cup Range(queue')
    BY <1>2, <1>3, HeadAndTail DEF Skip, Visit, MayVisit
  <2> QED
    BY <1>1, <1>3, <2>1 DEF Skip, Visit, Skippable
<1>4. CASE ReadEntry
  <2>1. /\ Head(entries) \in Entry /\ visited' = visited
        /\ Head(entries) \in Range(served[document])
        /\ document \in DOMAIN served
    BY <1>2, <1>4, HeadAndTail DEF ReadEntry, TakeEntry, Reading, InHand
  <2>2. CASE ReadSitemap(Head(entries))
    <3> DEFINE u == StripQueryAndFragment(Head(entries).url)
    <3>1. /\ u \in Url /\ IdentityFromUrl(u) = NoIdentity /\ IsAllowedSitemap(u)
      BY <2>1, <2>2, StripKeeps DEF ReadSitemap, Entry
    <3>2. u \in Links(document)
      BY <2>1, <3>1 DEF Links
    <3>3. document \in S
      BY <1>1, <2>1 DEF TypeInv, SitemapTypeOK
    <3>4. u \in S
      BY <1>1, <2>1, <3>2, <3>3 DEF Closed
    <3>5. Range(queue') = Range(queue) \cup {u}
      BY <1>2, <2>2, <3>1, RangeOfAppend DEF ReadSitemap
    <3> QED
      BY <1>1, <2>1, <3>4, <3>5
  <2>3. CASE ReadPage(Head(entries)) \/ PassOver(Head(entries))
    BY <1>1, <2>1, <2>3 DEF ReadPage, PassOver
  <2> QED
    BY <1>4, <2>2, <2>3 DEF ReadEntry
<1>5. ASSUME ~Skip, ~Visit, ~ReadEntry
      PROVE  queue' = queue /\ visited' = visited
  BY <1>5
     DEF Next, vars, RetryDocument, DocumentFails, DocumentArrives,
         DocumentUnreadable, EntryRaises, HitUrlLimit, EndDocument, Finish, Terminated, walk
<1> QED
  BY <1>1, <1>3, <1>4, <1>5

-----------------------------------------------------------------------------
(* The invariant, and what follows from it *)

LEMMA WalkInvariant == Spec => []WalkInv
<1>1. Init => WalkInv
  <2>1. Init => Collected
    BY DEF Init, Collected
  <2> QED
    BY <2>1, TypeInit, InHandInit, PagesInit, CoveredInit, NecessaryInit DEF WalkInv
<1>2. WalkInv /\ [Next]_vars => WalkInv'
  BY TypeStep, InHandStep, CollectedStep, PagesStep, CoveredStep, NecessaryStep
     DEF WalkInv
<1> QED
  BY <1>1, <1>2, PTL DEF Spec

\* Every variable holds a value the program can give it, and the limits on
\* documents, URLs and attempts are kept.
THEOREM SitemapTypes == Spec => []SitemapTypeOK
<1>1. WalkInv => SitemapTypeOK
  BY DEF WalkInv, TypeInv
<1> QED
  BY <1>1, WalkInvariant, PTL

\* A page is listed once in a walk, however it is spelled.
THEOREM PagesListedOnce == Spec => []ListedOnce
<1>1. WalkInv => ListedOnce
  <2> SUFFICES ASSUME WalkInv, NEW i \in 1..Len(listed), NEW j \in 1..Len(listed),
                      listed[i].entry.url.kind = listed[j].entry.url.kind,
                      listed[i].entry.url.id = listed[j].entry.url.id
               PROVE  i = j
    BY DEF ListedOnce
  <2>1. listed \in Seq(PageFound) /\ i \in DOMAIN listed /\ j \in DOMAIN listed
    BY LenProperties DEF WalkInv, TypeInv
  <2>2. /\ listed[i].page = IdentityFromUrl(listed[i].entry.url)
        /\ listed[j].page = IdentityFromUrl(listed[j].entry.url)
    BY <2>1 DEF WalkInv, PagesSound
  <2>3. listed[i].page \in PageIdentity /\ listed[j].page \in PageIdentity
    <3>1. listed[i] \in PageFound /\ listed[j] \in PageFound
      BY <2>1, ElementOfSeq
    <3> QED
      BY <3>1 DEF PageFound
  <2>4. NoIdentity \notin PageIdentity
    BY DEF NoIdentity, PageIdentity
  <2>5. listed[i].page = listed[j].page
    BY <2>2, <2>3, <2>4 DEF IdentityFromUrl
  <2> QED
    BY <2>1, <2>5 DEF WalkInv, PagesSound
<1> QED
  BY <1>1, WalkInvariant, PTL

LEMMA PagesOfListed ==
    ASSUME TypeInv
    PROVE  {p.page : p \in Range(listed)} = PagesIn(listed)
BY DEF TypeInv, PagesIn, Range

\* The batch holds no more pages than items.
LEMMA PagesBounded ==
    ASSUME NEW s \in Seq(PageFound)
    PROVE  IsFiniteSet(PagesIn(s)) /\ Cardinality(PagesIn(s)) <= Len(s)
<1> DEFINE pageOf == [i \in DOMAIN s |-> s[i].page]
<1>1. DOMAIN s = 1..Len(s) /\ Len(s) \in Nat
  BY LenProperties
<1>2. IsFiniteSet(DOMAIN s) /\ Cardinality(DOMAIN s) = Len(s)
  BY <1>1, FS_Interval
<1>3. pageOf \in Surjection(DOMAIN s, PagesIn(s))
  BY DEF Surjection, PagesIn
<1> QED
  BY <1>2, <1>3, FS_Surjection

\* A walk that did not meet a malformed location has handed over what it
\* found; one that did has lost fewer pages than a full batch, all of the
\* document that holds the location.
THEOREM FoundIsHandedOver == Spec => []HandedOver
<1>1. WalkInv => HandedOver
  <2> DEFINE lost == seen \ {p.page : p \in Range(listed)}
  <2> SUFFICES ASSUME WalkInv, outcome # "running", lost # {}
               PROVE  /\ outcome = "error"
                      /\ Cardinality(lost) < EmitBatchSize
                      /\ \E e \in Range(served[document]) : ~Readable(e.url)
                      /\ lost \subseteq {IdentityFromUrl(e.url) :
                                            e \in Range(served[document])}
    BY DEF HandedOver
  <2>1. lost \subseteq PagesIn(batch)
    BY PagesOfListed DEF WalkInv, PagesSound
  <2>2. batch # <<>>
    BY <2>1 DEF PagesIn
  <2>3. /\ outcome = "error"
        /\ \E e \in Range(served[document]) : ~Readable(e.url)
        /\ \A i \in DOMAIN batch : batch[i].entry \in Range(served[document])
    BY <2>2 DEF WalkInv, Collected
  <2>4. Cardinality(lost) < EmitBatchSize
    <3>1. batch \in Seq(PageFound) /\ Len(batch) < EmitBatchSize
      BY DEF WalkInv, TypeInv, SitemapTypeOK
    <3>2. IsFiniteSet(PagesIn(batch)) /\ Cardinality(PagesIn(batch)) <= Len(batch)
      BY <3>1, PagesBounded
    <3>3. IsFiniteSet(lost) /\ Cardinality(lost) <= Cardinality(PagesIn(batch))
      BY <2>1, <3>2, FS_Subset
    <3>4. /\ Cardinality(lost) \in Nat /\ Cardinality(PagesIn(batch)) \in Nat
          /\ Len(batch) \in Nat /\ EmitBatchSize \in Nat
      BY <3>1, <3>2, <3>3, FS_CardinalityType, LenProperties, SitemapAssumption
    <3> QED
      BY <3>1, <3>2, <3>3, <3>4
  <2>5. lost \subseteq {IdentityFromUrl(e.url) : e \in Range(served[document])}
    BY <2>1, <2>3 DEF PagesIn, WalkInv, PagesSound
  <2> QED
    BY <2>3, <2>4, <2>5
<1> QED
  BY <1>1, WalkInvariant, PTL

\* A document is read once in a walk.
THEOREM DocumentsReadOnce == Spec => ReadOnce
<1>1. WalkInv /\ [Next]_vars =>
          [documents_seen' # documents_seen => document \notin DOMAIN served]_vars
  <2> SUFFICES ASSUME WalkInv, Next, documents_seen' # documents_seen
               PROVE  document \notin DOMAIN served
    BY DEF vars, counts
  <2>1. DocumentArrives \/ DocumentUnreadable
    BY DEF Next, Skip, Visit, RetryDocument, DocumentFails, ReadEntry,
           TakeEntry, EntryRaises, HitUrlLimit, EndDocument, Finish, Terminated, vars, counts
  <2> QED
    BY <2>1 DEF DocumentArrives, DocumentUnreadable, WalkInv, InHand
<1> QED
  BY <1>1, WalkInvariant, PTL DEF Spec, ReadOnce

\* A complete walk has read exactly what can be reached from the roots and
\* listed every page on it.
THEOREM CompleteWalks == Spec => []CompleteIsReachable
<1>1. WalkInv => CompleteIsReachable
  <2> SUFFICES ASSUME WalkInv, outcome = "queue_exhausted"
               PROVE  /\ AllowedRoots \subseteq DOMAIN served
                      /\ \A d \in DOMAIN served : Links(d) \subseteq DOMAIN served
                      /\ DOMAIN served = Reachable
                      /\ {p.page : p \in Range(listed)} =
                             {IdentityFromUrl(e.url) : e \in UNION {Range(served[d]) :
                                 d \in DOMAIN served}} \ {NoIdentity}
    BY DEF CompleteIsReachable
  <2>1. /\ document = NoDocument /\ Range(queue) = {} /\ ~limit_hit
        /\ Range(entries) = {} /\ PagesIn(batch) = {}
    BY DEF WalkInv, InHand, Range, PagesIn
  <2>2. visited = DOMAIN served /\ visited \subseteq Url
    BY <2>1, NoDocumentIsNone DEF WalkInv, InHand, TypeInv, SitemapTypeOK
  <2>3. AllowedRoots \subseteq DOMAIN served
    BY <2>1, <2>2 DEF WalkInv, Covered
  <2>4. \A d \in DOMAIN served : \A e \in Range(served[d]) :
            e \in Entry /\ Followed(e)
    BY <2>1, RangeOfSeq DEF WalkInv, Covered, TypeInv
  <2>5. ASSUME NEW d \in DOMAIN served, NEW u \in Links(d)
        PROVE  u \in DOMAIN served
    <3>1. PICK e \in Range(served[d]) : u = StripQueryAndFragment(e.url)
      BY DEF Links
    <3>2. e.url \in Url /\ IdentityFromUrl(u) = NoIdentity /\ IsAllowedSitemap(u)
      BY <2>4, <3>1 DEF Links, Entry
    <3> QED
      BY <2>1, <2>2, <2>4, <3>1, <3>2, StripKeeps DEF Followed
  <2>6. DOMAIN served = Reachable
    <3>1. ASSUME NEW S \in SUBSET visited, AllowedRoots \subseteq S,
                 \A c \in S \cap DOMAIN served : Links(c) \subseteq S
          PROVE  visited \subseteq S
      BY <2>2, <3>1 DEF WalkInv, Necessary, Closed
    <3> QED
      BY <2>2, <3>1 DEF Reachable
  <2>7. seen = {IdentityFromUrl(e.url) : e \in UNION {Range(served[d]) :
                    d \in DOMAIN served}} \ {NoIdentity}
    <3>1. ASSUME NEW d \in DOMAIN served, NEW e \in Range(served[d]),
                 IdentityFromUrl(e.url) # NoIdentity
          PROVE  IdentityFromUrl(e.url) \in seen
      BY <2>4, <3>1 DEF Followed
    <3>2. seen \subseteq UNION {NamedIn(d) : d \in DOMAIN served}
      BY DEF WalkInv, Covered
    <3> QED
      BY <3>1, <3>2 DEF NamedIn
  <2>8. {p.page : p \in Range(listed)} = seen
    BY <2>1, PagesOfListed DEF WalkInv, PagesSound
  <2>9. \A d \in DOMAIN served : Links(d) \subseteq DOMAIN served
    BY <2>5
  <2> QED
    BY <2>3, <2>6, <2>7, <2>8, <2>9
<1> QED
  BY <1>1, WalkInvariant, PTL
=============================================================================
