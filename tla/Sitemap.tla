------------------------------- MODULE Sitemap -------------------------------
(***************************************************************************)
(* The sitemap source: a breadth-first walk over the documents linked from *)
(* the roots, bounded by a number of documents and a number of URLs        *)
(* (discovery/sitemap.py).  What a document holds is chosen when it is     *)
(* served, which is once, so that every small graph is walked.             *)
(***************************************************************************)
EXTENDS Identity, SourceRetry, Sequences, SequencesExt

CONSTANTS
    Roots,         \* SITEMAP_ROOT_URLS, a sequence
    Contents,      \* the sequences of entries a document may hold
    MaxDocuments,  \* SITEMAP_MAX_DOCUMENTS
    MaxUrls,       \* SITEMAP_MAX_URLS
    EmitBatchSize, \* EMIT_BATCH_SIZE
    HostOffset     \* hours the host's clock is ahead of UTC

\* lastmod as it is written: absent or unreadable, a time without an offset
\* from UTC or with one, or a text of which only the date can be read; `at`
\* is the moment it means, an hour in UTC.
Lastmod == [form : {"absent", "naive", "zoned", "dated"}, at : Nat]
Entry == [url : Url, lastmod : Lastmod]

NoTime == -1

\* urljoin and urlsplit take the URL; a root that they refuse ends the source
\* before the walk.
Readable(u) == u.kind # "malformed"

\* A time with an offset becomes the local time of the host.
ParseLastmod(lastmod) ==
    CASE lastmod.form = "absent" -> NoTime
      [] lastmod.form = "naive" -> lastmod.at
      [] lastmod.form = "zoned" -> lastmod.at + HostOffset
      [] lastmod.form = "dated" -> 24 * (lastmod.at \div 24)

ASSUME SitemapAssumption ==
    /\ Roots \in Seq(Url) /\ Roots # <<>>
    /\ \A u \in Range(Roots) : Readable(u)
    /\ Contents \subseteq Seq(Entry)
    /\ {MaxDocuments, MaxUrls} \subseteq Nat
    /\ EmitBatchSize \in Nat \ {0}
    /\ HostOffset \in -12..14

VARIABLES
    queue,           \* documents to visit
    visited,         \* documents taken from it
    seen,            \* identities listed so far
    documents_seen,
    urls_seen,
    accepted,
    limit_hit,       \* url_limit_hit
    document,        \* the document in hand
    attempt,         \* attempt_no of its request, 0: none under way
    entries,         \* its entries not yet looked at
    batch,           \* pages collected from it
    outcome,         \* "running", "error" or the stop reason
    listed,          \* history: pages handed to on_pages, in order
    served           \* history: what each document read was found to hold

walk == <<queue, visited, document>>
counts == <<documents_seen, urls_seen, accepted, limit_hit>>
pages == <<seen, batch, listed>>
vars == <<walk, counts, pages, attempt, entries, outcome, served>>

NoDocument == [kind |-> "none"]

IsAllowedSitemap(u) == u.host \in AllowedHosts /\ u.kind = "sitemap"

\* A page found in a document, with the entry it was found in.
Found(e) == [entry |-> e,
             page |-> IdentityFromUrl(e.url),
             source |-> document,
             source_modified_at |-> ParseLastmod(e.lastmod)]

Init ==
    /\ queue = [i \in 1..Len(Roots) |-> StripQueryAndFragment(Roots[i])]
    /\ visited = {}
    /\ seen = {}
    /\ documents_seen = 0
    /\ urls_seen = 0
    /\ accepted = 0
    /\ limit_hit = FALSE
    /\ document = NoDocument
    /\ attempt = 0
    /\ entries = <<>>
    /\ batch = <<>>
    /\ outcome = "running"
    /\ listed = <<>>
    /\ served = <<>>

-----------------------------------------------------------------------------
\* The head of the loop: neither a document in hand nor a limit reached.
Walking == outcome = "running" /\ document = NoDocument

MayVisit == queue # <<>> /\ documents_seen < MaxDocuments /\ urls_seen < MaxUrls

\* Mutant: documents visited before are walked again.
SkippableMutant(u) == ~IsAllowedSitemap(u)

\* Visited before, or not a sitemap of the site.
Skippable(u) == u \in visited \/ ~IsAllowedSitemap(u)

Skip ==
    /\ Walking
    /\ MayVisit
    /\ Skippable(Head(queue))
    /\ queue' = Tail(queue)
    /\ UNCHANGED <<visited, document, counts, pages, attempt, entries, outcome,
                   served>>

Visit ==
    /\ Walking
    /\ MayVisit
    /\ ~Skippable(Head(queue))
    /\ queue' = Tail(queue)
    /\ document' = Head(queue)
    /\ visited' = visited \cup {Head(queue)}
    /\ attempt' = 1
    /\ UNCHANGED <<counts, pages, entries, outcome, served>>

\* The sleep before the next attempt is left out, as all time is; after an
\* endless Retry-After (SourceRetry) the walk stays where it is.
RetryDocument ==
    /\ attempt > 0
    /\ \E failure \in Failure : RetriesRequest(failure, attempt)
    /\ attempt' = attempt + 1
    /\ UNCHANGED <<walk, counts, pages, entries, outcome, served>>

\* _fetch_document raises: the source ends.
DocumentFails ==
    /\ attempt > 0
    /\ \E failure \in Failure : ~RetriesRequest(failure, attempt)
    /\ attempt' = 0
    /\ outcome' = "error"
    /\ UNCHANGED <<walk, counts, pages, entries, served>>

\* The document arrives and is parsed.
DocumentArrives ==
    /\ attempt > 0
    /\ attempt' = 0
    /\ documents_seen' = documents_seen + 1
    /\ \E content \in Contents :
          /\ entries' = content
          /\ served' = [d \in DOMAIN served \cup {document} |->
                           IF d = document THEN content ELSE served[d]]
    /\ UNCHANGED <<walk, urls_seen, accepted, limit_hit, pages, outcome>>

\* It arrives and cannot be parsed.
DocumentUnreadable ==
    /\ attempt > 0
    /\ attempt' = 0
    /\ documents_seen' = documents_seen + 1
    /\ outcome' = "error"
    /\ UNCHANGED <<walk, urls_seen, accepted, limit_hit, pages, entries, served>>

-----------------------------------------------------------------------------
(* The entries of the document in hand *)

Reading == outcome = "running" /\ document # NoDocument /\ attempt = 0

\* The pages collected are handed over.
Emit(collected) ==
    /\ listed' = listed \o collected
    /\ accepted' = accepted + Len(collected)
    /\ batch' = <<>>

TakeEntry ==
    /\ Reading
    /\ entries # <<>>
    /\ urls_seen < MaxUrls
    /\ Readable(Head(entries).url)
    /\ urls_seen' = urls_seen + 1
    /\ entries' = Tail(entries)
    /\ UNCHANGED <<visited, document, documents_seen, limit_hit, attempt,
                   outcome, served>>

\* A page not listed before; a full batch is handed over.
ReadPage(e) ==
    /\ IdentityFromUrl(e.url) \notin seen \cup {NoIdentity}
    /\ seen' = seen \cup {IdentityFromUrl(e.url)}
    /\ \/ Len(batch) + 1 >= EmitBatchSize /\ Emit(Append(batch, Found(e)))
       \/ /\ Len(batch) + 1 < EmitBatchSize
          /\ batch' = Append(batch, Found(e))
          /\ UNCHANGED <<listed, accepted>>
    /\ UNCHANGED queue

\* Another document of the site.
ReadSitemap(e) ==
    /\ IdentityFromUrl(e.url) = NoIdentity
    /\ IsAllowedSitemap(e.url)
    /\ StripQueryAndFragment(e.url) \notin visited
    /\ queue' = Append(queue, StripQueryAndFragment(e.url))
    /\ UNCHANGED <<pages, accepted>>

\* A page listed before, a document visited before, or any other URL.
PassOver(e) ==
    /\ IdentityFromUrl(e.url) \in seen \cup {NoIdentity}
    /\ \/ IdentityFromUrl(e.url) # NoIdentity
       \/ ~IsAllowedSitemap(e.url)
       \/ StripQueryAndFragment(e.url) \in visited
    /\ UNCHANGED <<queue, pages, accepted>>

ReadEntry ==
    /\ TakeEntry
    /\ \/ ReadPage(Head(entries))
       \/ ReadSitemap(Head(entries))
       \/ PassOver(Head(entries))

\* A malformed location: ValueError ends the source, and what the batch
\* holds is not handed over.
EntryRaises ==
    /\ Reading
    /\ entries # <<>>
    /\ urls_seen < MaxUrls
    /\ ~Readable(Head(entries).url)
    /\ outcome' = "error"
    /\ UNCHANGED <<walk, counts, pages, attempt, entries, served>>

\* Mutant: what was collected is dropped with the rest of the document.
HitUrlLimitDroppingMutant ==
    /\ Reading
    /\ entries # <<>>
    /\ urls_seen >= MaxUrls
    /\ limit_hit' = TRUE
    /\ entries' = <<>>
    /\ batch' = <<>>
    /\ UNCHANGED <<walk, documents_seen, urls_seen, accepted, seen, listed,
                   attempt, outcome, served>>

\* The URL limit is met within a document: the rest of it is left.
HitUrlLimit ==
    /\ Reading
    /\ entries # <<>>
    /\ urls_seen >= MaxUrls
    /\ limit_hit' = TRUE
    /\ entries' = <<>>
    /\ UNCHANGED <<walk, documents_seen, urls_seen, accepted, pages, attempt,
                   outcome, served>>

\* What is left of the batch is handed over.
EndDocument ==
    /\ Reading
    /\ entries = <<>>
    /\ Emit(batch)
    /\ document' = NoDocument
    /\ UNCHANGED <<queue, visited, seen, documents_seen, urls_seen, limit_hit,
                   attempt, entries, outcome, served>>

\* Mutant: limit_hit is not looked at, the document was the last anyway.
StopReasonQueueMutant ==
    IF urls_seen >= MaxUrls /\ queue # <<>> THEN "max_urls"
    ELSE IF queue # <<>> THEN "max_documents"
    ELSE "queue_exhausted"

StopReason ==
    IF limit_hit \/ (urls_seen >= MaxUrls /\ queue # <<>>) THEN "max_urls"
    ELSE IF queue # <<>> THEN "max_documents"
    ELSE "queue_exhausted"

Finish ==
    /\ Walking
    /\ ~MayVisit
    /\ outcome' = StopReason
    /\ UNCHANGED <<walk, counts, pages, attempt, entries, served>>

Terminated == outcome # "running" /\ UNCHANGED vars

Next ==
    \/ Skip
    \/ Visit
    \/ RetryDocument
    \/ DocumentFails
    \/ DocumentArrives
    \/ DocumentUnreadable
    \/ ReadEntry
    \/ EntryRaises
    \/ HitUrlLimit
    \/ EndDocument
    \/ Finish
    \/ Terminated

Spec == Init /\ [][Next]_vars

-----------------------------------------------------------------------------
\* Every variable holds a value the program can give it, and the limits
\* bound the requests: no more documents than SITEMAP_MAX_DOCUMENTS, no more
\* URLs than SITEMAP_MAX_URLS, three attempts per document.
SitemapTypeOK ==
    /\ queue \in Seq(Url)
    /\ visited \subseteq {u \in Url : IsAllowedSitemap(u)}
    /\ seen \subseteq PageIdentity
    /\ documents_seen \in 0..MaxDocuments
    /\ urls_seen \in 0..MaxUrls
    /\ accepted = Len(listed)
    /\ limit_hit \in BOOLEAN
    /\ document \in visited \cup {NoDocument}
    /\ attempt \in 0..MaxRequestAttempts
    /\ entries \in Seq(Entry)
    /\ Len(batch) < EmitBatchSize
    /\ outcome \in {"running", "error", "max_urls", "max_documents",
                    "queue_exhausted"}
    /\ DOMAIN served \subseteq visited

Links(d) ==
    {StripQueryAndFragment(e.url) : e \in Range(served[d])} \cap
        {u \in Url : IdentityFromUrl(u) = NoIdentity /\ IsAllowedSitemap(u)}

AllowedRoots ==
    {StripQueryAndFragment(u) : u \in Range(Roots)} \cap
        {u \in Url : IsAllowedSitemap(u)}

\* The documents in every set that holds the allowed roots and what its
\* documents link to.
Reachable ==
    {d \in visited : \A S \in SUBSET visited :
        /\ AllowedRoots \subseteq S
        /\ \A c \in S \cap DOMAIN served : Links(c) \subseteq S
        => d \in S}

\* A complete walk has read every document that can be reached from the
\* roots and listed every page on them, whatever cycles, repetitions and
\* foreign links they hold: complete=True drives the status of the run
\* (discover_sitemaps, and docs/phase2-spec.md section 6).
CompleteIsReachable ==
    outcome = "queue_exhausted" =>
        /\ AllowedRoots \subseteq DOMAIN served
        /\ \A d \in DOMAIN served : Links(d) \subseteq DOMAIN served
        /\ DOMAIN served = Reachable
        /\ {p.page : p \in Range(listed)} =
               {IdentityFromUrl(e.url) : e \in UNION {Range(served[d]) :
                   d \in DOMAIN served}} \ {NoIdentity}

\* A page is listed once in a walk, however often it is linked and however
\* it is spelled (seen_pages): each listing is a write and may be a message.
ListedOnce ==
    \A i, j \in 1..Len(listed) :
        LET one == listed[i].entry.url
            other == listed[j].entry.url
        IN one.kind = other.kind /\ one.id = other.id => i = j

\* A walk that ends at a limit, exhausted or with a request that failed has
\* handed over what it found: seen_pages keeps no page from being listed that
\* no call of on_pages carried.  Only a malformed location loses pages, fewer
\* than a full batch and all of the document that holds it.
HandedOver ==
    LET lost == seen \ {p.page : p \in Range(listed)}
    IN  outcome # "running" /\ lost # {} =>
            /\ outcome = "error"
            /\ Cardinality(lost) < EmitBatchSize
            /\ \E e \in Range(served[document]) : ~Readable(e.url)
            /\ lost \subseteq {IdentityFromUrl(e.url) : e \in Range(served[document])}

\* A document is read once in a walk, whatever cycles and repetitions the
\* links make (visited_documents): reading one again would count against
\* the limits and cost requests.
ReadOnce ==
    [][documents_seen' # documents_seen => document \notin DOMAIN served]_vars

\* Times are UTC (docs/phase1-spec.md): a lastmod that says which moment it
\* means is passed on as that moment.
LastmodIsUtc ==
    \A p \in Range(listed) :
        p.entry.lastmod.form = "zoned" => p.source_modified_at = p.entry.lastmod.at
=============================================================================
