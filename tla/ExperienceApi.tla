----------------------------- MODULE ExperienceApi -----------------------------
(***************************************************************************)
(* The experience API source (discovery/experience_api.py): page after     *)
(* page of a list that others change meanwhile, with paced requests and    *)
(* retries.                                                                *)
(***************************************************************************)
EXTENDS Identity, SourceRetry, Sequences, SequencesExt

CONSTANTS
    Records,          \* the records there may be: [keys -> Record]
    FirstList,        \* the list when the source starts
    MaxChanges,       \* bound on the changes of the list meanwhile
    PageSize,         \* records on a page of the list
    DeclaredSizes,    \* what `size` of an answer may be, 0: absent
    DefaultPageSize,  \* DEFAULT_PAGE_SIZE
    MaxPages,         \* EXPERIENCE_API_MAX_PAGES
    Interval,         \* interval_seconds
    Jitter,           \* jitter_seconds
    Headers           \* Retry-After headers of a 429

ASSUME ExperienceApiAssumption ==
    /\ Records \in [DOMAIN Records -> Record]
    /\ FirstList \in Seq(DOMAIN Records) /\ IsInjective(FirstList)
    /\ {PageSize, MaxPages} \subseteq Nat \ {0}
    /\ {MaxChanges, Interval, Jitter} \subseteq Nat
    /\ Headers \subseteq [readable : BOOLEAN, endless : BOOLEAN, seconds : Int]

\* The site never puts fewer records on a page than it declares: a larger
\* `size` than the page has would end the source after one page.
ASSUME DeclaredSizesAssumption ==
    \A size \in DeclaredSizes \cup {DefaultPageSize} : size \in Int /\ size <= PageSize

VARIABLES
    upstream,  \* the list, newest first
    gone,      \* records removed from it
    bumps,     \* records moved to its head
    pc,        \* "pace", "asked", "backoff", "done", or "asleep" for ever
    attempt,   \* attempt_no of the request
    age,       \* time since the last request started, up to Forgotten
    sleep,     \* what is left of the current sleep
    outcome,   \* "running", "error" or the stop reason
    received,  \* history: the pages that arrived
    listed,    \* history: the records handed to on_page
    quiet      \* history: time for which Retry-After asks for silence

list == <<upstream, gone, bumps>>
request == <<pc, attempt, age, sleep, quiet>>
progress == <<outcome, received, listed>>
vars == <<list, request, progress>>

Forgotten == Interval + Jitter
Least(a, b) == IF a < b THEN a ELSE b
Greatest(a, b) == IF a > b THEN a ELSE b

Init ==
    /\ upstream = FirstList
    /\ gone = {}
    /\ bumps = 0
    /\ pc = "pace"
    /\ attempt = 1
    /\ age = Forgotten
    /\ sleep = 0
    /\ outcome = "running"
    /\ received = <<>>
    /\ listed = <<>>
    /\ quiet = 0

-----------------------------------------------------------------------------
(* The list changes *)

Inserted == (Range(upstream) \cup gone) \ Range(FirstList)

Changeable ==
    /\ Cardinality(Inserted) + Cardinality(gone) + bumps < MaxChanges
    /\ outcome = "running"
    /\ UNCHANGED <<request, progress>>

Insert ==
    /\ Changeable
    /\ \E k \in DOMAIN Records \ (Range(upstream) \cup gone) :
          upstream' = <<k>> \o upstream
    /\ UNCHANGED <<gone, bumps>>

Delete ==
    /\ Changeable
    /\ \E i \in DOMAIN upstream :
          /\ upstream' = RemoveAt(upstream, i)
          /\ gone' = gone \cup {upstream[i]}
    /\ UNCHANGED bumps

Bump ==
    /\ Changeable
    /\ \E i \in DOMAIN upstream :
          upstream' = <<upstream[i]>> \o RemoveAt(upstream, i)
    /\ bumps' = bumps + 1
    /\ UNCHANGED gone

-----------------------------------------------------------------------------
(* Requests *)

\* Mutant: a retry is not paced, its backoff is thought enough.
EnterPacerMutant(n) ==
    /\ pc' = "pace"
    /\ attempt' = n
    /\ \E j \in 0..Jitter :
          sleep' = IF n > 1 THEN 0 ELSE Greatest(0, Interval + j - age)

\* ExperienceApiPacer.wait before attempt n
EnterPacer(n) ==
    /\ pc' = "pace"
    /\ attempt' = n
    /\ \E j \in 0..Jitter : sleep' = Greatest(0, Interval + j - age)

Post ==
    /\ pc = "pace"
    /\ sleep = 0
    /\ pc' = "asked"
    /\ age' = 0
    /\ UNCHANGED <<list, attempt, sleep, quiet, progress>>

\* A 429 whose Retry-After has no end: asyncio.sleep does not return.
SleepsForever ==
    /\ pc = "asked"
    /\ RetriesRequest("throttled", attempt)
    /\ \E header \in Headers : Endless(header)
    /\ pc' = "asleep"
    /\ UNCHANGED <<list, attempt, age, sleep, quiet, progress>>

Quieted(failure, header) ==
    IF failure = "throttled" /\ header.readable
    THEN RetryAfterSeconds(header) ELSE quiet

\* Mutant: a server error gets the same page asked again and again.
RetryUncountedMutant ==
    /\ pc = "asked"
    /\ \E failure \in Failure, header \in Headers :
          /\ RetriesRequest(failure, attempt)
          /\ ~(failure = "throttled" /\ Endless(header))
          /\ sleep' \in RequestDelays(failure, header, attempt, Jitter)
          /\ quiet' = Quieted(failure, header)
    /\ pc' = "backoff"
    /\ attempt' = attempt - 1
    /\ UNCHANGED <<list, age, progress>>

Retry ==
    /\ pc = "asked"
    /\ \E failure \in Failure, header \in Headers :
          /\ RetriesRequest(failure, attempt)
          /\ ~(failure = "throttled" /\ Endless(header))
          /\ sleep' \in RequestDelays(failure, header, attempt, Jitter)
          /\ quiet' = Quieted(failure, header)
    /\ pc' = "backoff"
    /\ UNCHANGED <<list, attempt, age, progress>>

BackoffEnds ==
    /\ pc = "backoff"
    /\ sleep = 0
    /\ EnterPacer(attempt + 1)
    /\ UNCHANGED <<list, age, quiet, progress>>

EndSource(reason) ==
    /\ outcome' = reason
    /\ pc' = "done"
    /\ UNCHANGED <<list, attempt, age, sleep>>

\* The request was refused, failed for the last time, or its answer rejected.
RequestFails ==
    /\ pc = "asked"
    /\ \E failure \in Failure : ~RetriesRequest(failure, attempt)
    /\ EndSource("error")
    /\ UNCHANGED <<quiet, received, listed>>

-----------------------------------------------------------------------------
(* Pages *)

PageNumber == Len(received) + 1

PageRecords ==
    SubSeq(upstream, (PageNumber - 1) * PageSize + 1,
           Least(PageNumber * PageSize, Len(upstream)))

DeclaredSize(size) == IF size = 0 THEN DefaultPageSize ELSE size

Names(k) == IdentityFromRecord(Records[k])
Parsed(records) ==
    FlattenSeq([i \in DOMAIN records |->
        IF Names(records[i]) = NoIdentity THEN <<>> ELSE <<records[i]>>])

Arrives ==
    /\ pc = "asked"
    /\ received' = Append(received, PageRecords)
    /\ UNCHANGED quiet

EmptyPage ==
    /\ Arrives
    /\ PageRecords = <<>>
    /\ EndSource("empty_page")
    /\ UNCHANGED listed

\* Mutant: the records are handed over while they are parsed.
PageRaisesLateMutant ==
    /\ Arrives
    /\ \E i \in 1..Len(PageRecords) :
          /\ Names(PageRecords[i]) = Malformed
          /\ listed' = listed \o Parsed(SubSeq(PageRecords, 1, i - 1))
    /\ EndSource("error")

\* parse_record raises: nothing of the page is handed over.
PageRaises ==
    /\ Arrives
    /\ \E k \in Range(PageRecords) : Names(k) = Malformed
    /\ EndSource("error")
    /\ UNCHANGED listed

GoodPage ==
    /\ Arrives
    /\ PageRecords # <<>>
    /\ \A k \in Range(PageRecords) : Names(k) # Malformed
    /\ listed' = listed \o Parsed(PageRecords)

\* Mutant: only the records that name a page are counted.
ShortPageMutant ==
    /\ GoodPage
    /\ \E size \in DeclaredSizes :
          Len(Parsed(PageRecords)) < DeclaredSize(size)
    /\ EndSource("short_page")

ShortPage ==
    /\ GoodPage
    /\ \E size \in DeclaredSizes : Len(PageRecords) < DeclaredSize(size)
    /\ EndSource("short_page")

FullPage ==
    /\ GoodPage
    /\ \E size \in DeclaredSizes : Len(PageRecords) >= DeclaredSize(size)
    /\ \/ PageNumber = MaxPages /\ EndSource("configured_page_limit")
       \/ PageNumber < MaxPages /\ EnterPacer(1) /\ UNCHANGED <<list, age, outcome>>

-----------------------------------------------------------------------------
Tick ==
    /\ age < Forgotten \/ sleep > 0 \/ quiet > 0
    /\ age' = Least(age + 1, Forgotten)
    /\ sleep' = Greatest(sleep - 1, 0)
    /\ quiet' = Greatest(quiet - 1, 0)
    /\ UNCHANGED <<list, pc, attempt, progress>>

Change == Insert \/ Delete \/ Bump

Answer ==
    \/ Retry
    \/ SleepsForever
    \/ RequestFails
    \/ EmptyPage
    \/ PageRaises
    \/ ShortPage
    \/ FullPage

\* The source has ended, or sleeps for ever.
Terminated == pc \in {"done", "asleep"} /\ UNCHANGED vars

Next == Change \/ Post \/ Answer \/ BackoffEnds \/ Tick \/ Terminated

Spec == Init /\ [][Next]_vars

\* Time passes, sleeps end but for an endless one, the client's timeout
\* bounds every request.
FairSpec ==
    /\ Spec
    /\ WF_vars(Post)
    /\ WF_vars(Answer)
    /\ WF_vars(BackoffEnds)
    /\ WF_vars(Tick)

-----------------------------------------------------------------------------
\* Every variable holds a value the program can give it: at most
\* EXPERIENCE_API_MAX_PAGES pages of at most three attempts each.
ApiTypeOK ==
    /\ Range(upstream) \cap gone = {} /\ IsInjective(upstream)
    /\ pc \in {"pace", "asked", "backoff", "done", "asleep"}
    /\ attempt \in 1..MaxRequestAttempts
    /\ age \in 0..Forgotten
    /\ {sleep, quiet, bumps} \subseteq Nat
    /\ outcome \in {"running", "error", "empty_page", "short_page",
                    "configured_page_limit"}
    /\ pc = "done" <=> outcome # "running"
    /\ Len(received) <= MaxPages
    /\ listed \in Seq(DOMAIN Records)

\* Pages of the first list that are still there and were never handed over.
Missed ==
    {k \in Range(FirstList) \cap Range(upstream) :
        Names(k) \notin {NoIdentity, Malformed}} \ Range(listed)

\* The list shifts while it is paged.  A source that ends as exhausted has
\* missed no more pages than records were removed from or moved within the
\* list, and none for the records that arrived; each arrival or move makes it
\* list at most one page again (ExperienceApiDiscoverer.discover).
MissesBounded ==
    /\ outcome \in {"empty_page", "short_page"} =>
           Cardinality(Missed) <= Cardinality(gone) + bumps
    /\ Len(listed) - Cardinality(Range(listed))
           <= Cardinality(Inserted) + bumps

\* A page is handed over whole and once, in the order of the list, or not at
\* all: a malformed record fails the source before any record of its page is
\* stored (discover parses a page before it calls on_page).
PagesWhole ==
    LET raised == \E i \in 1..Len(received) :
            \E k \in Range(received[i]) : Names(k) = Malformed
        whole == IF raised THEN Front(received) ELSE received
    IN  /\ raised => outcome = "error"
        /\ listed = FlattenSeq([i \in 1..Len(whole) |-> Parsed(whole[i])])

\* No request starts while the Retry-After of a 429 asks for silence, however
\* long it is (the source's Retry-After has no cap).
RetryAfterKept == [][Post => quiet = 0]_vars

\* Seen from the site the source is a polite client: requests spaced by the
\* interval, retries and pages alike, at most three for a page, none after
\* it has ended (ExperienceApiPacer, fetch_experience_api_page).
Polite == INSTANCE PoliteClient WITH
    BaseDelay <- Interval,
    MaxAttempts <- MaxRequestAttempts,
    tries <- CASE pc = "pace" -> attempt - 1
               [] pc = "done" -> 0
               [] OTHER -> attempt,
    left <- (pc = "done")
BehavesPolitely == Polite!Spec

\* The source ends, however the list changes and whatever is answered but
\* for a 429 with an endless Retry-After: nothing else keeps it, and with it
\* the whole run, waiting for ever (fetch_experience_api_page).
ApiEnds == <>(outcome # "running" \/ pc = "asleep")
=============================================================================
