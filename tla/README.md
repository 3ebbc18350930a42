# A model of nowcoder_crawler

TLA+ modules, TLC runs and TLAPS proofs for the crawler in `src/`: a scheduler
that discovers pages and publishes fetch tasks, a RabbitMQ queue, worker
processes that fetch and store the pages, and a MySQL table both sides write.

`PROJECT.json` lists the components, runs, mutants, findings, hazards and
theorems, and maps definitions to source lines.

## The system

| part | state | operations | talks to |
|---|---|---|---|
| worker (`worker.py`) | message in hand, HTTP client, pacer, count of 429 | `run_worker`, `handle_message` | queue (deliver, ACK), site (GET), file system, database |
| fetch policy (`fetcher.py`) | `consecutive_429`, `_last_started` | `fetch_with_retry`, `validate_response`, `parse_retry_after`, `RequestPacer.wait` | called by the worker; calls back for each audit row |
| storage (`storage.py`) | one `.html.gz` per page | `write_gzip_atomic` (temporary file, `os.replace`) | called by the worker |
| scheduler (`scheduler.py`) | `DispatchState`, `RunCounters`, the row of `crawl_runs` | `full-scan`, `discover-only`, `publish-pending` | database, queue, discovery (callback per committed batch) |
| discovery pipeline (`discovery/service.py`) | bounded `asyncio.Queue`, producer and writer tasks, stop token | `run_discovery_pipeline` | sources and writer, all on one event loop |
| discovery writer (`discovery/writer.py`) | the batch being collected | `DiscoveryWriter.run`, `write_discovered_batch` (in a thread) | database |
| API source (`discovery/experience_api.py`) | page number, pacer | `discover` | site, queue (`emit`) |
| sitemap source (`discovery/sitemap.py`) | documents to visit and visited, pages seen | `discover_sitemaps` | site, queue (`emit`) |
| queue (`rabbit.py`) | durable messages, ready or unacknowledged | publish with confirm, deliver, ACK, requeue | scheduler, worker |
| database (`database.py`, `models.py`) | `pages`, `page_sources`, `fetch_attempts`, `crawl_runs` | `session`: read, change, commit | scheduler, writer, worker |
| identity (`identity.py`) | none | URL or record to page identity | sources, fetcher |
| configuration, command line (`config.py`, `cli.py`) | settings | `from_env`, `main` | everything |

Nothing but the database and the queue is shared between processes, and no lock
is held over an `await`: a worker reads the row, fetches for minutes, replaces
the file, reads the row again in a new session and commits; a scheduler reads
its candidates once and publishes them one by one.  So the hard behaviours are

- two sessions over one row, each committing what it changed since its own
  read (MySQL does not refuse this, and SQLAlchemy sends only changed columns);
- duplicates of a message, from redelivery, from an unconfirmed publication or
  from two backlogs, handled by two workers at once;
- a crash or a lost connection between any two of: replace the file, commit,
  acknowledge; commit, publish, confirm;
- in one discovery run, tasks that wait for each other over a bounded queue
  while one of them may have failed;
- in one worker, a count and a pace that span messages;
- a list that changes while it is paged, and a graph of documents with cycles,
  each read under limits and by requests that fail;
- a command that fails, is interrupted or is killed at any point between its
  settings and its exit code, with a database thread that no interrupt stops.

What makes each part correct:

- **tasks**: a page that is pending and was published is not forgotten; every
  message is settled; a pending page is resolved in the end;
- **rows and files**: a fetched page has its file; with one worker the row
  describes that file and is never damaged by a duplicate; edit times are kept;
- **publication**: after the commit, and only of what needs work;
- **fetch policy**: spaced and bounded requests, Retry-After kept, leaving at
  the third 429 in a row, audit rows that agree with what was done;
- **sources**: a sitemap called complete has been read completely and once; the
  API source misses and repeats no more than the changes of the list explain;
  both are polite; what each found is handed over;
- **tables**: pages, lineage rows and counters agree and tell what was committed,
  however sessions overlap; whatever becomes pending is reported for publication;
- **discovery run**: nothing listed is lost or stored twice, the command ends
  whatever fails, "success" means complete, and row and exit code agree.

The hazards in `PROJECT.json` give these at the lines where they bite, the ones
no property covers yet included.

## The modules

| module | models | extends |
|---|---|---|
| `PageTable` | a row of `pages`; a session as a pair of the row read and the row wanted; what each transaction asks for | |
| `FetchDecision` | what one reply means: class of error, streak of 429, retry or not | |
| `Crawl` | scheduler jobs, queue, workers, files, site | `PageTable`, `FetchDecision` |
| `CrawlProperties` | properties and fairness of `Crawl` | `Crawl` |
| `CrawlProofs` | theorems about `Crawl` | `CrawlProperties` |
| `RowProofs` | theorems about overlapping sessions in `Crawl`, and about workers that do not fetch one page at once | `CrawlProofs` |
| `MCCrawl` | instances of `Crawl` for TLC | `CrawlProperties` |
| `PoliteClient` | abstract: what the site may expect of a worker | |
| `Fetcher` | `fetch_with_retry` over many messages, with time; implements `PoliteClient` | `FetchDecision` |
| `FetcherProofs` | theorems about `Fetcher`, its refinement of `PoliteClient` included | `Fetcher` |
| `MCFetcher` | instances of `Fetcher` | `Fetcher` |
| `Identity` | which page a URL or an API record names | |
| `SourceRetry` | the retry loop both sources run around a request | |
| `Sitemap` | `discover_sitemaps` | `Identity`, `SourceRetry` |
| `SitemapProofs` | theorems about `Sitemap` | `Sitemap`, `DataLemmas` |
| `MCSitemap` | documents for TLC | `Sitemap` |
| `ExperienceApi` | `ExperienceApiDiscoverer.discover`, with time; implements `PoliteClient` | `Identity`, `SourceRetry` |
| `ExperienceApiProofs` | theorems about `ExperienceApi`, its refinement of `PoliteClient` included | `ExperienceApi`, `DataLemmas` |
| `MCExperienceApi` | lists of records for TLC | `ExperienceApi` |
| `BatchWrite` | `write_discovered_batch` on both tables, jobs and workers at once | `PageTable` |
| `BatchWriteProofs` | theorems about `BatchWrite` | `BatchWrite`, `DataLemmas` |
| `DataLemmas` | lemmas about sequences, finite sets, maxima, sums and flattening, for the three before | |
| `MCBatchWrite` | batches for TLC | `BatchWrite` |
| `DiscoveryPromise` | abstract: listed items are stored in order, and it returns only when all are | |
| `Discovery` | the pipeline of one run; implements `DiscoveryPromise` | |
| `Config` | which environments `Settings.from_env` accepts | |
| `ScanJob` | a scheduler command from the command line to its exit code, around `Discovery` | `Discovery`, `Config` |
| `ScanJobProofs` | theorems about `ScanJob`, the refinement of `DiscoveryPromise` included | `ScanJob` |
| `MCDiscovery` | instances of `ScanJob` | `ScanJob` |

The composition is twofold.  `Crawl` puts workers, jobs, queue, table, files and
site together and keeps each of them coarse; `ScanJob` over `Discovery` puts the
tasks of one process together.  `Sitemap` and `ExperienceApi` open up what
`Discovery` calls a producer, `BatchWrite` what it calls `Write`, `Fetcher` what
`Crawl` calls `Request`.

### PageTable and Crawl

A row keeps the five columns that decisions depend on.  Times and hashes are
*stamps*: the number of edits the site had made when the value was taken, so a
body, its hash and its edit time are one number and NULL is `None`, below all.
`Transaction` is what a `with database.session()` block amounts to: the row it
read and the row it wants.  `Flush` applies it to the row as it is at the
commit, column by column and only where the two differ, which is what
SQLAlchemy's UPDATE does.  `Conflicts` is the unique key.

`Crawl` has one variable per local of a worker (`page`, `attempt`, `streak`,
`got`, `txn`) and of a scheduler (`listing`, `canPublish`, `todo`, `batch`,
`stx`, `dispatch`), and these steps:

| code | actions |
|---|---|
| `run_worker` | `WorkerStart`, `Take`, exit in `Ack` |
| `handle_message` | `Check`, `Request` (one GET and its verdict), `Store` (`os.replace`), `ResultRead`, `ResultCommit`, `Ack` |
| what ends the process | `RequestEscapes` (an exception the fetcher does not catch), `AckRaises` (the channel is gone), `WorkerCrash` |
| broker | `Enqueue`, `Requeued`, `Disconnect` (requeues while the worker goes on) |
| `run_publish_pending`, `_publish_backlog` | `StartBacklog`, `PickCandidate`, `RequeueCommit`, `EndBacklog` |
| `DispatchState.publish_ids` | `Publish`, `PublishFails` (lost, or done and unconfirmed) |
| `full-scan`, `discover-only` | `StartDiscovery` or the end of the backlog, `Observe`, `SourcesEnd`, `FinishJob` |
| `write_discovered_batch` | `WriteRead`, `WriteCommit`, `WriteConflicts` |
| the scheduler dies or raises | `SchedulerCrash` |
| the site | `Edit` |

A worker handles one message at a time, so its prefetched messages count as
still queued.  `announced` is a history variable: the row has been published
since it last became pending.  `faults` counts crashes, lost connections and
failed publications against `MaxFaults`.

### Fetcher

One worker process alone, with time.  `age` is the time since the last request
started, `sleep` what remains of the current `asyncio.sleep`, both relative, so
that the run over endlessly many messages has finitely many states.  `EnterPacer`
is `RequestPacer.wait`, `AnswerFinal` and `AnswerRetry` are the two ends of one
attempt, `trail` holds the rows `_record_attempt` writes for the message.
`recent` (last three responses) and `quiet` (what remains of a Retry-After) are
history variables that only properties read.  An exception the fetcher does not
catch is `Restart` here; `Crawl` says what it does to the message.

### Sitemap and ExperienceApi

`Sitemap` is the loop of `discover_sitemaps`: `queue`, `visited`, `seen` and the
counters are its locals.  `Visit` to `DocumentArrives` is a request with its
retries, `ReadEntry` the body of the inner loop, `HitUrlLimit` and `EndDocument`
the two ways out of it, `Finish` the choice of the stop reason.  What a document
holds is chosen when it is served and remembered in `served`, so one run walks
every graph.  A URL is a record of the facts the code tells apart (host, kind of
path, id, spelling, query), and `IdentityFromUrl` what `identity_from_url` does
with them.  A malformed URL is one that `urljoin` or `urlsplit` refuses
(`ValueError`): `EntryRaises` ends the walk there, with the batch not handed
over.  The roots are assumed to be readable (`SitemapAssumption`): one that is not
ends the source before the walk.

`ExperienceApi` pages through `upstream`, a list that `Insert`, `Delete` and
`Bump` change at any moment.  `EnterPacer` is `ExperienceApiPacer.wait`, `Retry`
and `RequestFails` are the two ends of a failed attempt, and an answer is an
`EmptyPage`, a `ShortPage`, a `FullPage` or one with a record whose id is
malformed (`PageRaises`).  A Retry-After is unreadable, a number of seconds or
*endless*: `float` takes `inf`, and `asyncio.sleep(inf)` never returns
(`SleepsForever`; the state "asleep").  A page of the server has at least as many records as it
declares or, when it declares none, as the default (`DeclaredSizesAssumption`):
otherwise the source would stop at its first page, which the code cannot see.

### BatchWrite

`Read` opens a session of a job: a batch is folded and both tables are read from
one snapshot.  `Commit` writes pages and lineage rows over the tables as they
then are, column by column, and `Refused` is the unique key of either table.
`RollBack` is open to every session (conflict, deadlock victim, lost database).
`Fetch` is a worker's commit in between.  `committed` and `raced` are history
variables: the items in commit order, and the rows that were overwritten by a
session that had not seen their latest state.

### Discovery, Config and ScanJob

Tasks of one event loop: a step is what a task does between two awaits.  A
producer `s` lists `Pages[s][k]` items on its k-th page; items are numbered, so
loss, repetition and order are visible.  The writer is at `queue.get` ("get"),
in the database thread ("write"), or suspended at its `yield` while
`on_committed_batch` publishes ("handle"); only after that does it start a new
batch.  A producer ends with everything asked for (`SourceEnds`), at the page
limit of the API, which the code counts as complete but not as exhausted
(`PageLimitEnds`), at a limit of the sitemap walk (`WalkLimitEnds`), or with an
error (`RequestFails`, `DocumentRaises`).  A failed publication may have reached
the broker; `sent` is what the broker took and `published` what the run counted.
The supervisor waits for the writer or the producers ("watch"), for room
for the stop token ("stop"), for the writer ("drain").  `dispatch` is
`DispatchState`.

`ScanJob` is the process around it.  `stage` says where the command is:

| code | actions |
|---|---|
| `main`, `Settings.from_env`, `_async_main` | `Refuse`, `OpenRun`, `OpenFails` |
| `_run_discovery_job`, before the pipeline | `Connect`, `ConnectFails`, `PublishCandidate`, `PublicationFails`, `BacklogDone`, `BacklogRaises` |
| the pipeline and its callback | `Piped(Next)` with `CountHandled`, `PipelineEnds` |
| after it | `Close`, `Report`, `ReportFails`, `Return` |
| `KeyboardInterrupt` | `Interrupt`, `LateWrite` (the database thread goes on), `LeaveInterrupted` |
| a kill | `Kill` |

`run_publish_pending` takes the same steps without a row and without a pipeline;
it turns every exception into a failed dispatch, which is why `BacklogRaises` has
two cases.

## The runs

Passing runs, all of them exhaustive (none takes more than a minute or two):

| run | instance | question |
|---|---|---|
| `two_workers` | 1 page, 2 workers, 1 scheduler, 2 messages, good, 503 and uncaught replies, 1 fault at any step | can duplicates, requeues, a crash or a lost connection lose a task or leave a success without a file? |
| `one_worker` | 1 page, 1 worker, 2 messages, every class of reply, 2 attempts, 1 edit, 1 fault | with one worker, is the row of a success always true of the file, and kept; does a session that overlaps undo an edit time? |
| `two_schedulers` | 2 pages, 2 schedulers, no worker | is publication after the commit when a batch holds several pages, and nothing of a rolled-back batch published? |
| `progress` | 1 page, 1 worker, 2 messages, 1 fault, all fair | is every message settled, and a pending page resolved although a publication or a process failed? |
| `fetch_policy` | 3 attempts, every class of reply and of Retry-After | does the worker leave at the third 429, retry, pace and record as it should, and does `Fetcher` implement `PoliteClient`? |
| `discovery_run` | the three scheduler commands, two sources, an API of 3 pages asked for 2 and a sitemap of 2 documents, 6 items on the pages asked for, queue and batch of 2, a backlog of 2, environments with up to one defect | does the pipeline implement `DiscoveryPromise`, does every command end, do row, counters and exit code tell what happened, whatever fails, interrupts or kills it? |
| `sitemap_walk` | 3 documents of the site and foreign ones, every document of two of 10 entries (one malformed) and some longer ones, 3 documents, 5 URLs, batches of 2 | is a walk called complete the whole of what can be reached, read once, each page listed once, and what is left behind of what was found at a limit or a malformed location? |
| `api_paging` | 5 records on pages of 2, 2 later ones (one malformed), 3 changes, 4 pages, 3 attempts, Retry-After in the past, beyond every delay and endless | what can a shifting list make the source miss or repeat, is a page handed over whole, does the source keep its pace and end? |
| `batch_write` | 2 jobs with 2 batches each, 2 pages, 2 sources, edit times 1, 2 and none, workers | do both tables and the counters agree and tell what was committed, is every page that becomes pending reported? |

Runs that show a disagreement between the code and what its documents say; TLC
finds the property violated:

| run | what happens |
|---|---|
| `duplicate_regresses` | of two workers with duplicates the slower one fails and turns the other's success into a failure |
| `poison_page` | an HTTP error the fetcher does not catch ends one worker after another on the same message |
| `local_lastmod` | on a host eight hours ahead of UTC a lastmod with an offset is passed on eight hours late |

### What the code does not keep

Besides these three, the models show or the code reads as follows; no run is
spent on them:

- Two workers with duplicates may replace the file in one order and commit in the
  other, so that `body_sha256` is not that of the file (`worker.py:118`).
- A failure committed between the read and the commit of a success leaves its
  error in the row: the session read NULL, assigns None and sends no column
  (`worker.py:132`).  This is why `SuccessDescribesFile` and `SuccessKept` are
  checked and proved for one worker.
- A worker answered 403 or with a risk-control page records the message as blocked
  and takes the next one (`fetcher.py:198`, with `exit_worker` false); the comments
  at `worker.py:66` and `worker.py:204` have it leave, `README.md:14` of the
  repository has not.  `LeavesOnThird429` states what the code does.
- After a 429 on the last attempt of a message nothing waits for its Retry-After
  before the next message (`fetcher.py:211`); `RetryAfterKept` of `Fetcher` is
  about retries only.
- A malformed location in a sitemap document ends the source, and the pages
  collected from that document since the last full batch are lost
  (`discovery/sitemap.py:186`); `HandedOver` says that nothing else loses any.
- A `Retry-After: inf` makes a discovery source, and with it the run, sleep for
  ever (`discovery/__init__.py:28`; the worker caps it); `ApiEnds` says that nothing
  else does.
- A run whose API stopped at `--max-pages` is a success with
  `upstream_exhausted` false (`discovery/experience_api.py:254`,
  `docs/phase2-spec.md:164` wants it so); `SuccessIsComplete` says what such a success covers.
- A message whose publication failed after the broker took it is not counted
  (`scheduler.py:47`); `RowTells` allows this one.
- An edit between the response and the commit of its fetch time is older than that
  time and is not fetched (`worker.py:131`).
- A source that failed after some pages is reported with zero units
  (`discovery/service.py:51`); `RowTells` is about items and messages.
- A command that is killed or interrupted leaves its row at running for ever
  (`scheduler.py:189`).  `ExitTells` says that it never leaves a success.
- An interrupt does not stop the database thread: its batch is committed,
  unpublished and uncounted (`LateWrite`); the next backlog publishes it.
- `_publish_backlog` may publish a page a worker has given up on since the
  candidates were read (`scheduler.py:98`; `docs/phase2-spec.md:533` excludes
  permanent and blocked pages).
- `validate_response` tests the size of a body before its risk-control markers,
  so a small risk-control page is retried (`fetcher.py:110`;
  `docs/phase1-spec.md:327` excludes blocked pages from retries).
- An answer that declares a larger `size` than its pages have ends the API source
  as `short_page`, exhausted, with the rest of the list unread
  (`discovery/experience_api.py:243`).
- A walk whose queue holds only documents already visited when the document limit
  is met is reported as stopped by the limit although it is complete; a page
  listed in two documents keeps the lastmod of the first.
- Two jobs whose sessions overlap may put back the older of two edit times
  (`discovery/writer.py:155`); `RowsTellHistory` excepts exactly these rows
  (`raced`).

Every property of a passing run has a mutant in the model, a plausible slip in
the code, under which TLC finds that property violated in the same run.

**Bounds.**  Two sessions over one row are enough for any lost update, and one
page is enough since rows do not depend on each other; what needs several pages
(batches, conflicts, the order of publications) has runs of its own.  Two
messages are a message and its duplicate.  (A publication waits for a free identity in `Msgs`,
which the broker does not ask for: the set bounds the messages in the queue at
once.)  One edit separates "before" from
"after" for each of hash, fetch time and listed time.  One fault at any step,
together with duplicates already in the queue at the start (`Init` allows any
content), reaches every pair of fault and retry.  In `Fetcher` and `Discovery`
the only bounds are the parameters themselves: three attempts have a first, a
middle and a last one, the Retry-After values are absent, short, above the cap
and in the past; a queue and a batch of 2 with 6 items fill both, and leave a
full and a partial last batch.  There the API always stops at its page limit and the
sitemap is the source that is exhausted; the theorem covers every other list.  Three documents allow cycles, links to a document
not yet visited, to one visited and to itself; five URLs are met within and
between documents.  Three changes of a list of two and a half pages reach every
combination of arrival, removal and move before, on and after the page in hand.
Two batches of two jobs overlap in every way two sessions can.

**Symmetry** is used in safety runs only.

**Deadlock** is checked everywhere but in `two_schedulers`, where no worker
empties the queue, so that its one message makes the schedulers stop.  Models of
something that ends have a last step (`Terminated`, `Gone`) that only its proper
end enables.

**Fairness.**  Workers are restarted and their steps end, because the client
has timeouts (`WorkerFairness`); the queue is first-in first-out, so a message
that returns to its head is delivered in the end (strong fairness of `Take`).
Jobs are started again and again, by cron or by hand, and they end, because
sources are bounded (`SchedulerFairness`).  Nothing is assumed of `Observe`,
`Edit`, crashes or replies.  In `Fetcher` and
`ExperienceApi` time passes and a request is answered, since the clients have
timeouts; only an endless Retry-After is slept for ever.  In `ScanJob` the event loop runs every task that can go on and calls of
the database and the broker end (`JobSpec`).  The latter is an assumption about the
environment: `database.py:14` and `rabbit.py:38` set no timeout, and neither does
anything bound an endless Retry-After of a source.  Nothing is assumed of failures,
interrupts and kills.

## The proofs

`CrawlProofs` proves, for every set of pages, workers, schedulers, messages and
replies and for every bound:

- `TypeCorrect`: `Spec => []TypeOK`.  Besides types it says that a worker past
  its checks works on a page; without it the functions over `Pages` could be
  applied outside their domain.
- `TasksKept`: `Spec => []NoLostTask`, the property `two_workers` checks (there
  without edits, here with any number of them): a page that is pending and was
  published since has a message that will still be worked on.

`NoLostTask` is not inductive: an acknowledgement destroys a message, and only
the history of its worker says that the row is no longer pending because of it.
The invariant is `TaskInv == TypeOK /\ HeldIsInHand /\ ResultIsFinal /\
NoLostTask`.  `HeldIsInHand` says that a message at a worker is the one of the
page in its hand and that a stopped or idle worker holds none; `ResultIsFinal`
that an open transaction of a worker ends in a final status.  The proof goes
action by action: those that leave `row`, `msgAt` and `pc` of other workers
alone are one lemma, a commit is split on whether the row becomes pending
(which clears `announced`), and a requeue of messages only adds live ones.

`RowProofs` adds, over the same constants:

- `FetchedHasFile`: `Spec => []SuccessHasFile`;
- `CommittedFirst`: `Spec => PublishAfterCommit`;
- `MovesApartKeepTimes`: `Spec /\ []MovesApart => EditTimeKept`, where `MovesApart`
  says that no two open sessions of jobs move the edit time of one page.  Two that
  do may put back the older one; this is one of the hazards listed, and the theorem
  says that no other overlap takes a time back.  `EditTimesKept` follows for one
  scheduler (`OneScheduler`).

These are statements about commits of sessions that overlap.  The invariant is
`RowInv == TypeOK /\ RowsGood /\ WorkersSound /\ JobsSound`.  `Sound(t, r, f)`
says what a transaction `t` must keep for its commit over the row `r` *as it has
become* to be harmless: `r` has lost nothing `t` read (`Grows`), `t` itself takes
nothing away, and if it asks for "success" the file is there.  `FlushGood` shows
that such a commit leaves a good row, `StaysSound` that other commits do not
spoil it, and one lemma per kind of session that the program asks for no other
transactions.  `JobsSound` also says that what a job is to publish has a row;
between the read and the commit of a batch, that its transaction asks for one.
For the edit times the invariant gets `WorkersLeaveTimes` (a worker's UPDATE does
not carry the edit time) and `JobsAdvance`.

`FetcherProofs` proves, for every set of replies and every limit and delay, the
five safety properties `fetch_policy` checks: `PolicyTypes`, `LeavesInTime`,
`StoriesTold`, `SilenceKept` and `FetcherIsPolite`, the step refinement of
`PoliteClient`.  The invariant is `PolicyInv == FetcherTypeOK /\ StreakCounts /\
TrailSoFar /\ Spaced /\ QuietCovered`: the streak is the number of 429 at the end
of the last responses (`StreakCounts`; `LeavesOnThird429` says nothing of one or
two of them), the rows of the message in hand belong to attempts that went before
(`TrailSoFar`), a pause once begun covers the base delay (`Spaced`) and the
Retry-After behind it (`QuietCovered`).

`ScanJobProofs` proves all of the safety properties `discovery_run` checks, for
every set of sources, every list they have, every queue and batch size, backlog
and set of environments: `CommandTypeCorrect`, `NothingDropped`,
`BatchByBatch`, `PipelineKeepsPromise` (the refinement of `DiscoveryPromise`),
`RowsTell` (all that was stored, and every message the broker confirmed, is in the
row), `ExitsTell`, `SuccessesComplete` (all there is of an exhausted source, all the
pages allowed of the other).  There are two invariants.
`PipeInv` is about the tasks: `Streams` (what a complete source has done),
`BatchInHand` (a batch is full, partial or empty according to the writer's
step), `InStep` (the supervisor is ahead of no producer, the stop token is met
only after it was put), `UpToDate`, and `HandOver`: some sequence waits in the
queue, nothing but one token is behind it, and what was listed is what was stored,
the batch and this sequence.  `Conserved` follows, but is not inductive: it does not say that
the token is last, so taking it could lose what is behind it.  `CommandInv`
is about the command: `Course` (what a stage knows of those before it),
`Counted` (the counter lags by the batch in the handler), `Taken` (the broker has
at most one message more than is counted, and only after a failure) and `RowWritten` (a
final row is not followed by anything that changes what it counts, an interrupted
run's late commit included).  Each step of a command is a step of the pipeline or
leaves it alone (`JobStepPipes`), so `PipeInv` is proved over the `Next` of `Discovery` alone.

What is fetched is the last part of `RowProofs`, about the four properties of
`one_worker`.  With a second worker all four fail in the code; the cause is two
workers that fetch one page at the same time, through a duplicate or a message
redelivered while its worker still runs.  `ApartKeepsResults` says that nothing else
does: for any number of workers and schedulers, `Spec /\ []Apart` implies all four,
where `Apart` says that no two workers are between the check and the commit of one
page.  `SuccessIsTheFile`, `TimeCoversBody`, `SuccessNeverFails` and
`FileOfSuccessKept` follow for one worker (`OneWorker`), who is always apart.  None of
the four is inductive, because a job commits between the read and the
commit of the worker.  `ResultInv` adds to `RowInv` and the two invariants what
that overlap leaves alone: a transaction of a job carries no column of the result
and sets a status to "pending" only (`JobsLeaveResults`), and the row the worker
read is the one there is but for what jobs write (`WorkersRecord`: from the request
to the commit the row is pending or failed, the body in hand is the file, and the
transaction is over the hash, error and time of the row as it still is).
`FlushRecords` and `FetchedRecords` are the two commits; `KeptResults` covers
every step of the jobs and the site at once, `Others` what a worker leaves alone.

`SitemapProofs` proves all `sitemap_walk` checks, for every site, roots and
limits: `SitemapTypes`, `PagesListedOnce`, `FoundIsHandedOver`,
`DocumentsReadOnce`, `CompleteWalks`.  `WalkInv == TypeInv /\ InHand /\ Collected /\
PagesSound /\ Covered /\ Necessary`.  `Collected`: a batch left over at the end is of
a document with a malformed location, which is what `FoundIsHandedOver` needs.  Completeness has two halves.  `Covered`: every entry of a
document that was read is followed, still in hand, or cut off by a limit, and a
walk cut off does not end as "queue_exhausted".  `Necessary`: whatever set of
documents holds the roots and is closed under the links read so far holds all
that was visited or waits; taking the visited documents for it gives the
other half without an induction over paths.

`ExperienceApiProofs` proves the safety properties of `api_paging`, for every list,
every change of it and every limit: `ApiTypes`, `PagesHandedWhole`,
`MissesAreBounded`, `ApiSilenceKept`, and `ApiIsPolite`, the refinement of
`PoliteClient`.  `MissesBounded` speaks of the end of a walk only.  The invariant says
at every moment where the list stands to the place that was read (`Cut`): the
records of the first list that are before it and were not read (`PassedOver`) are
no more than those removed or moved, and the repetitions so far, together with the
records read that are again behind it (`ToRepeat`), no more than those that arrived
or were moved (`Shifted`).  Each change of the list moves at most one record over
that place, and one proof step per change says which.  `Paced` is what the silence and
the refinement rest on.

`BatchWriteProofs` proves all `batch_write` checks, for every number of jobs, pages,
sources and batches: `BatchTypes`, `OneTransaction`, `RowsAreHistory`,
`PendingIsReported`.  `RowsAreHistory` speaks of source pages, runs and edit times, not of
the times of sighting.  `BatchInv` adds to `TablesAgree` what an open session knows
(`SessionsRead`: what it found is still there, since rows are never deleted, and what
it did not find may be there by now, which is what `Refused` tests), `Nothing`
(a page without a row has no columns, a lineage without a row no history) and
`RowsTell`, the first, last and latest of the committed items of each row (last and
latest for rows that were not raced only).
Folding a batch into a row is then compared with appending it to that
history: `first_seen` comes from the old row if there is one, `last_seen` from the
batch, and the edit time is the later of the two.

`DataLemmas` holds what these three need of data: sums over a set whose function
changes at one place, maxima and minima of finite sets, the parts of a sequence
after `Append`, `RemoveAt` and the like, and `FlattenSeq`.  `Induction` states
induction over a set of numbers and proves it from well-foundedness, since the
library's theorems take an operator and cannot be used here.

The assumptions are those of the modules (`ProcessesAssumption`,
`RepliesAssumption`, `AttemptsAssumption`, `BoundsAssumption`,
`FetcherAssumption`, `DiscoveryAssumption`, `ScanJobAssumption`,
`SitemapAssumption`, `ExperienceApiAssumption`, `DeclaredSizesAssumption`,
`BatchWriteAssumption`): workers are not
called "free" or "ready", `NoPage` is not a page, the stop token is not an item,
replies are replies, jobs are finitely many, the first list has no record twice,
pages are no shorter than declared, the roots of the sitemap are readable, sizes and limits are positive where the
settings demand it.  TLC evaluates them in every run of those modules.  A few
theorems assume more, `OneScheduler`, `OneWorker`, `[]MovesApart` or `[]Apart`,
because what they state fails in the code without it.

Only model-checked: liveness under fairness (`MessagesSettle`, `PendingResolved`,
`MessageEnds`, `ApiEnds`, `RunEnds`), which is out of the prover's reach.  Every
invariant and action property of a passing run is stated by a theorem.

## Not modelled

- The constant columns of `pages` and `page_sources`, and times of rows other than
  the edit and fetch times: no decision reads them.
- The text of what is parsed.  XML, JSON, URLs, records and numbers are reduced to
  what the code finds in them, "unreadable" included; the edit time of an API
  record is left out of `ExperienceApi` and is every time in `BatchWrite`.
- Temporary files of the storage (a kill leaves one behind, which harms no page)
  and a power failure (the code does not sync).
- The parsing of arguments; the settings of the worker beyond their acceptance.
- Packaging and deployment: no behaviour of their own.

## Plan

Written, in this order, most important behaviour first: `PageTable`,
`FetchDecision`, `Crawl` with its properties and proofs; `Fetcher` over
`PoliteClient`; `Discovery` over `DiscoveryPromise`; `Identity`, `SourceRetry`,
`Sitemap` and `ExperienceApi`; `BatchWrite`; `Config` and `ScanJob`.

Left to model: the steps of the storage, and a freshness property over edit,
lastmod, fetch time and clock of several hosts.

Left to prove: that `Crawl` with an outcome per request is what `Fetcher` does
message by message, for which no run states a refinement yet.
