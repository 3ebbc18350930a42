--------------------------- MODULE CrawlProperties ---------------------------
(***************************************************************************)
(* What the crawler promises, over the model of Crawl.                     *)
(***************************************************************************)
EXTENDS Crawl

\* Every variable holds a value the program can give it; a worker and a
\* scheduler have what their step needs (worker.py, scheduler.py,
\* discovery/writer.py).
TypeOK ==
    /\ row \in [Pages -> Row]
    /\ file \in [Pages -> Stamp]
    /\ live \in [Pages -> Nat]
    /\ clock \in Nat
    /\ msgAt \in [Msgs -> {"free", "ready"} \cup Workers]
    /\ msgPage \in [Msgs -> Pages \cup {NoPage}]
    /\ announced \in [Pages -> BOOLEAN]
    /\ faults \in Nat
    /\ pc \in [Workers -> WorkerStep]
    /\ page \in [Workers -> Pages \cup {NoPage}]
    /\ \A w \in Workers :
          pc[w] \in {"request", "store", "read", "commit"} => page[w] \in Pages
    /\ attempt \in [Workers -> 0..MaxAttempts]
    /\ streak \in [Workers -> Nat]
    /\ got \in [Workers -> Outcome]
    /\ txn \in [Workers -> Transaction]
    /\ spc \in [Schedulers -> JobStep]
    /\ listing \in [Schedulers -> BOOLEAN]
    /\ canPublish \in [Schedulers -> BOOLEAN]
    /\ todo \in [Schedulers -> SUBSET Candidate]
    /\ batch \in [Schedulers -> [Pages -> Stamp \cup {NotListed}]]
    /\ stx \in [Schedulers -> [Pages -> Transaction]]
    /\ dispatch \in [Schedulers -> SUBSET Pages]

-----------------------------------------------------------------------------
(* No task is lost *)

\* Processing m will still move page p out of "pending": m is queued, or
\* its worker has yet to commit a result over a pending row.
WillSettle(w) ==
    \/ pc[w] \in {"check", "request", "store", "read"}
    \/ pc[w] = "commit" /\ txn[w].old.status = "pending"

LiveMessage(m, p) ==
    /\ msgPage[m] = p
    /\ \/ msgAt[m] = "ready"
       \/ \E w \in Workers : msgAt[m] = w /\ WillSettle(w)

\* A page that is pending and was published since it became so has a
\* message that will still be worked on: no crash, redelivery, duplicate or
\* concurrent session of worker.py and scheduler.py drops the task (the ACK
\* follows the commit, a requeue precedes its publication).
NoLostTask ==
    \A p \in Pages :
        row[p].status = "pending" /\ announced[p] =>
            \E m \in Msgs : LiveMessage(m, p)

-----------------------------------------------------------------------------
(* Rows, files and time *)

\* A page recorded as fetched has its gzip file, whatever crashed between
\* os.replace and the commit of handle_message.
SuccessHasFile ==
    \A p \in Pages :
        row[p].status = "success" =>
            /\ file[p] # None
            /\ row[p].body_sha256 # None
            /\ row[p].last_fetched_at # None

\* The edit time recorded for a page never goes back, although workers and
\* the scheduler commit over each other's reads: a worker's UPDATE does not
\* carry the column it only read (worker.py, ORM unit of work).
EditTimeKept ==
    [][\A p \in Pages :
          row'[p].source_modified_at >= row[p].source_modified_at]_vars

\* A message is published only for a page whose row is committed: a worker
\* that takes it at once finds the row (scheduler.py on_committed_batch).
PublishAfterCommit ==
    [][\A m \in Msgs :
          msgAt[m] = "free" /\ msgAt'[m] = "ready" =>
              row[msgPage'[m]].status # "absent"]_vars

-----------------------------------------------------------------------------
(* One worker: the guarantees duplicates of a message do not break *)

\* A page recorded as fetched describes the file on disk: same hash, a fetch
\* time, no error left over (handle_message, success branch).
SuccessDescribesFile ==
    \A p \in Pages :
        row[p].status = "success" =>
            /\ file[p] # None
            /\ row[p].body_sha256 = file[p]
            /\ row[p].last_error_type = "none"
            /\ row[p].last_fetched_at # None

\* A page recorded as fetched never turns into a failed one; only the
\* discovery of an edit or a requeue takes it back to pending.
SuccessKept ==
    [][\A p \in Pages :
          row[p].status = "success" => row'[p].status \in {"success", "pending"}]_vars

\* A fetched page is not fetched again by a duplicate of its message: as
\* long as its row stays a success its file is not written.
FileKept ==
    [][\A p \in Pages :
          row[p].status = "success" => file'[p] = file[p]]_vars

\* The stored hash is a body the site served, never one newer than the
\* fetch time the row carries, which the next discovery compares edits with.
FetchTimeCoversBody ==
    \A p \in Pages : row[p].body_sha256 <= row[p].last_fetched_at
-----------------------------------------------------------------------------
(* Liveness *)

\* Workers are kept running and their steps end (client timeouts bound a
\* GET); the queue is first-in first-out, so a message that keeps coming
\* back to its head is delivered in the end.
WorkerFairness ==
    /\ \A w \in Workers : WF_vars(WorkerStart(w)) /\ WF_vars(HandleMessage(w))
    /\ \A m \in Msgs : SF_vars(\E w \in Workers : Take(w, m))

\* Jobs are started again and again (cron or operator) and their steps end;
\* a source is bounded (max_pages, max_documents), so it ends.
SchedulerFairness ==
    \A s \in Schedulers :
        /\ SF_vars(StartBacklog(s))
        /\ WF_vars(RunJob(s))
        /\ WF_vars(SourcesEnd(s))

FairWorkers == Spec /\ WorkerFairness
FairSystem == FairWorkers /\ SchedulerFairness

\* Every message is settled: handled and acknowledged (worker.py: each end
\* of handle_message acknowledges).
MessagesSettle ==
    \A m \in Msgs : msgAt[m] # "free" ~> msgAt[m] = "free"

\* A pending page is fetched or given up on, whatever failed before: a later
\* backlog publishes what an interrupted job did not (_publish_backlog).
PendingResolved ==
    \A p \in Pages : row[p].status = "pending" ~> row[p].status # "pending"

=============================================================================
