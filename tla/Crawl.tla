-------------------------------- MODULE Crawl --------------------------------
(***************************************************************************)
(* The crawler as a whole: scheduler jobs that discover pages and publish  *)
(* fetch messages (scheduler.py, discovery/writer.py), the durable queue   *)
(* between them (rabbit.py and the broker), the workers that fetch and     *)
(* store pages (worker.py), and the site that edits its pages meanwhile.   *)
(*                                                                         *)
(* Every database session is two steps, the read and the commit, since     *)
(* other processes run between them.  A message a worker has prefetched    *)
(* but not started counts as still in the queue: the broker puts it back   *)
(* whenever the worker stops.                                              *)
(***************************************************************************)
EXTENDS PageTable, FetchDecision, FiniteSets

CONSTANTS
    Pages,        \* page identities the site has
    Workers,      \* worker processes
    Schedulers,   \* scheduler processes; each runs one job after another
    Msgs,         \* identities of messages; one is reused once acknowledged
    NoPage,       \* content of a message that names no page, and "no page"
    Replies,      \* the replies a GET may have
    MaxAttempts,  \* FETCH_MAX_ATTEMPTS
    MaxEdits,     \* bound: edits the site makes
    MaxFaults     \* bound: crashes, lost connections and failed publications

ASSUME ProcessesAssumption ==
    /\ Workers \cap {"free", "ready"} = {}
    /\ NoPage \notin Pages
ASSUME RepliesAssumption == Replies \subseteq Reply
ASSUME AttemptsAssumption == MaxAttempts \in Nat \ {0}
ASSUME BoundsAssumption == MaxEdits \in Nat /\ MaxFaults \in Nat

VARIABLES
    row,        \* the row of each page in `pages`
    file,       \* hash of the body in each page's gzip file, None: no file
    live,       \* the edit each page of the site shows now
    clock,      \* number of edits made: the time
    msgAt,      \* where each message is: "free", "ready" or at a worker
    msgPage,    \* the page each message names
    announced,  \* history: a message was published since the row last
                \* became pending
    faults      \* number of faults so far

\* Worker-local variables
VARIABLES
    pc,         \* step of handle_message
    page,       \* page of the message in hand
    attempt,    \* attempt_no of fetch_with_retry
    streak,     \* consecutive_429
    got,        \* outcome of the fetch
    txn         \* transaction of the open session

\* Scheduler-local variables
VARIABLES
    spc,        \* step of the job
    listing,    \* the job's sources have not ended (or not begun) to list
    canPublish, \* dispatch enabled, connected and not failed
    todo,       \* candidate rows of _publish_backlog not yet handled
    batch,      \* listed pages waiting for the writer
    stx,        \* transaction of the open session, per page
    dispatch    \* pages to publish now

store == <<row, file>>
site == <<live, clock>>
broker == <<msgAt, msgPage, announced>>
worker == <<pc, page, attempt, streak, got, txn>>
scheduler == <<spc, listing, canPublish, todo, batch, stx, dispatch>>
vars == <<store, site, broker, faults, worker, scheduler>>

WorkerStep == {"stopped", "idle", "check", "request", "store", "read",
               "commit", "ack"}
JobStep == {"off", "next", "requeue", "backlogPublish", "discover", "write",
            "batchPublish"}

Outcome == [error : FetchError, body : Stamp, exit : BOOLEAN]
NoOutcome == [error |-> "none", body |-> None, exit |-> FALSE]

Candidate == [page : Pages, retryable : BOOLEAN]

\* Listing state of a page in a batch: not listed, or the latest edit time.
NotListed == -2
EmptyBatch == [p \in Pages |-> NotListed]
NoTransactions == [p \in Pages |-> NoTransaction]

Set(f, x, v) == [f EXCEPT ![x] = v]

-----------------------------------------------------------------------------
(* The queue *)

Held(w) == {m \in Msgs : msgAt[m] = w}

\* What the broker does with the messages of a worker that is gone.
Requeued(w) == [m \in Msgs |-> IF msgAt[m] = w THEN "ready" ELSE msgAt[m]]

Free == {m \in Msgs : msgAt[m] = "free"}

Enqueue(m, p) ==
    /\ msgAt' = Set(msgAt, m, "ready")
    /\ msgPage' = Set(msgPage, m, p)
    /\ announced' = Set(announced, p, TRUE)

\* A row that becomes pending has not been announced.
CommitRows(newRow) ==
    /\ row' = newRow
    /\ announced' = [p \in Pages |->
           IF newRow[p].status = "pending" /\ row[p].status # "pending"
           THEN FALSE
           ELSE announced[p]]

\* The messages found in the queue at start are whatever a previous
\* deployment left there; the database is empty.
Init ==
    /\ row = [p \in Pages |-> AbsentRow]
    /\ file = [p \in Pages |-> None]
    /\ live = [p \in Pages |-> 0]
    /\ clock = 0
    /\ msgAt \in [Msgs -> {"free", "ready"}]
    /\ msgPage \in [Msgs -> Pages \cup {NoPage}]
    /\ \A m \in Msgs : msgAt[m] = "free" => msgPage[m] = NoPage
    /\ announced = [p \in Pages |-> FALSE]
    /\ faults = 0
    /\ pc = [w \in Workers |-> "stopped"]
    /\ page = [w \in Workers |-> NoPage]
    /\ attempt = [w \in Workers |-> 0]
    /\ streak = [w \in Workers |-> 0]
    /\ got = [w \in Workers |-> NoOutcome]
    /\ txn = [w \in Workers |-> NoTransaction]
    /\ spc = [s \in Schedulers |-> "off"]
    /\ listing = [s \in Schedulers |-> FALSE]
    /\ canPublish = [s \in Schedulers |-> FALSE]
    /\ todo = [s \in Schedulers |-> {}]
    /\ batch = [s \in Schedulers |-> EmptyBatch]
    /\ stx = [s \in Schedulers |-> NoTransactions]
    /\ dispatch = [s \in Schedulers |-> {}]

-----------------------------------------------------------------------------
(* Workers *)

\* The process is gone: its memory is lost and its messages go back.
Stop(w) ==
    /\ msgAt' = Requeued(w)
    /\ pc' = Set(pc, w, "stopped")
    /\ page' = Set(page, w, NoPage)
    /\ attempt' = Set(attempt, w, 0)
    /\ streak' = Set(streak, w, 0)
    /\ got' = Set(got, w, NoOutcome)
    /\ txn' = Set(txn, w, NoTransaction)
    /\ UNCHANGED <<msgPage, announced>>

WorkerStart(w) ==
    /\ pc[w] = "stopped"
    /\ pc' = Set(pc, w, "idle")
    /\ UNCHANGED <<store, site, broker, faults, page, attempt, streak, got,
                   txn, scheduler>>

Take(w, m) ==
    /\ pc[w] = "idle"
    /\ msgAt[m] = "ready"
    /\ msgAt' = Set(msgAt, m, w)
    /\ pc' = Set(pc, w, "check")
    /\ page' = Set(page, w, msgPage[m])
    /\ UNCHANGED <<store, site, msgPage, announced, faults, attempt, streak,
                   got, txn, scheduler>>

\* Mutant: an undecodable message is not sorted out.
SettledNotDecodedMutant(p) ==
    p \in Pages /\ row[p].status \in {"absent", "success"}

\* Mutant: no check for a page already fetched.
SettledIfMissingMutant(p) ==
    p \notin {q \in Pages : row[q].status # "absent"}

\* Nothing to fetch: an invalid message, a missing row, or a page done.
Settled(p) ==
    p \notin {q \in Pages : row[q].status \in {"pending", "failed"}}

\* Mutant: returns without acknowledging when there is nothing to fetch.
CheckWithoutAckMutant(w) ==
    /\ pc[w] = "check"
    /\ \/ /\ Settled(page[w])
          /\ pc' = Set(pc, w, "idle")
          /\ page' = Set(page, w, NoPage)
          /\ UNCHANGED attempt
       \/ /\ ~Settled(page[w])
          /\ pc' = Set(pc, w, "request")
          /\ attempt' = Set(attempt, w, 1)
          /\ UNCHANGED page
    /\ UNCHANGED <<store, site, broker, faults, streak, got, txn, scheduler>>

\* Mutant: the message is acknowledged before the work is done.
CheckAckingMutant(w) ==
    /\ pc[w] = "check"
    /\ pc' = Set(pc, w, IF Settled(page[w]) THEN "idle" ELSE "request")
    /\ attempt' = Set(attempt, w, IF Settled(page[w]) THEN 0 ELSE 1)
    /\ page' = IF Settled(page[w]) THEN Set(page, w, NoPage) ELSE page
    /\ msgAt' = [m \in Msgs |-> IF msgAt[m] = w THEN "free" ELSE msgAt[m]]
    /\ msgPage' = [m \in Msgs |-> IF msgAt[m] = w THEN NoPage ELSE msgPage[m]]
    /\ UNCHANGED <<store, site, announced, faults, streak, got, txn, scheduler>>

Check(w) ==
    /\ pc[w] = "check"
    /\ \/ /\ Settled(page[w])
          /\ pc' = Set(pc, w, "ack")
          /\ UNCHANGED attempt
       \/ /\ ~Settled(page[w])
          /\ pc' = Set(pc, w, "request")
          /\ attempt' = Set(attempt, w, 1)
    /\ UNCHANGED <<store, site, broker, faults, page, streak, got, txn,
                   scheduler>>

\* One GET, its classification, and what fetch_with_retry does next.
Request(w) ==
    /\ pc[w] = "request"
    /\ \E r \in Replies :
          LET error == ErrorOf(streak[w], r)
          IN  /\ r.kind # "escape"
              /\ streak' = Set(streak, w, NextStreak(streak[w], r))
              /\ \/ /\ Retries(error, attempt[w], MaxAttempts)
                    /\ attempt' = Set(attempt, w, attempt[w] + 1)
                    /\ UNCHANGED <<pc, got>>
                 \/ /\ error = "none"
                    /\ pc' = Set(pc, w, "store")
                    /\ got' = Set(got, w, [error |-> "none",
                                           body |-> live[page[w]],
                                           exit |-> FALSE])
                    /\ attempt' = Set(attempt, w, 0)
                 \/ /\ error # "none"
                    /\ ~Retries(error, attempt[w], MaxAttempts)
                    /\ pc' = Set(pc, w, "read")
                    /\ got' = Set(got, w, [error |-> error,
                                           body |-> None,
                                           exit |-> ExitWorker(streak[w], r)])
                    /\ attempt' = Set(attempt, w, 0)
    /\ UNCHANGED <<store, site, broker, faults, page, txn, scheduler>>

\* An exception fetch_with_retry does not catch ends the process.
RequestEscapes(w) ==
    /\ pc[w] = "request"
    /\ \E r \in Replies : r.kind = "escape"
    /\ Stop(w)
    /\ UNCHANGED <<store, site, faults, scheduler>>

\* Mutant: the temporary file is never moved into place.
StoreWithoutReplaceMutant(w) ==
    /\ pc[w] = "store"
    /\ pc' = Set(pc, w, "read")
    /\ UNCHANGED <<store, site, broker, faults, page, attempt, streak, got, txn,
                   scheduler>>

\* os.replace of the page's gzip file.
Store(w) ==
    /\ pc[w] = "store"
    /\ file' = Set(file, page[w], got[w].body)
    /\ pc' = Set(pc, w, "read")
    /\ UNCHANGED <<row, site, broker, faults, page, attempt, streak, got, txn,
                   scheduler>>

\* The row a worker wants after the fetch, given the row it read.
FetchedRow(r, outcome, now) ==
    IF outcome.error = "none"
    THEN SuccessRow(r, outcome.body, now)
    ELSE FailedRow(r, outcome.error)

ResultRead(w) ==
    /\ pc[w] = "read"
    /\ txn' = Set(txn, w, [old |-> row[page[w]],
                           new |-> FetchedRow(row[page[w]], got[w], clock)])
    /\ pc' = Set(pc, w, "commit")
    /\ UNCHANGED <<store, site, broker, faults, page, attempt, streak, got,
                   scheduler>>

ResultCommit(w) ==
    /\ pc[w] = "commit"
    /\ CommitRows(Set(row, page[w], Flush(row[page[w]], txn[w])))
    /\ txn' = Set(txn, w, NoTransaction)
    /\ pc' = Set(pc, w, "ack")
    /\ UNCHANGED <<file, site, msgAt, msgPage, faults, page, attempt, streak,
                   got, scheduler>>

\* The acknowledgement of a delivery that still has its channel.
Ack(w) ==
    /\ pc[w] = "ack"
    /\ Held(w) # {}
    /\ msgAt' = [m \in Msgs |-> IF msgAt[m] = w THEN "free" ELSE msgAt[m]]
    /\ msgPage' = [m \in Msgs |-> IF msgAt[m] = w THEN NoPage ELSE msgPage[m]]
    /\ pc' = Set(pc, w, IF got[w].exit THEN "stopped" ELSE "idle")
    /\ streak' = IF got[w].exit THEN Set(streak, w, 0) ELSE streak
    /\ page' = Set(page, w, NoPage)
    /\ got' = Set(got, w, NoOutcome)
    /\ UNCHANGED <<store, site, announced, faults, attempt, txn, scheduler>>

\* Without its channel the acknowledgement raises and ends the process.
AckRaises(w) ==
    /\ pc[w] = "ack"
    /\ Held(w) = {}
    /\ Stop(w)
    /\ UNCHANGED <<store, site, faults, scheduler>>

\* The process is killed, or a database or file operation raises.
WorkerCrash(w) ==
    /\ pc[w] # "stopped"
    /\ faults < MaxFaults
    /\ faults' = faults + 1
    /\ Stop(w)
    /\ UNCHANGED <<store, site, scheduler>>

\* The broker loses the worker's connection: it puts the message in hand
\* back while the worker goes on with it.
Disconnect(w) ==
    /\ Held(w) # {}
    /\ faults < MaxFaults
    /\ faults' = faults + 1
    /\ msgAt' = Requeued(w)
    /\ UNCHANGED <<store, site, msgPage, announced, worker, scheduler>>

HandleMessage(w) ==
    \/ Check(w)
    \/ Request(w)
    \/ RequestEscapes(w)
    \/ Store(w)
    \/ ResultRead(w)
    \/ ResultCommit(w)
    \/ Ack(w)
    \/ AckRaises(w)

-----------------------------------------------------------------------------
(* Scheduler jobs *)

\* Every local variable of a job back to its value between jobs.
JobOver(s) ==
    /\ spc' = Set(spc, s, "off")
    /\ listing' = Set(listing, s, FALSE)
    /\ canPublish' = Set(canPublish, s, FALSE)
    /\ todo' = Set(todo, s, {})
    /\ batch' = Set(batch, s, EmptyBatch)
    /\ stx' = Set(stx, s, NoTransactions)
    /\ dispatch' = Set(dispatch, s, {})

\* Mutant: only retryable failures are candidates.
CandidatesRetryableMutant ==
    {[page |-> p, retryable |-> TRUE] : p \in {q \in Pages : Retryable(row[q])}}

\* Rows _candidate_rows selects.
Candidates ==
    {[page |-> p, retryable |-> Retryable(row[p])] :
        p \in {q \in Pages : row[q].status = "pending" \/ Retryable(row[q])}}

\* publish-pending or full-scan: connected, then _candidate_rows.
StartBacklog(s) ==
    /\ spc[s] = "off"
    /\ spc' = Set(spc, s, "next")
    /\ listing' \in {Set(listing, s, b) : b \in BOOLEAN}
    /\ canPublish' = Set(canPublish, s, TRUE)
    /\ todo' = Set(todo, s, Candidates)
    /\ UNCHANGED <<store, site, broker, faults, worker, batch, stx, dispatch>>

\* discover-only, or a full-scan that could not connect to the broker.
StartDiscovery(s) ==
    /\ spc[s] = "off"
    /\ spc' = Set(spc, s, "discover")
    /\ listing' = Set(listing, s, TRUE)
    /\ UNCHANGED <<store, site, broker, faults, worker, canPublish, todo,
                   batch, stx, dispatch>>

\* The next candidate; one listed as retryable is read again first.
PickCandidate(s) ==
    /\ spc[s] = "next"
    /\ \E c \in todo[s] :
          /\ todo' = Set(todo, s, todo[s] \ {c})
          /\ dispatch' = Set(dispatch, s, {c.page})
          /\ \/ /\ c.retryable
                /\ spc' = Set(spc, s, "requeue")
                /\ stx' = Set(stx, s,
                       Set(NoTransactions, c.page,
                           [old |-> row[c.page],
                            new |-> RequeuedRow(row[c.page])]))
             \/ /\ ~c.retryable
                /\ spc' = Set(spc, s, "backlogPublish")
                /\ UNCHANGED stx
    /\ UNCHANGED <<store, site, broker, faults, worker, listing, canPublish,
                   batch>>

\* Commit of the rows a session of s has read.
Flushed(s) == [p \in Pages |-> Flush(row[p], stx[s][p])]

RequeueCommit(s) ==
    /\ spc[s] = "requeue"
    /\ CommitRows(Flushed(s))
    /\ stx' = Set(stx, s, NoTransactions)
    /\ spc' = Set(spc, s, "backlogPublish")
    /\ UNCHANGED <<file, site, msgAt, msgPage, faults, worker, listing,
                   canPublish, todo, batch, dispatch>>

EndBacklog(s) ==
    /\ spc[s] = "next"
    /\ todo[s] = {}
    /\ \/ /\ listing[s]
          /\ spc' = Set(spc, s, "discover")
          /\ UNCHANGED <<listing, canPublish, todo, batch, stx, dispatch>>
       \/ /\ ~listing[s]
          /\ JobOver(s)
    /\ UNCHANGED <<store, site, broker, faults, worker>>

\* publish_page of one id, confirmed by the broker.
Publish(s) ==
    /\ spc[s] \in {"backlogPublish", "batchPublish"}
    /\ \E p \in dispatch[s], m \in Free :
          /\ Enqueue(m, p)
          /\ dispatch' = Set(dispatch, s, dispatch[s] \ {p})
          /\ spc' = Set(spc, s,
                 CASE spc[s] = "backlogPublish" -> "next"
                   [] dispatch[s] = {p} -> "discover"
                   [] OTHER -> "batchPublish")
    /\ UNCHANGED <<store, site, faults, worker, listing, canPublish, todo, batch,
                   stx>>

\* publish_page raises, before or after the broker took the message: this
\* job publishes nothing more.
PublishFails(s) ==
    /\ spc[s] \in {"backlogPublish", "batchPublish"}
    /\ faults < MaxFaults
    /\ faults' = faults + 1
    /\ \E p \in dispatch[s] :
          \/ UNCHANGED broker
          \/ \E m \in Free : Enqueue(m, p)
    /\ \/ /\ listing[s] \/ spc[s] = "batchPublish"
          /\ spc' = Set(spc, s, "discover")
          /\ canPublish' = Set(canPublish, s, FALSE)
          /\ todo' = Set(todo, s, {})
          /\ dispatch' = Set(dispatch, s, {})
          /\ UNCHANGED <<listing, batch, stx>>
       \/ /\ spc[s] = "backlogPublish"
          /\ ~listing[s]
          /\ JobOver(s)
    /\ UNCHANGED <<store, site, worker>>

Discovering(s) == spc[s] \in {"discover", "write", "batchPublish"}

\* A source lists p, with the time of its last edit or without; the
\* producers run on while the writer writes and the scheduler publishes.
Observe(s, p) ==
    /\ Discovering(s)
    /\ listing[s]
    /\ \E modified \in {live[p], None} :
          batch' = Set(batch, s, Set(batch[s], p, Later(batch[s][p], modified)))
    /\ UNCHANGED <<store, site, broker, faults, worker, spc, listing, canPublish,
                   todo, stx, dispatch>>

\* Every source has returned: the writer is sent the stop token.
SourcesEnd(s) ==
    /\ Discovering(s)
    /\ listing[s]
    /\ listing' = Set(listing, s, FALSE)
    /\ UNCHANGED <<store, site, broker, faults, worker, spc, canPublish, todo,
                   batch, stx, dispatch>>

Listed(s) == {p \in Pages : batch[s][p] # NotListed}

\* Mutant: the pages are published from inside the session.
WriteReadPublishingMutant(s) ==
    /\ spc[s] = "discover"
    /\ Listed(s) # {}
    /\ stx' = Set(stx, s, [p \in Pages |->
           IF p \in Listed(s)
           THEN [old |-> row[p], new |-> DiscoveredRow(row[p], batch[s][p])]
           ELSE NoTransaction])
    /\ dispatch' = Set(dispatch, s,
           {p \in Listed(s) : Dispatchable(row[p], batch[s][p])})
    /\ batch' = Set(batch, s, EmptyBatch)
    /\ spc' = Set(spc, s,
           IF canPublish[s] /\ dispatch'[s] # {} THEN "batchPublish" ELSE "write")
    /\ UNCHANGED <<store, site, broker, faults, worker, listing, canPublish, todo>>

\* write_discovered_batch: the existing rows are read, changes are made.
WriteRead(s) ==
    /\ spc[s] = "discover"
    /\ Listed(s) # {}
    /\ stx' = Set(stx, s, [p \in Pages |->
           IF p \in Listed(s)
           THEN [old |-> row[p], new |-> DiscoveredRow(row[p], batch[s][p])]
           ELSE NoTransaction])
    /\ dispatch' = Set(dispatch, s,
           {p \in Listed(s) : Dispatchable(row[p], batch[s][p])})
    /\ batch' = Set(batch, s, EmptyBatch)
    /\ spc' = Set(spc, s, "write")
    /\ UNCHANGED <<store, site, broker, faults, worker, listing, canPublish, todo>>

\* The batch commits and its new and outdated pages go to publication.
WriteCommit(s) ==
    /\ spc[s] = "write"
    /\ \A p \in Pages : ~Conflicts(row[p], stx[s][p])
    /\ CommitRows(Flushed(s))
    /\ stx' = Set(stx, s, NoTransactions)
    /\ \/ /\ canPublish[s] /\ dispatch[s] # {}
          /\ spc' = Set(spc, s, "batchPublish")
          /\ UNCHANGED dispatch
       \/ /\ ~canPublish[s] \/ dispatch[s] = {}
          /\ spc' = Set(spc, s, "discover")
          /\ dispatch' = Set(dispatch, s, {})
    /\ UNCHANGED <<file, site, msgAt, msgPage, faults, worker, listing,
                   canPublish, todo, batch>>

\* Mutant: the conflict is logged and the batch published all the same.
WriteConflictsPublishingMutant(s) ==
    /\ spc[s] = "write"
    /\ \E p \in Pages : Conflicts(row[p], stx[s][p])
    /\ stx' = Set(stx, s, NoTransactions)
    /\ spc' = Set(spc, s,
           IF canPublish[s] /\ dispatch[s] # {} THEN "batchPublish" ELSE "discover")
    /\ UNCHANGED <<store, site, broker, faults, worker, listing, canPublish,
                   todo, batch, dispatch>>

\* Another scheduler inserted one of the pages first: the writer raises and
\* the job ends.
WriteConflicts(s) ==
    /\ spc[s] = "write"
    /\ \E p \in Pages : Conflicts(row[p], stx[s][p])
    /\ JobOver(s)
    /\ UNCHANGED <<store, site, broker, faults, worker>>

FinishJob(s) ==
    /\ spc[s] = "discover"
    /\ ~listing[s]
    /\ Listed(s) = {}
    /\ JobOver(s)
    /\ UNCHANGED <<store, site, broker, faults, worker>>

\* The process is killed, or a database operation or a source raises.
SchedulerCrash(s) ==
    /\ spc[s] # "off"
    /\ faults < MaxFaults
    /\ faults' = faults + 1
    /\ JobOver(s)
    /\ UNCHANGED <<store, site, broker, worker>>

RunJob(s) ==
    \/ PickCandidate(s)
    \/ RequeueCommit(s)
    \/ EndBacklog(s)
    \/ Publish(s)
    \/ WriteRead(s)
    \/ WriteCommit(s)
    \/ WriteConflicts(s)
    \/ FinishJob(s)

-----------------------------------------------------------------------------
(* The site edits a page. *)
Edit(p) ==
    /\ clock < MaxEdits
    /\ clock' = clock + 1
    /\ live' = Set(live, p, clock + 1)
    /\ UNCHANGED <<store, broker, faults, worker, scheduler>>

Next ==
    \/ \E w \in Workers :
          \/ WorkerStart(w)
          \/ \E m \in Msgs : Take(w, m)
          \/ HandleMessage(w)
          \/ WorkerCrash(w)
          \/ Disconnect(w)
    \/ \E s \in Schedulers :
          \/ StartBacklog(s)
          \/ StartDiscovery(s)
          \/ RunJob(s)
          \/ PublishFails(s)
          \/ \E p \in Pages : Observe(s, p)
          \/ SourcesEnd(s)
          \/ SchedulerCrash(s)
    \/ \E p \in Pages : Edit(p)

Spec == Init /\ [][Next]_vars
=============================================================================
