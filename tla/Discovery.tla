------------------------------ MODULE Discovery ------------------------------
(***************************************************************************)
(* One discovery run: the producers, the bounded queue, the batching       *)
(* writer with its database thread, and the supervisor that ties them      *)
(* together (discovery/service.py, discovery/writer.py).  ScanJob runs it. *)
(*                                                                         *)
(* The tasks run on one event loop: a step is what a task does from one    *)
(* await to the next.                                                      *)
(***************************************************************************)
EXTENDS Integers, Sequences, FiniteSets

CONSTANTS
    Sources,    \* requested sources
    Pages,      \* Pages[s]: number of items on each page or document of s
    Paged,      \* sources asked page by page: the API
    MaxPages,   \* how many pages such a source is asked for: --max-pages
    QueueMax,   \* DISCOVERY_QUEUE_MAXSIZE
    BatchSize,  \* DISCOVERY_DB_BATCH_SIZE
    Stop        \* the stop token

\* The items of a source are numbered in the order it lists them.
Item == Sources \X Nat

ASSUME DiscoveryAssumption ==
    /\ Sources # {}
    /\ Pages \in [Sources -> Seq(Nat)]
    /\ Paged \subseteq Sources
    /\ {MaxPages, QueueMax, BatchSize} \subseteq Nat \ {0}
    /\ Stop \notin Item

VARIABLES
    producer,   \* state of each producer task
    complete,   \* SourceResult.complete of an ended producer
    exhausted,  \* SourceResult.upstream_exhausted of an ended producer
    requested,  \* pages or documents each source was asked for
    unsent,     \* items of the current page still to put
    queue,      \* the asyncio.Queue
    writer,     \* state of the writer task
    batch,      \* items the writer has collected
    flushing,   \* the writer has met the stop token
    supervisor, \* state of run_discovery_pipeline
    dispatch,   \* DispatchState: "disabled", "enabled" or "failed"
    listed,     \* history: items put, in order
    stored,     \* history: items committed, in order
    published,  \* how many of the stored items were published and counted
    sent        \* history: messages the broker took, the backlog's included

tasks == <<producer, complete, exhausted, requested, unsent>>
consumer == <<writer, batch, flushing>>
history == <<listed, stored, published, sent>>
vars == <<tasks, queue, consumer, supervisor, dispatch, history>>

Set(f, x, v) == [f EXCEPT ![x] = v]

Running == {"request", "put"}

\* A discover-only run does not publish; a full scan whose connection or
\* backlog failed goes on without publishing.
Dispatch == {"disabled", "enabled", "failed"}

Init ==
    /\ producer = [s \in Sources |-> "request"]
    /\ complete = [s \in Sources |-> FALSE]
    /\ exhausted = [s \in Sources |-> FALSE]
    /\ requested = [s \in Sources |-> 0]
    /\ unsent = [s \in Sources |-> 0]
    /\ queue = <<>>
    /\ writer = "get"
    /\ batch = <<>>
    /\ flushing = FALSE
    /\ supervisor = "watch"
    /\ dispatch \in {"disabled", "enabled"}
    /\ listed = <<>>
    /\ stored = <<>>
    /\ published = 0
    /\ sent = 0

-----------------------------------------------------------------------------
(* Producers *)

\* There is a page or document the source may still ask for.
Due(s) ==
    /\ requested[s] < Len(Pages[s])
    /\ s \in Paged => requested[s] < MaxPages

\* The next page or document arrives; its items are put one by one.
Request(s) ==
    /\ producer[s] = "request"
    /\ Due(s)
    /\ requested' = Set(requested, s, requested[s] + 1)
    /\ unsent' = Set(unsent, s, Pages[s][requested[s] + 1])
    /\ producer' = Set(producer, s,
           IF Pages[s][requested[s] + 1] = 0 THEN "request" ELSE "put")
    /\ UNCHANGED <<complete, exhausted, queue, consumer, supervisor, dispatch,
                   history>>

\* The request fails after its retries, or its content cannot be read:
\* _run_producer turns the exception into an incomplete result.
RequestFails(s) ==
    /\ producer[s] = "request"
    /\ Due(s)
    /\ producer' = Set(producer, s, "error")
    /\ requested' \in {requested, Set(requested, s, requested[s] + 1)}
    /\ UNCHANGED <<complete, exhausted, unsent, queue, consumer, supervisor,
                   dispatch, history>>

\* A location in the rest of a sitemap document cannot be read: what was not
\* handed over of it is lost.
DocumentRaises(s) ==
    /\ producer[s] = "put"
    /\ s \notin Paged
    /\ producer' = Set(producer, s, "error")
    /\ UNCHANGED <<complete, exhausted, requested, unsent, queue, consumer,
                   supervisor, dispatch, history>>

\* The source returns with the result done, all that reached exhausted or not.
Ends(s, done, all) ==
    /\ producer' = Set(producer, s, "ended")
    /\ complete' = Set(complete, s, done)
    /\ exhausted' = Set(exhausted, s, all)
    /\ UNCHANGED <<requested, unsent, queue, consumer, supervisor, dispatch,
                   history>>

\* All there is was asked for: "empty_page", "short_page", "queue_exhausted".
SourceEnds(s) ==
    /\ producer[s] = "request"
    /\ requested[s] = Len(Pages[s])
    /\ Ends(s, TRUE, TRUE)

\* "configured_page_limit": the API is left at its last allowed page, which
\* counts as complete.
PageLimitEnds(s) ==
    /\ producer[s] = "request"
    /\ s \in Paged
    /\ requested[s] = MaxPages
    /\ Ends(s, TRUE, FALSE)

\* "max_documents" or "max_urls", the latter within a document as well: the
\* rest is not handed over, and the result is incomplete.
WalkLimitEnds(s) ==
    /\ producer[s] \in Running
    /\ s \notin Paged
    /\ Ends(s, FALSE, FALSE)

\* The item s puts next.
NextItem(s) ==
    <<s, Cardinality({i \in 1..Len(listed) : listed[i][1] = s}) + 1>>

\* Mutant: put_nowait on an unbounded queue.
PutUnboundedMutant(s) ==
    /\ producer[s] = "put"
    /\ queue' = Append(queue, NextItem(s))
    /\ listed' = Append(listed, NextItem(s))
    /\ unsent' = Set(unsent, s, unsent[s] - 1)
    /\ producer' = Set(producer, s, IF unsent[s] = 1 THEN "request" ELSE "put")
    /\ UNCHANGED <<complete, exhausted, requested, consumer, supervisor,
                   dispatch, stored, published, sent>>

\* queue.put goes through once there is room.
Put(s) ==
    /\ producer[s] = "put"
    /\ Len(queue) < QueueMax
    /\ queue' = Append(queue, NextItem(s))
    /\ listed' = Append(listed, NextItem(s))
    /\ unsent' = Set(unsent, s, unsent[s] - 1)
    /\ producer' = Set(producer, s, IF unsent[s] = 1 THEN "request" ELSE "put")
    /\ UNCHANGED <<complete, exhausted, requested, consumer, supervisor,
                   dispatch, stored, published, sent>>

-----------------------------------------------------------------------------
(* Writer *)

Collect ==
    /\ writer = "get"
    /\ queue # <<>>
    /\ Head(queue) # Stop
    /\ queue' = Tail(queue)
    /\ batch' = Append(batch, Head(queue))
    /\ writer' = IF Len(batch) + 1 >= BatchSize THEN "write" ELSE "get"
    /\ UNCHANGED <<tasks, flushing, supervisor, dispatch, history>>

\* Mutant: the writer ends at the token whatever it has collected.
CollectStopDroppingMutant ==
    /\ writer = "get"
    /\ queue # <<>>
    /\ Head(queue) = Stop
    /\ queue' = Tail(queue)
    /\ flushing' = TRUE
    /\ writer' = "done"
    /\ UNCHANGED <<tasks, batch, supervisor, dispatch, history>>

\* The stop token: the last items are written first.
CollectStop ==
    /\ writer = "get"
    /\ queue # <<>>
    /\ Head(queue) = Stop
    /\ queue' = Tail(queue)
    /\ flushing' = TRUE
    /\ writer' = IF batch = <<>> THEN "done" ELSE "write"
    /\ UNCHANGED <<tasks, batch, supervisor, dispatch, history>>

\* Mutant: the handler runs as a task of its own.
WriteNotAwaitingMutant ==
    /\ writer = "write"
    /\ stored' = stored \o batch
    /\ batch' = <<>>
    /\ writer' = IF flushing THEN "done" ELSE "get"
    /\ UNCHANGED <<tasks, queue, flushing, supervisor, dispatch, listed,
                   published, sent>>

\* The thread commits the batch and the writer yields its result.
Write ==
    /\ writer = "write"
    /\ stored' = stored \o batch
    /\ writer' = "handle"
    /\ UNCHANGED <<tasks, queue, batch, flushing, supervisor, dispatch, listed,
                   published, sent>>

WriteFails ==
    /\ writer = "write"
    /\ writer' = "failed"
    /\ UNCHANGED <<tasks, queue, batch, flushing, supervisor, dispatch, history>>

\* Mutant: a message is counted before it is published.
PublishBatchMutant ==
    \/ /\ dispatch = "enabled"
       /\ published' \in published..Len(stored)
       /\ \/ /\ published' = Len(stored)
             /\ sent' = sent + (published' - published)
             /\ UNCHANGED dispatch
          \/ /\ published' > published
             /\ sent' \in {sent + (published' - published) - k : k \in 0..1}
             /\ dispatch' = "failed"
    \/ dispatch # "enabled" /\ UNCHANGED <<dispatch, published, sent>>

\* on_committed_batch: the new items are published, and counted one by one,
\* until a publication fails, after which this run publishes no more.  The
\* broker may have taken the message whose publication failed.
PublishBatch ==
    \/ /\ dispatch = "enabled"
       /\ published' \in published..Len(stored)
       /\ \/ /\ published' = Len(stored)
             /\ sent' = sent + (published' - published)
             /\ UNCHANGED dispatch
          \/ /\ published' < Len(stored)
             /\ sent' \in {sent + (published' - published) + k : k \in 0..1}
             /\ dispatch' = "failed"
    \/ dispatch # "enabled" /\ UNCHANGED <<dispatch, published, sent>>

\* Mutant: the written batch is not replaced by an empty one.
HandleKeepingBatchMutant ==
    /\ writer = "handle"
    /\ PublishBatch
    /\ writer' = IF flushing THEN "done" ELSE "get"
    /\ UNCHANGED <<tasks, queue, batch, flushing, supervisor, listed,
                   stored>>

\* The generator goes on after the handler and starts a new batch, or ends.
Handle ==
    /\ writer = "handle"
    /\ PublishBatch
    /\ writer' = IF flushing THEN "done" ELSE "get"
    /\ batch' = <<>>
    /\ UNCHANGED <<tasks, queue, flushing, supervisor, listed, stored>>

-----------------------------------------------------------------------------
(* The supervisor *)

\* The writer failed first: the producers are cancelled, the error raised.
CancelProducers ==
    /\ supervisor = "watch"
    /\ writer = "failed"
    /\ producer' = [s \in Sources |->
           IF producer[s] \in Running THEN "cancelled" ELSE producer[s]]
    /\ supervisor' = "raised"
    /\ UNCHANGED <<complete, exhausted, requested, unsent, queue, consumer,
                   dispatch, history>>

\* Every producer has a result.
ProducersDone ==
    /\ supervisor = "watch"
    /\ writer # "failed"
    /\ \A s \in Sources : producer[s] \notin Running
    /\ supervisor' = "stop"
    /\ UNCHANGED <<tasks, queue, consumer, dispatch, history>>

PutStop ==
    /\ supervisor = "stop"
    /\ Len(queue) < QueueMax
    /\ queue' = Append(queue, Stop)
    /\ supervisor' = "drain"
    /\ UNCHANGED <<tasks, consumer, dispatch, history>>

\* Mutant: the token is awaited without watching the writer.
WriterFailedLateMutant ==
    /\ supervisor = "drain"
    /\ writer = "failed"
    /\ supervisor' = "raised"
    /\ UNCHANGED <<tasks, queue, consumer, dispatch, history>>

\* The writer fails while the token waits for room, or after it is put.
WriterFailedLate ==
    /\ supervisor \in {"stop", "drain"}
    /\ writer = "failed"
    /\ supervisor' = "raised"
    /\ UNCHANGED <<tasks, queue, consumer, dispatch, history>>

WriterDone ==
    /\ supervisor = "drain"
    /\ writer = "done"
    /\ supervisor' = "returned"
    /\ UNCHANGED <<tasks, queue, consumer, dispatch, history>>

Produce(s) ==
    \/ Request(s)
    \/ RequestFails(s)
    \/ DocumentRaises(s)
    \/ SourceEnds(s)
    \/ PageLimitEnds(s)
    \/ WalkLimitEnds(s)
    \/ Put(s)

Consume ==
    \/ Collect
    \/ CollectStop
    \/ Write
    \/ WriteFails
    \/ Handle

Supervise ==
    \/ CancelProducers
    \/ ProducersDone
    \/ PutStop
    \/ WriterFailedLate
    \/ WriterDone

Next ==
    \/ \E s \in Sources : Produce(s)
    \/ Consume
    \/ Supervise

Spec == Init /\ [][Next]_vars

-----------------------------------------------------------------------------
\* Every variable holds a value the program can give it; the queue never
\* holds more than its size (asyncio.Queue(maxsize)), a batch never more
\* than the batch size.
DiscoveryTypeOK ==
    /\ producer \in [Sources -> Running \cup {"ended", "error", "cancelled"}]
    /\ complete \in [Sources -> BOOLEAN]
    /\ exhausted \in [Sources -> BOOLEAN]
    /\ requested \in [Sources -> Nat]
    /\ unsent \in [Sources -> Nat]
    /\ queue \in Seq(Item \cup {Stop}) /\ Len(queue) <= QueueMax
    /\ writer \in {"get", "write", "handle", "done", "failed"}
    /\ batch \in Seq(Item) /\ Len(batch) <= BatchSize
    /\ flushing \in BOOLEAN
    /\ supervisor \in {"watch", "stop", "drain", "returned", "raised"}
    /\ dispatch \in Dispatch
    /\ listed \in Seq(Item)
    /\ stored \in Seq(Item)
    /\ published \in 0..Len(stored)
    /\ sent \in Nat

\* Until its handler is done a written batch stays in the writer's hands.
Unwritten == IF writer = "handle" THEN <<>> ELSE batch

\* The items in the queue: all that is in it but for the stop token, which
\* nothing follows.
Waiting ==
    IF queue # <<>> /\ queue[Len(queue)] = Stop
    THEN SubSeq(queue, 1, Len(queue) - 1)
    ELSE queue

\* What was listed is, in order and once each, in the table, in the batch or
\* in the queue: the hand-over of the batch to the thread, the stop token
\* and failures neither drop nor repeat an item (DiscoveryWriter.run).
Conserved == listed = stored \o Unwritten \o Waiting

\* The pipeline keeps the promise of DiscoveryPromise: it returns only when
\* everything listed is stored, and is quiet after it raised.
Promise == INSTANCE DiscoveryPromise WITH
    Items <- Item,
    stored <- Len(stored),
    outcome <- IF supervisor \in {"returned", "raised"}
               THEN supervisor ELSE "running"
KeepsPromise == Promise!Spec

\* A batch is published before the next one is committed, unless publication
\* has failed: an interruption leaves one batch unpublished at most
\* (on_committed_batch is awaited by consume_batches).
OneBatchUnpublished ==
    [][stored' # stored /\ dispatch = "enabled" => published = Len(stored)]_vars
=============================================================================
